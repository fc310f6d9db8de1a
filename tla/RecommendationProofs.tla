------------------------ MODULE RecommendationProofs ------------------------
(***************************************************************************)
(* POST /api/food, for any number of requests, any restrictions and lists, *)
(* and any number of retries: a food that is stored keeps the restrictions *)
(* of its client, each try stores one row at most, and the id of a 200 is  *)
(* that of the client's own food.                                          *)
(*                                                                         *)
(* The inductive invariant RecInv follows each try from the client that    *)
(* sends it to the call under way and the row it may leave, also when the  *)
(* client has given the try up.                                            *)
(***************************************************************************)
EXTENDS Recommendation, TableLimitsProofs

-----------------------------------------------------------------------------
(* The invariant *)

\* What a handler has done, from what its locals say.  Nobody has seen its
\* food before the first try; from then on the food is the one it has generated.
Progress(q) ==
  /\ q.pc \in {"received", "fetching", "generating"} => q.tries = 0 /\ q.attempt < GenerationAttempts
  /\ q.pc = "sending" => q.tries <= RetryMax
  /\ q.pc = "waiting" => q.tries > 0
  /\ q.status = 200 => q.pc = "answered"
  /\ q.tries > 0 \/ q.pc = "sending" =>
       /\ q.food \in Generated(q.restrictions)
       /\ CalculateCalories(q.food) > q.restrictions.maxCalories => q.attempt = GenerationAttempts

\* A call, or the row it has left, carries the food of a try that was made.
Faithful(call) ==
  call.try <= request[call.request].tries /\ call.food = request[call.request].food

\* No two of these stand for the same try of the same request.
SameTry(c, d) == c.request = d.request /\ c.try = d.try

\* The row is r's, unless newer ones have pushed it out.
Own(r, id) ==
  /\ id <= lastFood
  /\ \/ MaxFoods > 0 /\ id <= lastFood - MaxFoods
     \/ id \in DOMAIN stored /\ stored[id].request = r

\* Each try is one call, which is recorded once at most.
Tries ==
  /\ \A c \in calls : Faithful(c)
  /\ \A i \in DOMAIN stored : Faithful(stored[i])
  /\ \A c, d \in calls : SameTry(c, d) => c = d
  /\ \A i, j \in DOMAIN stored : SameTry(stored[i], stored[j]) => i = j
  /\ \A i \in DOMAIN stored, c \in calls : SameTry(stored[i], c) => c.pc # "sent"

\* The ids that the catalog has given away, and that clients have been told.
Owned ==
  /\ \A c \in calls : c.pc = "created" => Own(c.request, c.id)
  /\ \A r \in Requests : request[r].status = 200 => Own(r, request[r].id)

RecInv ==
  TypeOK /\ SeedFoods <= lastFood /\ (\A r \in Requests : Progress(request[r])) /\ Tries /\ Owned

-----------------------------------------------------------------------------
(* The food generator *)

\* A food is made of ingredients of the catalog, whatever the restrictions.
LEMMA GeneratedType ==
  ASSUME NEW r \in Restrictions, NEW food \in Generated(r)
  PROVE  food \in Foods
<1>1. PICK sauce \in Valid(Sauces, r), protein \in Valid(Proteins, r),
           vegetable \in Valid(Vegetables, r), tool \in ValidTools(r),
           sides \in UNION {Draws(n, Valid(SideDishes, r)) : n \in SideDishCounts(r)} :
        food = [ingredients |-> {sauce, protein, vegetable} \cup sides, tool |-> tool]
  BY DEF Generated
<1>2. PICK n \in SideDishCounts(r) : sides \in Draws(n, Valid(SideDishes, r))
  BY <1>1
<1>3. sides \subseteq Valid(SideDishes, r)
  BY <1>2 DEF Draws
<1>4. {sauce, protein, vegetable} \cup sides \subseteq Ingredients
  BY <1>3 DEF Valid, Ingredients
<1>5. tool \in Tools
  BY DEF ValidTools
<1> QED
  BY <1>1, <1>4, <1>5 DEF Foods

\* A set with one more element has at most one element more.
LEMMA OneMore ==
  ASSUME NEW S, IsFiniteSet(S), NEW x
  PROVE  /\ IsFiniteSet(S \cup {x})
         /\ Cardinality(S) \in Nat /\ Cardinality(S \cup {x}) \in Nat
         /\ Cardinality(S \cup {x}) <= Cardinality(S) + 1
<1>1. Cardinality(S) \in Nat
  BY FS_CardinalityType
<1>2. /\ IsFiniteSet(S \cup {x})
      /\ Cardinality(S \cup {x}) = Cardinality(S) \/ Cardinality(S \cup {x}) = Cardinality(S) + 1
  BY FS_AddElement
<1> QED
  BY <1>1, <1>2

\* A food keeps the restrictions it was generated under: no ingredient or tool
\* that is excluded, no meat for a vegetarian, no more side dishes than the
\* maximum, even when the minimum exceeds it.
THEOREM GeneratedAllowed ==
  ASSUME NEW r \in Restrictions, NEW food \in Generated(r)
  PROVE  /\ food.ingredients \cap r.excluded = {}
         /\ food.tool \notin r.excludedTools
         /\ r.vegetarian => IsVegetarian(food)
         /\ r.maxToppings >= 0 => Cardinality(food.ingredients) <= 3 + r.maxToppings
<1>1. PICK sauce \in Valid(Sauces, r), protein \in Valid(Proteins, r),
           vegetable \in Valid(Vegetables, r), tool \in ValidTools(r),
           sides \in UNION {Draws(n, Valid(SideDishes, r)) : n \in SideDishCounts(r)} :
        food = [ingredients |-> {sauce, protein, vegetable} \cup sides, tool |-> tool]
  BY DEF Generated
<1>2. PICK n \in SideDishCounts(r) : sides \in Draws(n, Valid(SideDishes, r))
  BY <1>1
<1>3. sides \subseteq Valid(SideDishes, r)
  BY <1>2 DEF Draws
<1>4. food.ingredients \cap r.excluded = {}
  BY <1>1, <1>3 DEF Valid
<1>5. food.tool \notin r.excludedTools
  BY <1>1 DEF ValidTools
<1>6. r.vegetarian => IsVegetarian(food)
  BY <1>1, <1>3 DEF Valid, IsVegetarian
<1>7. ASSUME r.maxToppings >= 0
      PROVE  Cardinality(food.ingredients) <= 3 + r.maxToppings
  <2>1. r.maxToppings \in Int /\ r.minToppings \in Int
    BY DEF Restrictions
  <2>2. n \in Int /\ n <= r.maxToppings
    BY <2>1 DEF SideDishCounts
  <2>3. IsFiniteSet(sides)
    BY <1>3, CatalogLists, FS_Subset DEF Valid, Ingredients
  <2>4. Cardinality(sides) \in Nat /\ Cardinality(sides) <= r.maxToppings
    <3>1. CASE sides = {}
      BY <1>7, <2>1, <3>1, FS_EmptySet
    <3>2. CASE sides # {}
      <4>1. Cardinality(sides) <= n
        BY <1>2, <3>2 DEF Draws
      <4> QED
        BY <2>1, <2>2, <2>3, <4>1, FS_CardinalityType
    <3> QED
      BY <3>1, <3>2
  <2> DEFINE one   == sides \cup {sauce}
             two   == one \cup {protein}
             three == two \cup {vegetable}
  <2>5. IsFiniteSet(one) /\ Cardinality(one) \in Nat /\ Cardinality(one) <= Cardinality(sides) + 1
    BY <2>3, OneMore
  <2> HIDE DEF one
  <2>6. IsFiniteSet(two) /\ Cardinality(two) \in Nat /\ Cardinality(two) <= Cardinality(one) + 1
    BY <2>5, OneMore
  <2> HIDE DEF two
  <2>7. Cardinality(three) \in Nat /\ Cardinality(three) <= Cardinality(two) + 1
    BY <2>6, OneMore
  <2> HIDE DEF three
  <2>8. food.ingredients = three
    BY <1>1 DEF one, two, three
  <2> QED
    BY <2>1, <2>4, <2>5, <2>6, <2>7, <2>8
<1> QED
  BY <1>4, <1>5, <1>6, <1>7

-----------------------------------------------------------------------------
(* The handler's steps *)

\* The restrictions of a request that comes in have the right type.
LEMMA DefaultsType == \A input \in Inputs : WithDefaults(input) \in Restrictions
<1> SUFFICES ASSUME NEW input \in Inputs PROVE WithDefaults(input) \in Restrictions
  OBVIOUS
<1>1. input \in Restrictions
  BY RecommendationAssumption
<1>2. /\ input = [maxCalories |-> input.maxCalories, vegetarian |-> input.vegetarian,
                  excluded |-> input.excluded, excludedTools |-> input.excludedTools,
                  maxToppings |-> input.maxToppings, minToppings |-> input.minToppings]
      /\ input.maxCalories \in Int /\ input.maxToppings \in Int /\ input.minToppings \in Int
      /\ input.vegetarian \in BOOLEAN /\ input.excluded \in SUBSET Ingredients
      /\ input.excludedTools \in SUBSET Tools
  BY <1>1 DEF Restrictions
<1>3. OrDefault(input.maxCalories, 1000) \in Int
  BY <1>2 DEF OrDefault
<1>4. OrDefault(input.maxToppings, 5) \in Int
  BY <1>2 DEF OrDefault
<1>5. OrDefault(input.minToppings, 3) \in Int
  BY <1>2 DEF OrDefault
<1> DEFINE calories == OrDefault(input.maxCalories, 1000)
           most     == OrDefault(input.maxToppings, 5)
           least    == OrDefault(input.minToppings, 3)
<1>6. WithDefaults(input) = [input EXCEPT !.maxCalories = calories, !.maxToppings = most,
                                          !.minToppings = least]
  BY DEF WithDefaults
<1>7. calories \in Int /\ most \in Int /\ least \in Int
  BY <1>3, <1>4, <1>5
<1> HIDE DEF calories, most, least
<1>8. [input EXCEPT !.maxCalories = calories, !.maxToppings = most, !.minToppings = least]
        \in Restrictions
  BY <1>1, <1>7 DEF Restrictions
<1> QED
  BY <1>6, <1>8

\* Initially nothing has been asked of the catalog.
LEMMA InitRec == Init => RecInv
<1> SUFFICES ASSUME Init PROVE RecInv
  OBVIOUS
<1>1. PICK input \in [Requests -> Inputs] :
        request = [r \in Requests |->
                     [pc |-> "received", restrictions |-> WithDefaults(input[r]),
                      attempt |-> 0, food |-> NoFood, tries |-> 0, status |-> 0, id |-> 0]]
  BY DEF Init
<1>2. \A r \in Requests : WithDefaults(input[r]) \in Restrictions
  BY DefaultsType
<1>3. \A r \in Requests : request[r] \in RequestType
  BY <1>1, <1>2, RecommendationAssumption DEF RequestType, Labels, Statuses, AnyFood, GenerationAttempts
<1>4. request \in [Requests -> RequestType]
  BY <1>1, <1>3
<1>5. calls = {} /\ stored = <<>> /\ lastFood = SeedFoods /\ DOMAIN stored = {}
  BY DEF Init
<1>6. TypeOK
  BY <1>4, <1>5, RecommendationAssumption DEF TypeOK
<1>7. \A r \in Requests : Progress(request[r])
  BY <1>1 DEF Progress, GenerationAttempts
<1>8. Tries /\ Owned
  BY <1>1, <1>5 DEF Tries, Owned
<1> QED
  BY <1>5, <1>6, <1>7, <1>8, RecommendationAssumption DEF RecInv

\* A handler that goes on preserves the invariant if its own locals do: its
\* food changes only before the first try, and it ends no call of others.
LEMMA HandlerStep ==
  ASSUME RecInv, NEW r \in Requests,
         request' \in [Requests -> RequestType],
         \A t \in Requests : t # r => request'[t] = request[t],
         Progress(request'[r]),
         request'[r].tries = request[r].tries,
         request[r].tries > 0 => request'[r].food = request[r].food,
         request'[r].status = 200 => Own(r, request'[r].id),
         calls' \subseteq calls, stored' = stored, lastFood' = lastFood
  PROVE  RecInv'
<1> USE DEF RecInv
<1>1. TypeOK'
  BY DEF TypeOK
<1>2. \A t \in Requests : Progress(request'[t])
  OBVIOUS
<1>3. \A call \in CallType : Faithful(call) => Faithful(call)'
  <2> SUFFICES ASSUME NEW call \in CallType, Faithful(call) PROVE Faithful(call)'
    OBVIOUS
  <2>1. call.request \in Requests /\ call.try \in 1..(RetryMax + 1)
    BY DEF CallType
  <2>2. CASE call.request # r
    BY <2>1, <2>2 DEF Faithful
  <2>3. CASE call.request = r
    <3>1. request[r].tries > 0
      BY <2>1, <2>3 DEF Faithful, TypeOK, RequestType
    <3> QED
      BY <2>3, <3>1 DEF Faithful
  <2> QED
    BY <2>2, <2>3
<1>4. calls \subseteq CallType /\ \A i \in DOMAIN stored : stored[i] \in CallType
  BY DEF TypeOK
<1>5. Tries'
  BY <1>3, <1>4 DEF Tries, SameTry
<1>6. \A t, id : Own(t, id)' <=> Own(t, id)
  BY DEF Own
<1>7. Owned'
  BY <1>6 DEF Owned
<1> QED
  BY <1>1, <1>2, <1>5, <1>7

\* The types of a handler's locals, field by field.
LEMMA RequestFields ==
  ASSUME TypeOK, NEW r \in Requests
  PROVE  /\ request[r] \in RequestType
         /\ request[r].pc \in Labels /\ request[r].restrictions \in Restrictions
         /\ request[r].attempt \in 0..GenerationAttempts /\ request[r].food \in AnyFood
         /\ request[r].tries \in 0..(RetryMax + 1) /\ request[r].tries \in Nat
         /\ RetryMax \in Nat
BY RecommendationAssumption DEF TypeOK, RequestType

\* A handler that answers with an error is done, whatever became of its tries.
LEMMA AnswerRec ==
  ASSUME RecInv, NEW r \in Requests, NEW code \in Statuses, code # 200, Answer(r, code),
         calls' \subseteq calls, stored' = stored, lastFood' = lastFood
  PROVE  RecInv'
<1> DEFINE q == [request[r] EXCEPT !.pc = "answered", !.status = code]
<1>1. /\ request[r] \in RequestType /\ Progress(request[r])
  BY RequestFields DEF RecInv
<1>2. request'[r] = q /\ request' \in [Requests -> RequestType]
  <2>1. "answered" \in Labels
    BY DEF Labels
  <2>2. q \in RequestType
    BY <1>1, <2>1 DEF RequestType
  <2>3. request'[r] = q
    BY <1>1 DEF Answer, RecInv, TypeOK
  <2>4. DOMAIN request' = Requests /\ request' = [t \in Requests |-> request'[t]]
    BY DEF Answer, RecInv, TypeOK
  <2>5. \A t \in Requests : t # r => request'[t] = request[t]
    BY DEF Answer, RecInv, TypeOK
  <2> HIDE DEF q
  <2> QED
    BY <2>2, <2>3, <2>4, <2>5 DEF RecInv, TypeOK
<1>3. \A t \in Requests : t # r => request'[t] = request[t]
  BY DEF Answer, RecInv, TypeOK
<1>4. /\ q.pc = "answered" /\ q.status # 200 /\ q.tries = request[r].tries
      /\ q.food = request[r].food /\ q.restrictions = request[r].restrictions
      /\ q.attempt = request[r].attempt
  BY <1>1 DEF RequestType
<1> HIDE DEF q
<1>5. Progress(q)
  BY <1>1, <1>4 DEF Progress
<1> QED
  BY <1>2, <1>3, <1>4, <1>5, HandlerStep

\* The checks at the top, the fetches and a panic: the handler goes on, or
\* answers with an error.
LEMMA EarlyRec ==
  ASSUME RecInv, NEW r \in Requests, Receive(r) \/ Fetch(r) \/ Panic(r)
  PROVE  RecInv'
<1>1. CASE \E code \in {400, 401, 500, 503} : Answer(r, code)
  BY <1>1, AnswerRec DEF Receive, Fetch, Panic, Statuses
<1>2. ASSUME NEW pc \in {"fetching", "generating"}, request' = [request EXCEPT ![r].pc = pc],
             request[r].pc \in {"received", "fetching"}
      PROVE  RecInv'
  <2> DEFINE q == [request[r] EXCEPT !.pc = pc]
  <2>1. request[r] \in RequestType /\ Progress(request[r])
    BY RequestFields DEF RecInv
  <2>2. request'[r] = q /\ request' \in [Requests -> RequestType]
    BY <1>2, <2>1 DEF RecInv, TypeOK, RequestType, Labels
  <2>3. \A t \in Requests : t # r => request'[t] = request[t]
    BY <1>2 DEF RecInv, TypeOK
  <2>4. /\ q.pc = pc /\ q.tries = request[r].tries /\ q.status = request[r].status
        /\ q.food = request[r].food /\ q.attempt = request[r].attempt
    BY <2>1 DEF RequestType
  <2> HIDE DEF q
  <2>5. Progress(q) /\ q.status # 200 /\ q.tries = 0
    BY <1>2, <2>1, <2>4 DEF Progress
  <2> QED
    BY <2>2, <2>3, <2>4, <2>5, HandlerStep DEF Receive, Fetch, Panic
<1> QED
  BY <1>1, <1>2 DEF Receive, Fetch, Panic, At

\* A round of the generation ends with a food that is kept, or with another
\* round to come.
LEMMA GenerateRec ==
  ASSUME RecInv, NEW r \in Requests, Generate(r)
  PROVE  RecInv'
<1> DEFINE q == request[r]
<1>1. PICK food \in Generated(q.restrictions) :
        LET retry == /\ CalculateCalories(food) > q.restrictions.maxCalories
                     /\ Round(r) < GenerationAttempts
        IN request' = [request EXCEPT ![r].attempt = Round(r),
                                      ![r].food = IF retry THEN @ ELSE food,
                                      ![r].pc = IF retry THEN "generating" ELSE "sending"]
  BY DEF Generate
<1>2. /\ q.pc = "generating" /\ q.tries = 0 /\ q.attempt < GenerationAttempts
      /\ q.status # 200
  BY DEF Generate, At, RecInv, Progress
<1>3. food \in AnyFood
  BY RequestFields, GeneratedType DEF RecInv, AnyFood
<1>4. Round(r) \in 0..GenerationAttempts
      /\ (~(Round(r) < GenerationAttempts) => Round(r) = GenerationAttempts)
  BY <1>2, RequestFields DEF RecInv, Round, GenerationAttempts
<1> DEFINE heavy == CalculateCalories(food) > q.restrictions.maxCalories
<1>5. request[r] \in RequestType
  BY RequestFields DEF RecInv
<1>6. CASE heavy /\ Round(r) < GenerationAttempts
  <2> DEFINE p == [q EXCEPT !.attempt = Round(r), !.pc = "generating"]
  <2>1. p \in RequestType
    <3>1. "generating" \in Labels
      BY DEF Labels
    <3> QED
      BY <1>4, <1>5, <3>1 DEF RequestType
  <2>2. request'[r] = p
    BY <1>1, <1>5, <1>6 DEF RecInv, TypeOK, RequestType
  <2>3. \A t \in Requests : t # r => request'[t] = request[t]
    BY <1>1 DEF RecInv, TypeOK
  <2>4. request' \in [Requests -> RequestType]
    <3>1. DOMAIN request' = Requests /\ request' = [t \in Requests |-> request'[t]]
      BY <1>1 DEF RecInv, TypeOK
    <3> QED
      BY <2>1, <2>2, <2>3, <3>1 DEF RecInv, TypeOK
  <2>5. /\ p.pc = "generating" /\ p.attempt = Round(r) /\ p.tries = q.tries /\ p.status = q.status
    BY <1>5 DEF RequestType
  <2> HIDE DEF p
  <2>6. Progress(p)
    BY <1>2, <1>6, <2>5 DEF Progress
  <2> QED
    BY <1>2, <2>2, <2>3, <2>4, <2>5, <2>6, HandlerStep DEF Generate
<1>7. CASE ~(heavy /\ Round(r) < GenerationAttempts)
  <2> DEFINE p == [q EXCEPT !.attempt = Round(r), !.food = food, !.pc = "sending"]
  <2>1. p \in RequestType
    <3>1. "sending" \in Labels
      BY DEF Labels
    <3> QED
      BY <1>3, <1>4, <1>5, <3>1 DEF RequestType
  <2>2. request'[r] = p
    BY <1>1, <1>5, <1>7 DEF RecInv, TypeOK, RequestType
  <2>3. \A t \in Requests : t # r => request'[t] = request[t]
    BY <1>1 DEF RecInv, TypeOK
  <2>4. request' \in [Requests -> RequestType]
    <3>1. DOMAIN request' = Requests /\ request' = [t \in Requests |-> request'[t]]
      BY <1>1 DEF RecInv, TypeOK
    <3> QED
      BY <2>1, <2>2, <2>3, <3>1 DEF RecInv, TypeOK
  <2>5. /\ p.pc = "sending" /\ p.attempt = Round(r) /\ p.tries = q.tries /\ p.status = q.status
        /\ p.food = food /\ p.restrictions = q.restrictions
    BY <1>5 DEF RequestType
  <2>6. heavy => Round(r) = GenerationAttempts
    BY <1>4, <1>7
  <2> HIDE DEF p
  <2>7. Progress(p)
    BY <1>2, <2>5, <2>6, RecommendationAssumption DEF Progress
  <2> QED
    BY <1>2, <2>2, <2>3, <2>4, <2>5, <2>7, HandlerStep DEF Generate
<1> QED
  BY <1>6, <1>7

-----------------------------------------------------------------------------
(* The tries of a client *)

\* A handler that gives a try up sends another, or answers with an error.
LEMMA GiveUpRec ==
  ASSUME RecInv, NEW r \in Requests, At(r, "waiting"), GiveUpTry(r),
         calls' \subseteq calls, stored' = stored, lastFood' = lastFood
  PROVE  RecInv'
<1>1. CASE Answer(r, 500)
  BY <1>1, AnswerRec DEF Statuses
<1>2. CASE MayRetry(r) /\ request' = [request EXCEPT ![r].pc = "sending"]
  <2> DEFINE q == [request[r] EXCEPT !.pc = "sending"]
  <2>1. request[r] \in RequestType /\ Progress(request[r])
    BY RequestFields DEF RecInv
  <2>2. request'[r] = q /\ request' \in [Requests -> RequestType]
    BY <1>2, <2>1 DEF RecInv, TypeOK, RequestType, Labels
  <2>3. \A t \in Requests : t # r => request'[t] = request[t]
    BY <1>2 DEF RecInv, TypeOK
  <2>4. /\ q.pc = "sending" /\ q.tries = request[r].tries /\ q.status = request[r].status
        /\ q.food = request[r].food /\ q.attempt = request[r].attempt
        /\ q.restrictions = request[r].restrictions
    BY <2>1 DEF RequestType
  <2> HIDE DEF q
  <2>5. Progress(q) /\ q.status # 200
    BY <1>2, <2>1, <2>4 DEF Progress, At, MayRetry
  <2> QED
    BY <2>2, <2>3, <2>4, <2>5, HandlerStep
<1> QED
  BY <1>1, <1>2 DEF GiveUpTry

\* An answer that is read is a failure, or tells the id of a row that is r's.
LEMMA ReadAnswerRec ==
  ASSUME RecInv, NEW r \in Requests, ReadAnswer(r)
  PROVE  RecInv'
<1>1. PICK call \in calls :
        /\ call.request = r /\ calls' = calls \ {call}
        /\ \/ /\ call.pc = "created"
              /\ request' = [request EXCEPT ![r].pc = "answered", ![r].status = 200,
                                            ![r].id = call.id]
           \/ GiveUpTry(r)
  BY DEF ReadAnswer, AnsweredId
<1>2. At(r, "waiting") /\ stored' = stored /\ lastFood' = lastFood
  BY DEF ReadAnswer
<1>3. CASE GiveUpTry(r)
  BY <1>1, <1>2, <1>3, GiveUpRec
<1>4. CASE /\ call.pc = "created"
           /\ request' = [request EXCEPT ![r].pc = "answered", ![r].status = 200,
                                         ![r].id = call.id]
  <2> DEFINE id == call.id
             q == [request[r] EXCEPT !.pc = "answered", !.status = 200, !.id = id]
  <2>1. request[r] \in RequestType /\ Progress(request[r])
    BY RequestFields DEF RecInv
  <2>2. Own(r, id) /\ id \in Nat
    BY <1>1, <1>4 DEF RecInv, Owned, TypeOK, CallType
  <2> HIDE DEF id
  <2>3. q \in RequestType
    <3>1. "answered" \in Labels /\ 200 \in Statuses
      BY DEF Labels, Statuses
    <3> QED
      BY <2>1, <2>2, <3>1 DEF RequestType
  <2>4. request'[r] = q
    BY <1>4, <2>1 DEF RecInv, TypeOK, id
  <2>5. \A t \in Requests : t # r => request'[t] = request[t]
    BY <1>4 DEF RecInv, TypeOK
  <2>6. DOMAIN request' = Requests /\ request' = [t \in Requests |-> request'[t]]
    BY <1>4 DEF RecInv, TypeOK
  <2>7. /\ q.pc = "answered" /\ q.tries = request[r].tries /\ q.food = request[r].food
        /\ q.attempt = request[r].attempt /\ q.restrictions = request[r].restrictions
        /\ q.id = id
    BY <2>1 DEF RequestType
  <2> HIDE DEF q
  <2>8. Progress(q)
    BY <2>1, <2>7 DEF Progress
  <2>9. request' \in [Requests -> RequestType]
    BY <2>3, <2>4, <2>5, <2>6 DEF RecInv, TypeOK
  <2> QED
    BY <1>1, <1>2, <2>2, <2>4, <2>5, <2>7, <2>8, <2>9, HandlerStep
<1> QED
  BY <1>1, <1>3, <1>4

\* A new try is one that nobody has made before.
LEMMA SendRec ==
  ASSUME RecInv, NEW r \in Requests, Send(r)
  PROVE  RecInv'
<1> USE DEF RecInv
<1> DEFINE food == request[r].food
<1>a. PICK try : try = request[r].tries + 1
  OBVIOUS
<1>b. PICK new : new = Call(r, try, food)
  OBVIOUS
<1> DEFINE q == [request[r] EXCEPT !.pc = "waiting", !.tries = try]
<1>1. /\ request[r] \in RequestType /\ Progress(request[r]) /\ request[r].pc = "sending"
      /\ request[r].tries \in Nat /\ food \in AnyFood
  BY RequestFields DEF Send, At
<1>2. try \in 1..(RetryMax + 1) /\ try \in 0..(RetryMax + 1)
  BY <1>a, <1>1, RecommendationAssumption DEF Progress
<1>3. new \in CallType /\ new.request = r /\ new.try = try /\ new.food = food /\ new.pc = "sent"
  BY <1>b, <1>1, <1>2 DEF Call, CallType
<1>4. /\ request' = [request EXCEPT ![r].pc = "waiting", ![r].tries = try]
      /\ calls' = calls \cup {new} /\ stored' = stored /\ lastFood' = lastFood
  BY <1>a, <1>b DEF Send
<1>5. \A t \in Requests : t # r => request'[t] = request[t]
  BY <1>4 DEF TypeOK
<1>6. DOMAIN request' = Requests /\ request' = [t \in Requests |-> request'[t]]
  BY <1>4 DEF TypeOK
<1>7. request[r].tries < try
  BY <1>a, <1>1
<1>8. request'[r] = q
  BY <1>1, <1>4 DEF TypeOK
<1>9. q \in RequestType
  <2>1. "waiting" \in Labels
    BY DEF Labels
  <2> QED
    BY <1>1, <1>2, <2>1 DEF RequestType
<1>10. /\ q.pc = "waiting" /\ q.tries = try /\ q.status = request[r].status
       /\ q.food = food /\ q.attempt = request[r].attempt
       /\ q.restrictions = request[r].restrictions
       /\ q.id = request[r].id
  BY <1>1 DEF RequestType
<1> HIDE DEF q
<1>11. request' \in [Requests -> RequestType]
  BY <1>5, <1>6, <1>8, <1>9 DEF TypeOK
<1>12. TypeOK'
  BY <1>3, <1>4, <1>11 DEF TypeOK
<1>13. \A t \in Requests : Progress(request'[t])
  <2>1. Progress(q)
    BY <1>1, <1>2, <1>10 DEF Progress
  <2> QED
    BY <1>5, <1>8, <2>1
<1>14. \A call \in CallType : Faithful(call) => /\ Faithful(call)'
                                                /\ ~SameTry(call, new) /\ ~SameTry(new, call)
  <2> SUFFICES ASSUME NEW call \in CallType, Faithful(call)
               PROVE  Faithful(call)' /\ ~SameTry(call, new) /\ ~SameTry(new, call)
    OBVIOUS
  <2>1. call.request \in Requests /\ call.try \in Int
    BY DEF CallType
  <2>2. CASE call.request # r
    BY <1>3, <1>5, <2>1, <2>2 DEF Faithful, SameTry
  <2>3. CASE call.request = r
    BY <1>1, <1>2, <1>3, <1>7, <1>8, <1>10, <2>1, <2>3 DEF Faithful, SameTry
  <2> QED
    BY <2>2, <2>3
<1>15. calls \subseteq CallType /\ \A i \in DOMAIN stored : stored[i] \in CallType
  BY DEF TypeOK
<1>16. Faithful(new)'
  BY <1>2, <1>3, <1>8, <1>10 DEF Faithful
<1>17. Tries'
  <2>1. \A c \in calls' : Faithful(c)'
    BY <1>4, <1>14, <1>15, <1>16 DEF Tries
  <2>2. (\A i \in DOMAIN stored : Faithful(stored[i]))'
    BY <1>4, <1>14, <1>15 DEF Tries
  <2>3. \A c, d \in calls' : SameTry(c, d) => c = d
    BY <1>4, <1>14, <1>15 DEF Tries
  <2>4. \A i \in DOMAIN stored, c \in calls' : SameTry(stored[i], c) => c.pc # "sent"
    BY <1>4, <1>14, <1>15 DEF Tries
  <2> QED
    BY <1>4, <2>1, <2>2, <2>3, <2>4 DEF Tries
<1>18. Owned'
  <2>1. \A t, id : Own(t, id)' <=> Own(t, id)
    BY <1>4 DEF Own
  <2>2. \A t \in Requests : request'[t].status = request[t].status /\ request'[t].id = request[t].id
    BY <1>5, <1>8, <1>10
  <2> QED
    <3>1. (\A t \in Requests : request[t].status = 200 => Own(t, request[t].id))'
      BY <2>1, <2>2 DEF Owned
    <3>2. \A c \in calls' : c.pc = "created" => Own(c.request, c.id)'
      BY <1>3, <1>4, <2>1 DEF Owned
    <3> QED
      BY <3>1, <3>2 DEF Owned
<1> QED
  BY <1>4, <1>12, <1>13, <1>17, <1>18

-----------------------------------------------------------------------------
(* The catalog's steps *)

\* Changing the state of a call, and what it answers, makes no other try of it.
LEMMA Settled ==
  ASSUME NEW call \in CallType, NEW pc \in {"created", "failed"}, NEW id \in Nat
  PROVE  /\ [call EXCEPT !.pc = pc, !.id = id] \in CallType
         /\ [call EXCEPT !.pc = pc, !.id = id].request = call.request
         /\ [call EXCEPT !.pc = pc, !.id = id].try = call.try
         /\ [call EXCEPT !.pc = pc, !.id = id].food = call.food
         /\ [call EXCEPT !.pc = pc, !.id = id].pc = pc
         /\ [call EXCEPT !.pc = pc, !.id = id].id = id
BY DEF CallType

\* A call that fails, or is lost, leaves the rows as they are.
LEMMA FailRec ==
  ASSUME RecInv, NEW call \in calls, FailToRecord(call) \/ Lose(call)
  PROVE  RecInv'
<1> USE DEF RecInv
<1> DEFINE d == [call EXCEPT !.pc = "failed", !.id = 0]
<1>1. /\ call \in CallType /\ d \in CallType
      /\ d.request = call.request /\ d.try = call.try /\ d.food = call.food /\ d.pc = "failed"
  <2>1. call \in CallType /\ 0 \in Nat /\ "failed" \in {"created", "failed"}
    BY DEF TypeOK
  <2>2. d \in CallType
    BY <2>1, Settled
  <2>3. d.request = call.request /\ d.try = call.try /\ d.food = call.food
    BY <2>1 DEF CallType
  <2>4. d.pc = "failed"
    BY <2>1, Settled
  <2> QED
    BY <2>1, <2>2, <2>3, <2>4
<1>2. calls' \subseteq (calls \ {call}) \cup {d} /\ request' = request /\ stored' = stored
      /\ lastFood' = lastFood
  BY DEF FailToRecord, Lose, Settle
<1> HIDE DEF d
<1>3. TypeOK'
  BY <1>1, <1>2 DEF TypeOK
<1>4. \A c : Faithful(c)' <=> Faithful(c)
  BY <1>2 DEF Faithful
<1>5. Faithful(d)
  BY <1>1 DEF Tries, Faithful
<1>6. Tries'
  <2>1. \A c \in calls' : Faithful(c)'
    BY <1>2, <1>4, <1>5 DEF Tries
  <2>2. \A c, e \in calls' : SameTry(c, e) => c = e
    BY <1>1, <1>2 DEF Tries, SameTry
  <2>3. \A i \in DOMAIN stored, c \in calls' : SameTry(stored[i], c) => c.pc # "sent"
    BY <1>1, <1>2 DEF Tries, SameTry
  <2> QED
    BY <1>2, <1>4, <2>1, <2>2, <2>3 DEF Tries
<1>7. Owned'
  <2>1. \A t, id : Own(t, id)' <=> Own(t, id)
    BY <1>2 DEF Own
  <2> QED
    BY <1>1, <1>2, <2>1 DEF Owned
<1> QED
  BY <1>2, <1>3, <1>6, <1>7

\* The row that a call leaves is the first of its try, and pruning deletes
\* only rows that newer ones have pushed out.
LEMMA RecordRec ==
  ASSUME RecInv, NEW call \in calls, Record(call)
  PROVE  RecInv'
<1> USE DEF RecInv
<1>a. PICK new : new = lastFood + 1
  OBVIOUS
<1> DEFINE all == [i \in DOMAIN stored \cup {new} |-> IF i = new THEN call ELSE stored[i]]
           ids == (1..SeedFoods) \cup DOMAIN all
           kept == Kept(ids, FixedFoods, MaxFoods) \cap DOMAIN all
<1>b. PICK d : d = [call EXCEPT !.pc = "created", !.id = new]
  OBVIOUS
<1>1. lastFood \in Nat /\ SeedFoods \in Nat /\ new \in Nat /\ DOMAIN stored \subseteq Nat
      /\ SeedFoods <= lastFood
  BY <1>a, RecommendationAssumption DEF TypeOK
<1>2. /\ call \in CallType /\ d \in CallType
      /\ d.request = call.request /\ d.try = call.try /\ d.food = call.food
      /\ d.pc = "created" /\ d.id = new
  <2>1. call \in CallType /\ new \in Nat /\ "created" \in {"created", "failed"}
    BY <1>1 DEF TypeOK
  <2>2. d \in CallType
    BY <1>b, <2>1, Settled
  <2>3. d.request = call.request /\ d.try = call.try /\ d.food = call.food
    BY <1>b, <2>1 DEF CallType
  <2>4. d.pc = "created" /\ d.id = new
    BY <1>b, <2>1, Settled
  <2> QED
    BY <2>1, <2>2, <2>3, <2>4
<1>3. /\ stored' = Restrict(all, kept) /\ calls' = (calls \ {call}) \cup {d}
      /\ lastFood' = new /\ request' = request /\ call.pc = "sent"
  BY <1>a, <1>b DEF Record, Settle
<1>4. /\ DOMAIN stored' = kept /\ kept \subseteq DOMAIN stored \cup {new}
      /\ \A i \in kept : stored'[i] = IF i = new THEN call ELSE stored[i]
  BY <1>3 DEF Restrict
<1>5. new \notin DOMAIN stored
  BY <1>a, <1>1 DEF TypeOK
<1>6. ASSUME NEW i \in DOMAIN stored \cup {new}, MaxFoods <= 0 \/ i > new - MaxFoods
      PROVE  i \in kept
  <2>1. ids \in SUBSET (1..new)
    BY <1>a, <1>1 DEF TypeOK
  <2>2. i \in ids /\ i \in DOMAIN all
    OBVIOUS
  <2> HIDE DEF ids, all
  <2>3. i \in Kept(ids, FixedFoods, MaxFoods)
    BY <1>1, <1>6, <2>1, <2>2, RecommendationAssumption, KeptRecent
  <2> QED
    BY <2>2, <2>3
<1> HIDE DEF kept, all, ids
<1>7. TypeOK'
  <2>1. calls' \subseteq CallType
    BY <1>2, <1>3 DEF TypeOK
  <2>2. DOMAIN stored' \subseteq (SeedFoods + 1)..lastFood'
    BY <1>a, <1>1, <1>3, <1>4 DEF TypeOK
  <2>3. stored' \in [DOMAIN stored' -> CallType]
    <3>1. stored' = [i \in kept |-> stored'[i]]
      BY <1>3 DEF Restrict
    <3>2. \A i \in kept : stored'[i] \in CallType
      BY <1>2, <1>4 DEF TypeOK
    <3> QED
      BY <1>4, <3>1, <3>2
  <2> QED
    BY <1>1, <1>3, <2>1, <2>2, <2>3 DEF TypeOK
<1>8. \A c : Faithful(c)' <=> Faithful(c)
  BY <1>3 DEF Faithful
<1>9. Faithful(call) /\ Faithful(d)
  BY <1>2 DEF Tries, Faithful
<1>10. \A i \in DOMAIN stored : ~SameTry(stored[i], call) /\ ~SameTry(call, stored[i])
  BY <1>3 DEF Tries, SameTry
<1>11. Tries'
  <2>1. \A c \in calls' : Faithful(c)'
    BY <1>3, <1>8, <1>9 DEF Tries
  <2>2. (\A i \in DOMAIN stored : Faithful(stored[i]))'
    BY <1>4, <1>8, <1>9 DEF Tries
  <2>3. \A c, e \in calls' : SameTry(c, e) => c = e
    BY <1>2, <1>3 DEF Tries, SameTry
  <2>4. \A i, j \in DOMAIN stored' : SameTry(stored'[i], stored'[j]) => i = j
    BY <1>4, <1>10 DEF Tries
  <2>5. ASSUME NEW i \in DOMAIN stored', NEW c \in calls', SameTry(stored'[i], c)
        PROVE  c.pc # "sent"
    <3>1. CASE c = d
      BY <1>2, <3>1
    <3>2. CASE c # d
      <4>1. c \in calls /\ c # call
        BY <1>3, <3>2
      <4>2. i # new
        BY <1>4, <2>5, <4>1 DEF Tries, SameTry
      <4> QED
        BY <1>4, <2>5, <4>1, <4>2 DEF Tries
    <3> QED
      BY <3>1, <3>2
  <2> QED
    BY <2>1, <2>2, <2>3, <2>4, <2>5 DEF Tries
<1>12. \A t, id : id \in Int /\ Own(t, id) => Own(t, id)'
  <2> SUFFICES ASSUME NEW t, NEW id \in Int, Own(t, id) PROVE Own(t, id)'
    OBVIOUS
  <2>1. id <= lastFood' /\ (MaxFoods > 0 /\ id <= lastFood - MaxFoods => id <= lastFood' - MaxFoods)
    BY <1>a, <1>1, <1>3, RecommendationAssumption DEF Own
  <2>2. CASE MaxFoods > 0 /\ id <= lastFood' - MaxFoods
    BY <2>1, <2>2 DEF Own
  <2>3. CASE ~(MaxFoods > 0 /\ id <= lastFood' - MaxFoods)
    <3>1. MaxFoods <= 0 \/ id > new - MaxFoods
      BY <1>1, <1>3, <2>3, RecommendationAssumption
    <3>2. id \in DOMAIN stored /\ stored[id].request = t
      BY <2>1, <2>3 DEF Own
    <3>3. id \in kept /\ id # new
      BY <1>5, <1>6, <3>1, <3>2
    <3> QED
      BY <1>4, <2>1, <3>2, <3>3 DEF Own
  <2> QED
    BY <2>2, <2>3
<1>13. Own(call.request, new)'
  <2>1. CASE MaxFoods > 0 /\ new <= new - MaxFoods
    BY <1>1, <2>1, RecommendationAssumption
  <2>2. MaxFoods <= 0 \/ new > new - MaxFoods
    BY <1>1, RecommendationAssumption
  <2>3. new \in kept
    BY <1>6, <2>2
  <2> QED
    BY <1>1, <1>3, <1>4, <2>3 DEF Own
<1>14. Owned'
  <2>1. \A c \in calls : c.id \in Int
    BY DEF TypeOK, CallType
  <2>2. \A t \in Requests : request[t].id \in Int
    BY DEF TypeOK, RequestType
  <2>3. \A c \in calls' : c.pc = "created" => Own(c.request, c.id)'
    <3> SUFFICES ASSUME NEW c \in calls', c.pc = "created" PROVE Own(c.request, c.id)'
      OBVIOUS
    <3>1. CASE c \in calls
      BY <1>12, <2>1, <3>1 DEF Owned
    <3>2. CASE c = d
      BY <1>2, <1>13, <3>2
    <3> QED
      BY <1>3, <3>1, <3>2
  <2>4. (\A t \in Requests : request[t].status = 200 => Own(t, request[t].id))'
    BY <1>3, <1>12, <2>2 DEF Owned
  <2> QED
    BY <2>3, <2>4 DEF Owned
<1> QED
  BY <1>a, <1>1, <1>3, <1>7, <1>11, <1>14

-----------------------------------------------------------------------------
(* The theorems *)

\* Every step preserves the invariant.
LEMMA StepRec == RecInv /\ [Next]_vars => RecInv'
<1> SUFFICES ASSUME RecInv, [Next]_vars PROVE RecInv'
  OBVIOUS
<1>1. CASE UNCHANGED vars
  BY <1>1 DEF vars, RecInv, TypeOK, Tries, Faithful, Owned, Own
<1>2. CASE \E r \in Requests : Step(r)
  <2>1. PICK r \in Requests : Step(r)
    BY <1>2
  <2>2. CASE Receive(r) \/ Fetch(r) \/ Panic(r)
    BY <2>2, EarlyRec
  <2>3. CASE Generate(r)
    BY <2>3, GenerateRec
  <2>4. CASE Send(r)
    BY <2>4, SendRec
  <2>5. CASE TimeOut(r)
    BY <2>5, GiveUpRec DEF TimeOut
  <2>6. CASE Cancel(r)
    BY <2>6, AnswerRec DEF Cancel, Statuses
  <2>7. CASE ReadAnswer(r)
    BY <2>7, ReadAnswerRec
  <2> QED
    BY <2>1, <2>2, <2>3, <2>4, <2>5, <2>6, <2>7 DEF Step
<1>3. CASE \E call \in calls : Record(call) \/ FailToRecord(call) \/ Lose(call)
  BY <1>3, RecordRec, FailRec
<1> QED
  BY <1>1, <1>2, <1>3 DEF Next

\* RecInv is an invariant of the service.
LEMMA RecInvariant == Spec => []RecInv
BY InitRec, StepRec, PTL DEF Spec

\* Every variable keeps its type: no request makes more than RetryMax + 1
\* tries to record its food, nor more than ten rounds of generation.
THEOREM TypeCorrect == Spec => []TypeOK
<1>1. RecInv => TypeOK
  BY DEF RecInv
<1> QED
  BY <1>1, RecInvariant, PTL

\* No row, whichever try left it there, breaks what its client asked for.
THEOREM StoredAreAllowed == Spec => []StoredFoodsAllowed
<1>1. RecInv => StoredFoodsAllowed
  <2> SUFFICES ASSUME RecInv, NEW i \in DOMAIN stored
               PROVE  LET food == stored[i].food
                      IN /\ food.ingredients \cap Wanted(i).excluded = {}
                         /\ food.tool \notin Wanted(i).excludedTools
                         /\ Wanted(i).vegetarian => IsVegetarian(food)
                         /\ Wanted(i).maxToppings >= 0 =>
                              Cardinality(food.ingredients) <= 3 + Wanted(i).maxToppings
                         /\ CalculateCalories(food) > Wanted(i).maxCalories
                              => request[stored[i].request].attempt = GenerationAttempts
    BY DEF StoredFoodsAllowed
  <2> DEFINE r == stored[i].request
             food == stored[i].food
  <2>1. r \in Requests /\ stored[i].try \in 1..(RetryMax + 1)
    BY DEF RecInv, TypeOK, CallType
  <2>2. stored[i].try <= request[r].tries /\ food = request[r].food
    BY DEF RecInv, Tries, Faithful
  <2>3. request[r].tries \in Int /\ request[r].restrictions \in Restrictions
    BY <2>1, RequestFields DEF RecInv
  <2>4. request[r].tries > 0
    BY <2>1, <2>2, <2>3
  <2>5. /\ food \in Generated(request[r].restrictions)
        /\ CalculateCalories(food) > request[r].restrictions.maxCalories
             => request[r].attempt = GenerationAttempts
    BY <2>1, <2>2, <2>4 DEF RecInv, Progress
  <2>6. Wanted(i) = request[r].restrictions
    BY DEF Wanted
  <2> HIDE DEF r, food
  <2>7. /\ food.ingredients \cap Wanted(i).excluded = {}
        /\ food.tool \notin Wanted(i).excludedTools
        /\ Wanted(i).vegetarian => IsVegetarian(food)
        /\ Wanted(i).maxToppings >= 0 => Cardinality(food.ingredients) <= 3 + Wanted(i).maxToppings
    BY <2>3, <2>5, <2>6, GeneratedAllowed
  <2> QED
    BY <2>5, <2>6, <2>7 DEF r, food
<1> QED
  BY <1>1, RecInvariant, PTL

\* A client's retries leave at most one row per try.
THEOREM RetriesCounted == Spec => []OneRowPerTry
<1>1. RecInv => OneRowPerTry
  <2> SUFFICES ASSUME RecInv, NEW r \in Requests
               PROVE  Cardinality({i \in DOMAIN stored : stored[i].request = r}) <= request[r].tries
    BY DEF OneRowPerTry
  <2> DEFINE rows == {i \in DOMAIN stored : stored[i].request = r}
             tries == request[r].tries
             number == [i \in rows |-> stored[i].try]
  <2>1. tries \in Nat
    BY RequestFields DEF RecInv
  <2>2. \A i \in rows : number[i] \in 1..tries
    <3> SUFFICES ASSUME NEW i \in rows PROVE stored[i].try \in 1..tries
      OBVIOUS
    <3>1. stored[i].try \in 1..(RetryMax + 1) /\ stored[i].try <= tries
      BY DEF RecInv, TypeOK, CallType, Tries, Faithful
    <3> QED
      BY <2>1, <3>1
  <2>3. \A i, j \in rows : number[i] = number[j] => i = j
    BY DEF RecInv, Tries, SameTry
  <2> HIDE DEF tries
  <2>4. number \in Injection(rows, 1..tries)
    BY <2>2, <2>3 DEF Injection, IsInjective
  <2>5. IsFiniteSet(1..tries) /\ Cardinality(1..tries) = tries
    BY <2>1, FS_Interval
  <2> HIDE DEF rows, number
  <2>6. Cardinality(rows) <= tries
    BY <2>4, <2>5, FS_Injection
  <2> QED
    BY <2>6 DEF rows, tries
<1> QED
  BY <1>1, RecInvariant, PTL

\* The id answered with a 200 is that of the client's own food, unless newer
\* rows have pushed it out since.
THEOREM AnswersAreOwn == Spec => []AnsweredFoodIsOwn
<1>1. RecInv => AnsweredFoodIsOwn
  <2> SUFFICES ASSUME RecInv, NEW r \in Requests, request[r].status = 200,
                      ~(MaxFoods > 0 /\ request[r].id <= lastFood - MaxFoods)
               PROVE  /\ request[r].id \in DOMAIN stored
                      /\ stored[request[r].id].request = r
                      /\ stored[request[r].id].food = request[r].food
    BY DEF AnsweredFoodIsOwn
  <2>1. request[r].id \in DOMAIN stored /\ stored[request[r].id].request = r
    BY DEF RecInv, Owned, Own
  <2> QED
    BY <2>1 DEF RecInv, Tries, Faithful
<1> QED
  BY <1>1, RecInvariant, PTL

=============================================================================
