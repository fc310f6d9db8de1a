----------------------------- MODULE Deployment -----------------------------
(***************************************************************************)
(* QuickFood as one process or as several: which services a process adds   *)
(* (cmd/main.go), where its gateway sends the rest, the middlewares and     *)
(* handlers of pkg/http/http.go, and the calls that the recommendations     *)
(* service makes over the internal client (pkg/http/client.go).            *)
(*                                                                         *)
(* One client request is followed through the processes: each waits for    *)
(* the next, so the requests in progress form a stack.  What concurrent    *)
(* requests do to the tables is Catalog's concern, and what calls that are *)
(* abandoned do later is Recommendation's.                                 *)
(*                                                                         *)
(* "token" says whether a request carries what its route checks: a user's  *)
(* token, right credentials (login, admin login), the admin's cookie, or a *)
(* food that the catalog can store (record).                               *)
(***************************************************************************)
EXTENDS Naturals, Sequences, SequencesExt, Routes, ErrorInjection

CONSTANTS
  Deployments,   \* sets of environment variables to explore
  Inputs,        \* the requests that clients make
  FailRandomly,  \* whether QUICKFOOD_FAIL_RATE_RECOMMENDATIONS_API_FOOD_POST is set
  RetryMax,      \* QUICKFOOD_RETRIES
  MaxRequests,   \* bound on the requests explored
  MaxFaults,     \* bound on the failures during one request
  MaxDepth       \* bound on the requests in progress

-----------------------------------------------------------------------------
(* The environment of a process *)

\* QUICKFOOD_ENABLE_ALL_SERVICES, or the variable of the service.
EnvServe(d, process, service) == d.all \/ service \in d.enables[process]

\* Mutant of EnvEndpoint: the condition is inverted.
OthersLocal(d, process, service) ==
  IF EnvServe(d, process, service) THEN d.endpoint[service] ELSE process
\* The services of a process call each other on localhost.
EnvEndpoint(d, process, service) ==
  IF EnvServe(d, process, service) THEN process ELSE d.endpoint[service]

Serves(d, process, route) ==
  route \in Probes \/ \E s \in Services : EnvServe(d, process, s) /\ route \in Groups[s]

HasGateway(d, process) == EnvServe(d, process, "frontend") /\ ~d.all

\* The gateway passes on what begins with /api/, and /ws.
ProxiedRoutes == ApiRoutes \cup {"ws"}

\* The gateway's table.
Target(route) ==
  IF route = "quotes" THEN "copy"
  ELSE IF route = "food" THEN "recommendations"
  ELSE IF route \in {"config", "ws"} THEN route
  ELSE "catalog"

\* The services that have an endpoint in the environment.
ApiServices == {"catalog", "copy", "recommendations", "ws", "config"}

\* What a deployment promises to whoever asks: every endpoint names a process
\* that adds the service, the gateway sends nothing to a gateway, and the routes
\* on offer are those that the entry serves or its gateway has served.
Configured(d) ==
  /\ d.all \in BOOLEAN /\ d.entry \in DOMAIN d.enables
  /\ d.enables \in [DOMAIN d.enables -> SUBSET Services]
  /\ d.endpoint \in [ApiServices -> DOMAIN d.enables]
  /\ \A s \in ApiServices : EnvServe(d, d.endpoint[s], s)
  /\ \A route \in ProxiedRoutes :
       HasGateway(d, d.entry) /\ ~Serves(d, d.entry, route) =>
         /\ ~EnvServe(d, d.entry, Target(route))
         /\ ~HasGateway(d, d.endpoint[Target(route)])
  /\ d.offers =
       {route \in AllRoutes :
          \/ Serves(d, d.entry, route)
          \/ /\ HasGateway(d, d.entry) /\ route \in ProxiedRoutes
             /\ Serves(d, d.endpoint[Target(route)], route)}

ASSUME DeploymentAssumption ==
  /\ \A d \in Deployments : Configured(d)
  /\ Inputs \subseteq [route : AllRoutes, headers : Headers, token : BOOLEAN, internal : BOOLEAN]
  /\ FailRandomly \in BOOLEAN
  /\ {RetryMax, MaxRequests, MaxFaults, MaxDepth} \subseteq Nat

-----------------------------------------------------------------------------
VARIABLES
  deployment,  \* the environment of each process
  request,     \* the latest client request
  stack,       \* the requests in progress, the client's first
  answer,      \* the status of the latest answer to a client
  foods,       \* how many foods the catalog has recorded
  asked,       \* how many requests clients have made
  \* History, read by no step but for the bound:
  stored,      \* how many foods were recorded since the latest client request
  faults       \* how many failures happened since

vars == <<deployment, request, stack, answer, foods, asked, stored, faults>>

Top == stack[Len(stack)]
Caller == stack[Len(stack) - 1]

\* A request as it arrives at a process: "internal" if it has the header
\* X-Is-Internal.  The recommendations service counts its calls, and the tries
\* of the current one.
Arriving(process, route, headers, token, internal) ==
  [at |-> process, route |-> route, headers |-> headers, token |-> token, internal |-> internal,
   pc |-> "arrived", call |-> 1, tries |-> 0, status |-> 0, slow |-> FALSE]

Init ==
  /\ deployment \in Deployments
  /\ request = [route |-> "page", headers |-> NoHeaders, token |-> FALSE, internal |-> FALSE]
  /\ stack = <<>>
  /\ answer = 0 /\ foods = 0 /\ asked = 0 /\ stored = 0 /\ faults = 0

-----------------------------------------------------------------------------
(* Steps of the request on top of the stack *)

\* It is answered.
AnswerWith(status) ==
  /\ stack' = Append(Front(stack), [Top EXCEPT !.pc = "answered", !.status = status])
  /\ UNCHANGED <<deployment, request, answer, asked>>

Succeeds(status) == AnswerWith(status) /\ UNCHANGED <<foods, stored, faults>>

\* It is answered after a failure of the database.
Breaks(status) ==
  /\ faults < MaxFaults /\ faults' = faults + 1
  /\ AnswerWith(status)
  /\ UNCHANGED <<foods, stored>>

\* Its process sends a request on and waits.
Send(callee, label) ==
  /\ Len(stack) < MaxDepth
  /\ stack' = Append(Front(stack), [Top EXCEPT !.pc = label]) \o <<callee>>
  /\ UNCHANGED <<deployment, request, answer, foods, asked, stored, faults>>

Handles(group) == stack # <<>> /\ Top.pc = "arrived" /\ Top.route \in group /\ Serves(deployment, Top.at, Top.route)

NotServed == stack # <<>> /\ Top.pc = "arrived" /\ ~Serves(deployment, Top.at, Top.route)

\* The reverse proxy of the gateway, which passes everything on and calls all
\* but the requests for web sockets internal.
Proxy ==
  /\ NotServed /\ HasGateway(deployment, Top.at) /\ Top.route \in ProxiedRoutes
  /\ Send(Arriving(EnvEndpoint(deployment, Top.at, Target(Top.route)), Top.route, Top.headers, Top.token,
                   Top.internal \/ Top.route \in ApiRoutes),
          "proxying")

\* No route, or no file of the frontend.
NotFound ==
  /\ NotServed /\ ~(HasGateway(deployment, Top.at) /\ Top.route \in ProxiedRoutes)
  /\ Succeeds(404)

\* AuthMiddleware, in front of the routes of the catalog group.  A failure of
\* the database counts as a wrong token.
RefuseCatalog ==
  /\ Handles(CatalogGroup)
  /\ \/ ~Top.token /\ Succeeds(401)
     \/ Top.token /\ Breaks(401)

\* It is answered, perhaps too late for the client that waits.
AnswersAfter(status, slow) ==
  /\ stack' = Append(Front(stack), [Top EXCEPT !.pc = "answered", !.status = status, !.slow = slow])
  /\ UNCHANGED <<deployment, request, answer, foods, asked, stored, faults>>

\* InjectErrorHeadersMiddleware puts the headers into the context, where
\* GetIngredients looks for them.
ServeIngredients ==
  /\ Handles(IngredientRoutes) /\ Top.token
  /\ \E outcome \in InjectErrors(Top.headers, "get-ingredients") :
       AnswersAfter(IF outcome = "error" THEN 500 ELSE IF Top.route = "ingredients" THEN 200 ELSE 400,
                    outcome = "slow")

ServeLists ==
  /\ Handles({"rices", "tools"}) /\ Top.token
  /\ Succeeds(200)

\* A failure of the database in one of the handlers of the catalog group.
BreakCatalog ==
  /\ Handles(CatalogGroup) /\ Top.token
  /\ Breaks(IF Top.route = "ratings" THEN 400 ELSE 500)

ServeRatings ==
  /\ Handles({"ratings"}) /\ Top.token
  /\ Succeeds(200)

ServeCsrfToken == Handles({"csrf-token"}) /\ Succeeds(200)

\* Login, and authentication with the token that the middleware of the
\* recommendations service has forwarded.
ServeUsers ==
  /\ Handles({"login", "authenticate"})
  /\ \/ Succeeds(IF Top.token THEN 200 ELSE 401)
     \/ (Top.route = "authenticate" => Top.token) /\ Breaks(500)

\* The recording of a food is for internal requests.  The body may be none, or
\* one that the database refuses (a taken id, a rice that does not exist).
RefuseRecord ==
  /\ Handles({"record"})
  /\ \/ ~Top.internal /\ Succeeds(401)
     \/ Top.internal /\ ~Top.token /\ \E status \in {400, 500} : Succeeds(status)

\* The catalog records a recommendation.  The admin group does not install
\* InjectErrorHeadersMiddleware: RecordRecommendation finds no headers.
ServeRecord ==
  /\ Handles({"record"}) /\ Top.internal /\ Top.token
  /\ \/ /\ AnswerWith(201)
        /\ foods' = foods + 1 /\ stored' = stored + 1
        /\ UNCHANGED faults
     \/ Breaks(500)

ServeRecommendation ==
  /\ Handles({"recommendation"})
  /\ \/ Succeeds(IF foods > 0 THEN 200 ELSE 404)
     \/ Breaks(500)

ServeHistory ==
  /\ Handles({"history"})
  /\ \/ Succeeds(IF Top.token THEN 200 ELSE 401)
     \/ Top.token /\ Breaks(500)

ServeAdminLogin == Handles({"admin-login"}) /\ Succeeds(IF Top.token THEN 200 ELSE 401)

\* Prose.  After a failure the handler writes a second status, which is
\* ignored, and a body.
ServeCopy ==
  /\ Handles(CopyGroup)
  /\ \/ Succeeds(200)
     \/ Breaks(500)

ServeTesting ==
  /\ Handles(TestingGroup)
  /\ Succeeds(IF Top.route = "bad-status" THEN 400 ELSE 200)

ServeK6 == Handles(K6Group) /\ Succeeds(200)
ServeConfig == Handles({"config"}) /\ Succeeds(200)
ServeFrontend == Handles({"page"}) /\ Succeeds(200)
ServeProbe == Handles(Probes) /\ Succeeds(200)
ServeWs == Handles({"ws"}) /\ Succeeds(101)

-----------------------------------------------------------------------------
(* The recommendations service and its client *)

\* The calls of a handler, in order.  The first is the middleware's.
Calls(route) ==
  IF route = "food-by-id" THEN <<"authenticate", "recommendation">>
  ELSE <<"authenticate", "ingredients", "ingredients", "ingredients", "ingredients",
         "tools", "rices", "adjectives", "names", "record">>

ServiceOf(route) == IF route \in CopyGroup THEN "copy" ELSE "catalog"

\* The context of a call has the token from the middleware on, and the error
\* headers in the handler of POST /api/food; that of GET /api/food/{id} uses
\* the client without the context of the request.  What is recorded is a food
\* of the generator's.
CallToken == Top.token /\ (Top.route = "food" \/ Top.call = 1)
CallHeaders ==
  IF Top.route = "food" /\ Top.call > 1 THEN AddErrorHeaders(Top.headers) ELSE NoHeaders

Call ==
  /\ Handles(RecommendationsGroup)
  /\ Top.call <= Len(Calls(Top.route))
  /\ LET route == Calls(Top.route)[Top.call]
     IN Send(Arriving(EnvEndpoint(deployment, Top.at, ServiceOf(route)), route, CallHeaders, CallToken, TRUE),
             "calling")

\* FailRandomlyIfEnvSet, once the user is authenticated.
SimulateFailure ==
  /\ Handles({"food"}) /\ FailRandomly /\ Top.call = 2 /\ Top.tries = 0
  /\ Succeeds(503)

ServeFood ==
  /\ Handles(RecommendationsGroup)
  /\ Top.call > Len(Calls(Top.route))
  /\ Succeeds(200)

\* The request below the top of the stack goes on.
Resume(frame) ==
  /\ stack' = Append(SubSeq(stack, 1, Len(stack) - 2), frame)
  /\ UNCHANGED <<deployment, request, answer, foods, asked, stored, faults>>

Returns(label) == Len(stack) > 1 /\ Top.pc = "answered" /\ Caller.pc = label

\* The proxy passes the answer on, or reports that there is none.
ProxyAnswer ==
  /\ Returns("proxying")
  /\ Resume([Caller EXCEPT !.pc = "answered", !.status = IF Top.status = 0 THEN 502 ELSE Top.status])

Received == Top.status \in {200, 201} /\ ~Top.slow
NotFoundById == Top.status = 404 /\ Caller.route = "food-by-id" /\ Caller.call = 2
\* retryablehttp tries again after a server error, a timeout, or no answer.
Retriable == Top.slow \/ Top.status = 0 \/ Top.status >= 500

\* Mutant of MayRetry: one try too many.
MayRetryAtMax == Retriable /\ Caller.tries <= RetryMax
MayRetry == Retriable /\ Caller.tries < RetryMax

\* Mutant of Tried: the tries are not counted.
TriedNever == Caller.tries
Tried == Caller.tries + 1

NextCall ==
  /\ Returns("calling") /\ Received
  /\ Resume([Caller EXCEPT !.pc = "arrived", !.call = @ + 1, !.tries = 0])

Retry ==
  /\ Returns("calling") /\ MayRetry
  /\ Resume([Caller EXCEPT !.pc = "arrived", !.tries = Tried])

\* The middleware answers every failed authentication alike.
CallFailed ==
  /\ Returns("calling") /\ ~Received /\ ~MayRetry
  /\ Resume([Caller EXCEPT !.pc = "answered",
                           !.status = IF NotFoundById THEN 404
                                      ELSE IF Caller.call = 1 THEN 401 ELSE 500])

-----------------------------------------------------------------------------

\* A client sends a request to the process that is reachable from outside.
Ask ==
  /\ stack = <<>> /\ asked < MaxRequests /\ asked' = asked + 1
  /\ request' \in Inputs
  /\ stack' = <<Arriving(deployment.entry, request'.route, request'.headers, request'.token,
                         request'.internal)>>
  /\ stored' = 0 /\ faults' = 0
  /\ UNCHANGED <<deployment, answer, foods>>

Reply ==
  /\ Len(stack) = 1 /\ Top.pc = "answered"
  /\ answer' = Top.status
  /\ stack' = <<>>
  /\ UNCHANGED <<deployment, request, foods, asked, stored, faults>>

\* A connection between two processes breaks before the call is served, or
\* before its answer is read.
Disconnect ==
  /\ Len(stack) > 1
  /\ \/ Top.pc = "arrived" /\ Top.call = 1 /\ Top.tries = 0
     \/ Top.pc = "answered" /\ Top.status # 0
  /\ faults < MaxFaults /\ faults' = faults + 1
  /\ stack' = Append(Front(stack), [Top EXCEPT !.pc = "answered", !.status = 0])
  /\ UNCHANGED <<deployment, request, answer, foods, asked, stored>>

Serve ==
  \/ RefuseCatalog \/ ServeIngredients \/ ServeLists \/ ServeRatings \/ BreakCatalog
  \/ ServeCsrfToken \/ ServeUsers
  \/ RefuseRecord \/ ServeRecord \/ ServeRecommendation \/ ServeHistory \/ ServeAdminLogin
  \/ ServeCopy \/ ServeTesting \/ ServeK6 \/ ServeConfig \/ ServeFrontend \/ ServeProbe \/ ServeWs
  \/ SimulateFailure \/ ServeFood

Step ==
  Proxy \/ NotFound \/ Serve \/ Call \/ ProxyAnswer \/ NextCall \/ Retry \/ CallFailed \/ Reply

Next == Ask \/ Step \/ Disconnect

Spec == Init /\ [][Next]_vars

\* Every process goes on with what it has: handlers and proxies only wait for
\* the answers of others.
FairSpec == Spec /\ WF_vars(Step)

-----------------------------------------------------------------------------
(* Properties *)

Statuses == {0, 101, 200, 201, 400, 401, 404, 500, 502, 503}
Labels == {"arrived", "proxying", "calling", "answered"}
Positions == 1..11

Processes == DOMAIN deployment.enables

Frame ==
  [at : Processes, route : AllRoutes, headers : Headers, token : BOOLEAN, internal : BOOLEAN,
   pc : Labels, call : Positions, tries : 0..RetryMax, status : Statuses, slow : BOOLEAN]

\* Every variable has its type; in particular no call is tried more often than
\* configured.
TypeOK ==
  /\ deployment \in Deployments
  /\ request \in [route : AllRoutes, headers : Headers, token : BOOLEAN, internal : BOOLEAN]
  /\ stack \in Seq(Frame)
  /\ answer \in Statuses
  /\ foods \in Nat /\ asked \in 0..MaxRequests /\ stored \in 0..foods /\ faults \in 0..MaxFaults

\* A request passes one gateway at most, and three processes: services find
\* each other without detours, and no call comes back to a gateway.
DirectCalls ==
  /\ Len(stack) <= 3
  /\ \A i, j \in DOMAIN stack : stack[i].pc = "proxying" /\ stack[j].pc = "proxying" => i = j

\* Whether the requests for the catalog come through a gateway.
Vouches(d) == HasGateway(d, d.entry) /\ ~Serves(d, d.entry, "record")

\* Every deployment gives the answers of a single process, for the routes that
\* it offers, except that a gateway opens the recording of foods to everybody:
\* the handlers, the gateway, the internal client and its retries implement the
\* interface that clients rely on.
A == INSTANCE Api WITH offered <- deployment.offers, vouches <- Vouches(deployment),
                       pending <- stack # <<>>

OneProcess == A!ASpec

\* docs/inject-errors.md:36 says that x-error-record-recommendation "triggers an
\* error when recording a recommendation": without a percentage, no food with
\* that header is served.
RecordErrorsTriggered ==
  LET headers == request.headers
  IN stack = <<>> /\ request.route = "food" /\ headers.action = "record-recommendation"
       /\ headers.error /\ headers.errorShare = "absent" => answer # 200

\* Every request is answered: retries end, and nobody calls in circles.
EveryRequestAnswered == []<>(stack = <<>>)

=============================================================================
