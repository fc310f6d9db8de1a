---------------------------- MODULE MCDeployment ----------------------------
(* Instances of Deployment for TLC. *)
EXTENDS Deployment, TLC

\* What the microservices of the compose files leave out: the services for
\* tests, and the routes of other services that the gateway does not know.
NotProxied == {"food-by-id", "names", "adjectives"}

\* compose.*.monolithic.yaml, and no environment at all.
Monolith ==
  [entry |-> "quickfood", all |-> TRUE, enables |-> "quickfood" :> {},
   endpoint |-> [s \in ApiServices |-> "quickfood"], offers |-> AllRoutes]

\* compose.*.microservices.yaml: a process for each service.
Microservices ==
  [entry |-> "frontend", all |-> FALSE,
   enables |-> [p \in ApiServices \cup {"frontend"} |-> {p}],
   endpoint |-> [s \in ApiServices |-> s],
   offers |-> AllRoutes \ (NotProxied \cup TestingGroup \cup K6Group)]

\* The catalog alone, and the other services in a process with the gateway.
Split ==
  [entry |-> "front", all |-> FALSE,
   enables |-> "front" :> Services \ {"catalog"} @@ "catalog" :> {"catalog"},
   endpoint |-> [s \in ApiServices |-> IF s = "catalog" THEN "catalog" ELSE "front"],
   offers |-> AllRoutes]

AllDeployments == {Monolith, Microservices, Split}

Error(action, share) == [NoHeaders EXCEPT !.action = action, !.error = TRUE, !.errorShare = share]
Delay(duration, share) == [NoHeaders EXCEPT !.delay = duration, !.delayShare = share]

SampleHeaders ==
  {NoHeaders, Error("get-ingredients", "absent"), Error("get-ingredients", "50"),
   Error("get-ingredients", "0"), Error("get-ingredients", "unparsable"),
   Error("record-recommendation", "absent"),
   Delay("long", "absent"), Delay("long", "50"), Delay("unparsable", "absent"),
   [Error("get-ingredients", "50") EXCEPT !.delay = "long", !.delayShare = "0"]}

SampleInputs ==
  [route : {"food", "ingredients"}, headers : SampleHeaders, token : {TRUE}, internal : {FALSE}]
  \cup [route : AllRoutes, headers : {NoHeaders}, token : BOOLEAN, internal : {FALSE}]
  \cup [route : {"record"}, headers : {NoHeaders}, token : BOOLEAN, internal : {TRUE}]

=============================================================================
