------------------------------- MODULE Routes -------------------------------
(***************************************************************************)
(* The routes of pkg/http/http.go, by the group that registers them.       *)
(* One route stands for all those of its group that answer alike: "get"    *)
(* for the test endpoints that echo a request, "bad-status" for those that *)
(* refuse a parameter, "page" for the files of the frontend.               *)
(***************************************************************************)

\* AddCatalogHandler has three groups; the first checks the user's token.
IngredientRoutes == {"ingredients", "unknown-ingredients"}
CatalogGroup == IngredientRoutes \cup {"rices", "tools", "ratings"}
UsersGroup == {"csrf-token", "login", "authenticate"}
AdminGroup == {"record", "recommendation", "history", "admin-login"}

CopyGroup == {"quotes", "names", "adjectives"}
RecommendationsGroup == {"food", "food-by-id"}
TestingGroup == {"get", "bad-status"}
K6Group == {"flip_coin.php"}

Groups ==
  [catalog |-> CatalogGroup \cup UsersGroup \cup AdminGroup, copy |-> CopyGroup,
   recommendations |-> RecommendationsGroup, ws |-> {"ws"}, config |-> {"config"},
   testing |-> TestingGroup, k6 |-> K6Group, frontend |-> {"page"}]

Services == DOMAIN Groups

\* Every process serves its probes.
Probes == {"ready"}
AllRoutes == Probes \cup UNION {Groups[s] : s \in Services}

\* The routes under /api/.
ApiRoutes == AllRoutes \ (Probes \cup K6Group \cup {"ws", "page"})

=============================================================================
