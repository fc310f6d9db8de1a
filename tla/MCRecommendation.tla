-------------------------- MODULE MCRecommendation --------------------------
(* Instances of Recommendation for TLC. *)
EXTENDS Recommendation, TLC

CONSTANTS soy, chicken, egg, leaf, bun, roll, fork, spoon

SampleCalories ==
  soy :> 50 @@ chicken :> 600 @@ egg :> 300 @@ leaf :> 100 @@ bun :> 300 @@ roll :> 200

Input(maxCalories, vegetarian, excluded, excludedTools, maxToppings, minToppings) ==
  [maxCalories |-> maxCalories, vegetarian |-> vegetarian, excluded |-> excluded,
   excludedTools |-> excludedTools, maxToppings |-> maxToppings, minToppings |-> minToppings]

\* Restrictions that leave a choice of tools; that no food keeps, with a
\* negative number of side dishes; and that leave no protein.
SampleInputs ==
  {Input(700, TRUE, {}, {}, 1, 1), Input(100, TRUE, {}, {fork}, -1, 2),
   Input(0, TRUE, {egg}, {}, 1, 1)}

=============================================================================
