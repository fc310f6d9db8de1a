--------------------------- MODULE FoodGenerator ---------------------------
(***************************************************************************)
(* The random choices of POST /api/food (pkg/http/http.go): what the       *)
(* generation loop may draw from the catalog's lists under the client's    *)
(* restrictions.  Randomness is nondeterminism: a draw is any element, a   *)
(* food any set of ingredients that a sequence of draws can leave after    *)
(* the duplicates are removed.                                             *)
(*                                                                         *)
(* An ingredient is its name, which is unique in the seeded catalog.  The  *)
(* rice and the name of a food play no part in the restrictions.           *)
(***************************************************************************)
EXTENDS Integers, FiniteSets, Functions

CONSTANTS
  Sauces, Proteins, Vegetables, SideDishes,  \* the catalog's ingredients, by type
  Vegetarian,   \* those that are vegetarian
  Calories,     \* calories per serving of each
  Tools

Ingredients == Sauces \cup Proteins \cup Vegetables \cup SideDishes

ASSUME CatalogLists ==
  /\ IsFiniteSet(Ingredients) /\ IsFiniteSet(Tools)
  /\ Calories \in [Ingredients -> Nat]

Restrictions ==
  [maxCalories : Int, vegetarian : BOOLEAN, excluded : SUBSET Ingredients,
   excludedTools : SUBSET Tools, maxToppings : Int, minToppings : Int]

Foods == [ingredients : SUBSET Ingredients, tool : Tools]

\* A field that is missing in the request, or 0, has its default value.
OrDefault(value, default) == IF value = 0 THEN default ELSE value

WithDefaults(r) ==
  [r EXCEPT !.maxCalories = OrDefault(@, 1000),
            !.maxToppings = OrDefault(@, 5),
            !.minToppings = OrDefault(@, 3)]

\* Mutant of Valid: the vegetarian flag is not looked at.
ValidNames(list, r) == {i \in list : i \notin r.excluded}

\* validSauces, validProteins, validVegetables and validSideDishes
Valid(list, r) == {i \in list : i \notin r.excluded /\ (r.vegetarian => i \in Vegetarian)}

ValidTools(r) == Tools \ r.excludedTools

\* Mutant of SideDishCounts: the maximum comes on top of the minimum.
SideDishCountsSum(r) == r.minToppings .. (r.minToppings + r.maxToppings)

\* How often a side dish is drawn: extraToppings + MinNumberOfToppings.  When
\* the minimum is not below the maximum, the maximum wins.
SideDishCounts(r) ==
  LET extra == r.maxToppings - r.minToppings
  IN IF extra > 0 THEN r.minToppings .. (r.minToppings + extra) ELSE {r.maxToppings}

\* What n draws with replacement leave in the map of unique ingredients.
Draws(n, list) ==
  IF n <= 0 THEN {{}} ELSE {S \in SUBSET list : S # {} /\ Cardinality(S) <= n}

Generated(r) ==
  {[ingredients |-> {sauce, protein, vegetable} \cup sides, tool |-> tool] :
     sauce \in Valid(Sauces, r), protein \in Valid(Proteins, r),
     vegetable \in Valid(Vegetables, r), tool \in ValidTools(r),
     sides \in UNION {Draws(n, Valid(SideDishes, r)) : n \in SideDishCounts(r)}}

\* rand.Intn(0) panics: a draw from an empty list.
DrawsFromNothing(r) ==
  \/ {} \in {Valid(Sauces, r), Valid(Proteins, r), Valid(Vegetables, r), ValidTools(r)}
  \/ Valid(SideDishes, r) = {} /\ \E n \in SideDishCounts(r) : n > 0

CalculateCalories(food) == SumFunctionOnSet(Calories, food.ingredients)

IsVegetarian(food) == food.ingredients \subseteq Vegetarian

=============================================================================
