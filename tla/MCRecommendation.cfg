SPECIFICATION FairSpec
CONSTANTS
  soy = soy
  chicken = chicken
  egg = egg
  leaf = leaf
  bun = bun
  roll = roll
  fork = fork
  spoon = spoon
  Sauces = {soy}
  Proteins = {chicken, egg}
  Vegetables = {leaf}
  SideDishes = {bun, roll}
  Vegetarian = {soy, egg, leaf, roll}
  Calories <- SampleCalories
  Tools = {fork, spoon}
  Requests = {r1, r2}
  Inputs <- SampleInputs
  RetryMax = 1
  FixedFoods = 0
  MaxFoods = 2
  SeedFoods = 1
CHECK_DEADLOCK FALSE
INVARIANTS TypeOK OneRowPerTry AnsweredFoodIsOwn StoredFoodsAllowed
PROPERTY EveryRequestAnswered
