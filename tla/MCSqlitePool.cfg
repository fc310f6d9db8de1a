SPECIFICATION PoolSpec
CONSTANTS
  Handlers = {h1, h2}
  default = default
  ada = ada
  bob = bob
  cleo = cleo
  GlobalUsername = default
  NoName = NoName
  Ingredients = {rice}
  StarInputs = {4}
  FoodIdInputs = {0}
  FixedUsers = 1
  FixedFoods = 1
  FixedRatings = 1
  MaxUsers = 1
  MaxFoods = 1
  MaxRatings = 1
  SeedUsers = 2
  SeedNames <- SeededUsers
  SeedFoods = 1
  SeedRatings = 1
  FKModes = {TRUE, FALSE}
  Names = {ada, bob}
  Connections = {1, 2, 3}
  MaxIdle = 1
  UserBound = 3
  FoodBound = 2
  RatingBound = 2
SYMMETRY HandlerSymmetry
INVARIANTS PoolTypeOK DatabaseSurvives AloneIsSafe
