SPECIFICATION Spec
CONSTANTS
  Handlers = {h1, h2}
  default = default
  ada = ada
  bob = bob
  cleo = cleo
  Names = {ada, bob, cleo}
  GlobalUsername = default
  NoName = NoName
  Ingredients = {rice}
  StarInputs = {0, 4}
  FoodIdInputs = {0}
  FixedUsers = 1
  FixedFoods = 1
  FixedRatings = 3
  MaxUsers = 1
  MaxFoods = 1
  MaxRatings = 2
  SeedUsers = 2
  SeedNames <- TwoSeededUsers
  SeedFoods = 1
  SeedRatings = 1
  FKModes = {TRUE}
  UserBound = 4
  FoodBound = 3
  RatingBound = 4
SYMMETRY HandlerSymmetry
PROPERTY FixedRatingsKept
