SPECIFICATION Spec
CONSTANTS
  Handlers = {h1, h2}
  default = default
  ada = ada
  bob = bob
  cleo = cleo
  Names = {ada, bob, cleo}
  GlobalUsername = default
  NoName = NoName
  Ingredients = {rice}
  StarInputs = {0, 4}
  FoodIdInputs <- BodyIds
  FixedUsers = 1
  FixedFoods = 1
  FixedRatings = 1
  MaxUsers = 2
  MaxFoods = 1
  MaxRatings = 1
  SeedUsers = 2
  SeedNames <- TwoSeededUsers
  SeedFoods = 1
  SeedRatings = 1
  FKModes = {TRUE}
  UserBound = 4
  FoodBound = 3
  RatingBound = 3
SYMMETRY HandlerSymmetry
INVARIANTS TypeOK ReferentialIntegrity UniqueUsernames TableSizes NewestKept DefaultUserKept
PROPERTIES OnlyOwnersWrite RatingStored OnlyOldFoodsLeave
