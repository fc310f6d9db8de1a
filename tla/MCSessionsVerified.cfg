SPECIFICATION Spec
CONSTANTS
  Tabs = {t1, t2}
  default = default
  ada = ada
  bob = bob
  known = known
  other = other
  Names = {ada, bob}
  Passwords = {known, other}
  Known = {known}
  GlobalUsername = default
  SeedAccounts <- Seeds
  FixedUsers = 1
  MaxUsers = 1
  Nonces = {n1, n2, n3}
  None = None
  UserBound = 3
  MaxFailures = 1
SYMMETRY Symmetric
PROPERTY VerifiedIsValid
