SPECIFICATION Spec
CONSTANTS
  alice = alice
  retailer = retailer
  school = school
  birth = birth
  date_of_birth = date_of_birth
  age = age
  age_over_threshold = age_over_threshold
  age_band = age_band
  unregistered = unregistered
  NoQuota = NoQuota
  NoPolicy = NoPolicy
  NoGroup = NoGroup
  None = None
  Owners = {alice}
  Requestors = {retailer, school}
  Algorithms = {age_over_threshold, age_band}
  Unknown = {unregistered}
  Attributes = {date_of_birth, age}
  Groups = {birth}
  Policies <- MCPolicies
  Permissions <- OpenPermissions
  Queries <- OpenQueries
  reads <- MCReads
  DAY = 2
  YEAR = 3
  Years = {0}
  MaxTime = 2
  MaxGrants = 2
  MaxUsage = 3
  MaxUses = 3
  MaxSubmitted = 3
  LatestPolicy = 1
INVARIANTS
  AnswersBounded
PROPERTIES
  BudgetFollowsStatement
  DeniedIsFree
