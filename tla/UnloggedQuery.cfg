SPECIFICATION Spec
CONSTANTS
  alice = alice
  retailer = retailer
  school = school
  birth = birth
  date_of_birth = date_of_birth
  age = age
  age_over_threshold = age_over_threshold
  age_band = age_band
  unregistered = unregistered
  NoQuota = NoQuota
  NoPolicy = NoPolicy
  NoGroup = NoGroup
  None = None
  Owners = {alice}
  Requestors = {retailer}
  Algorithms = {age_over_threshold}
  Unknown = {unregistered}
  Attributes = {date_of_birth, age}
  Groups = {birth}
  Policies = {}
  Permissions <- QuotaPermissions
  Queries <- QuotaQueries
  reads <- OneRead
  DAY = 2
  YEAR = 3
  Years = {0, 1}
  MaxTime = 3
  MaxGrants = 2
  MaxUsage = 3
  MaxUses = 3
  MaxSubmitted = 3
  LatestPolicy = 0
INVARIANTS
  EveryQueryLogged
