SPECIFICATION Spec
CONSTANTS
  retailer = retailer
  age_over_threshold = age_over_threshold
  school_year_of = school_year_of
  date_of_birth = date_of_birth
  address = address
  alice = alice
  NoQuota = NoQuota
  Owners = {alice}
  Requestors = {retailer}
  Algorithms = {age_over_threshold, school_year_of}
  Attributes = {date_of_birth, address}
  Years = {1, 2}
  Permissions <- MCPermissions
  MaxGrants = 3
  MaxUsage = 3
INVARIANTS
  QuotaHonoured
PROPERTIES
  RevokeNeverAdmits
  RegrantChangesNothing
  ImplementsConsent
