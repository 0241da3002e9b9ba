SPECIFICATION Spec
CONSTANTS
  ALICE = ALICE
  RETAILER = RETAILER
  probe = probe
  ally = ally
  PROBES <- MCProbes
  age_over = age_over
  date_of_birth = date_of_birth
  age = age
  school_year = school_year
  birth_date = birth_date
  Births <- MCBirths
  NoPolicy = NoPolicy
  NoGroup = NoGroup
  NoQuota = NoQuota
  None = None
  MaxMinute = 30
  MaxQueries = 14
INVARIANTS
  EveryAnswerHalves
  BudgetKeepsWidth
  RetailerServed
PROPERTIES
  PinnedWithoutBudget
CHECK_DEADLOCK FALSE
