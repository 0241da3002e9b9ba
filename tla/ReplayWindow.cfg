SPECIFICATION ReplaySpec
CONSTANTS
  r1 = r1
  r2 = r2
  police = police
  date_of_birth = date_of_birth
  age = age
  birth = birth
  ages = ages
  alice = alice
  NoPolicy = NoPolicy
  NoGroup = NoGroup
  Owners = {alice}
  Requestors = {r1, r2, police}
  Attributes = {date_of_birth, age}
  Groups = {birth, ages}
  Policies <- MCPolicies
  DAY = 3
  MaxTime = 5
  MaxUses = 4
INVARIANTS
  WindowBound
