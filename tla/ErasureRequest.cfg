SPECIFICATION FairSpec
CONSTANTS
  Chars <- MCChars
  Apostrophes = {"'"}
  Punctuation <- MCPunctuation
  Spaces = {" "}
  Digits = {"1", "2"}
  Capitals = {"A", "B"}
  Space = " "
  strip <- MCStrip
  casefold <- MCCasefold
  upper <- MCUpper
  codepoint <- MCCodepoint
  substitutions <- MCSubstitutions
  Versions = {"identity-canon/0", "identity-canon/1"}
  CANONICALISATION_VERSION = "identity-canon/1"
  digest <- MCDigest
  WORD = 3
  MIN_BITS = 1
  FINGERPRINT_BITS = 2
  NoThreshold = NoThreshold
  ALICE = ALICE
  BROKER = BROKER
  matches_owner = matches_owner
  identity = identity
  Identities <- MCIdentities
  NoIdentity = NoIdentity
  NoQuota = NoQuota
  None = None
  Salts = {0, 1}
  BROKER_RECORDS <- MCRecords
  Probed = 1
  Unrelated = 6
  Quotas = {2, NoQuota}
  MaxActs = 3
INVARIANTS
  StrangersSurvive
  OwnRecordsDeleted
  HonestNotRefused
  StatementShowsQueries
  RefusedNotGuessed
  ProbesRefused
PROPERTIES
  EveryCandidateSettled
CHECK_DEADLOCK FALSE
