CONSTANTS
  collector = collector
  job = job
  helper = helper
  Collectors = {collector}
  Jobs = {job}
  Helpers = {helper}
  MaxTokens = 2
SPECIFICATION FairSpec
INVARIANTS
  TypeOK
  RetryUsesAnotherToken
PROPERTIES
  LogsInOnlyWhenRefused
  RenewsUnattended
