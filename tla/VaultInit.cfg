SPECIFICATION FairSpec
CONSTANTS
  MaxTokens = 4
  MaxTrouble = 3
INVARIANTS
  KeysAreKept
  TokenOpensDoors
  FailuresAreDue
PROPERTIES
  BlankSettingsChangeNothing
  TokenWorks
CHECK_DEADLOCK FALSE
