SPECIFICATION FairSpec
CONSTANTS
  Labels = {"a", "b"}
  Routines <- MCRoutines
  MaxTokens = 6
INVARIANTS
  TypeOK
  FlagTellsTruth
  TidyAccepted
PROPERTIES
  ImplementsSource
CHECK_DEADLOCK FALSE
