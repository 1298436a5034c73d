SPECIFICATION FairSpec
CONSTANTS
  Preorder <- Tree
  Global = Global
  Crates <- SomeCrates
INVARIANTS
  NothingMissing
PROPERTIES
  CompleteIsFinal
  EntriesStay
  Ends
CHECK_DEADLOCK FALSE
