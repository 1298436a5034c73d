SPECIFICATION FairSpec
CONSTANTS
  MaxIvars = 3
  MaxEquations = 3
  MaxCalls = 6
  MaxNesting = 6
  Constructors = {"i32", "u8", "f64", "!", "slice", "tuple"}
  TypesOver <- SomeTypes
  Grounds <- SomeGrounds
INVARIANTS
  ErrorsJustified
  TypesFinite
  LiteralsTyped
PROPERTIES
  TableRespected
  EquatedStayEqual
  NothingLostOrAdded
  Answered
CHECK_DEADLOCK FALSE
