SPECIFICATION Spec
CONSTANTS
  Tokens <- T
  Markets <- M
  MarketOf <- Of
  NegRisk <- Group
  One = 5
  Inputs <- AllInputs
  MaxCursor = 5
INVARIANTS
  ReplayNeverDiverges
  ReadyIsExecutable
  RecoveryMatches
  DeltasAreComplete
PROPERTIES
  RecoveryIsAtomic
  FaultsAreLocal
