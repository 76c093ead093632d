SPECIFICATION FairSpec

CONSTANTS
  a1 = a1
  a2 = a2
  b1 = b1
  NoBundle = NoBundle
  CoHs <- Pair
  BundleOf <- PairIn
  OrderOf <- PairNth
  Orders <- PairBy
  TargetOf <- PairOn
  MaxSlots = 2
  MaxAttempts = 2
  CanStop <- First

INVARIANTS
  Books

PROPERTIES
  Held
  Unbanned
  FirstServed

CHECK_DEADLOCK FALSE
