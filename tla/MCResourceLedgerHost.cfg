\* A host ledger with one kind and capacity up to two, two contending
\* claimants and two action keys.
CONSTANTS
  k1 = k1
  k2 = k2
  h1 = h1
  h2 = h2
  Kinds = {"cpu"}
  Keys = {k1, k2}
  Handles = {h1, h2}
  MaxIndex = 2
  TierLedger = FALSE
SPECIFICATION Spec
SYMMETRY Symmetry
INVARIANTS
  TypeOK
  SoleCustody
  RunningHoldsItsTokens
PROPERTY
  OnlyMintGrows
