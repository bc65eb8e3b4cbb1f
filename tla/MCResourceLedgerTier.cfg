\* A tier ledger with one kind and capacity up to two, one claimant and two holders.
\* No symmetry: a temporal property.
CONSTANTS
  k1 = k1
  k2 = k2
  h1 = h1
  h2 = h2
  Kinds = {"stage_gib"}
  Keys = {k1, k2}
  Handles = {h1}
  MaxIndex = 2
  TierLedger = TRUE
SPECIFICATION FairSpec
INVARIANTS
  SoleCustody
  RunningHoldsItsTokens
PROPERTY
  OnlyMintGrows
  StrandedTokensReturn
