\* The tier ledger again, asked whether a destroyed name can be live.
CONSTANTS
  k1 = k1
  k2 = k2
  h1 = h1
  h2 = h2
  Kinds = {"stage_gib"}
  Keys = {k1, k2}
  Handles = {h1}
  MaxIndex = 2
  TierLedger = TRUE
SPECIFICATION Spec
SYMMETRY Symmetry
INVARIANT
  DeadIsNotLive
