SPECIFICATION Spec

CONSTANTS
  Airdrop = {a1}
  Count = 2
  Amount = 1
  Request = {r1, r2}
  Token = {1, 2}
  Plain <- MCPlain
  None = None
  MaxSnapshot = 1
  MaxFaults = 1
  MaxCrashes = 1

INVARIANT CompleteMeansPaid
INVARIANT ShownMatchesChain
INVARIANT HaltedNeverPaid
PROPERTY LedgerKept

SYMMETRY MCSymmetry

CHECK_DEADLOCK FALSE
