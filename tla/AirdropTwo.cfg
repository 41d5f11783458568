SPECIFICATION Spec

CONSTANTS
  Airdrop = {a1, a2}
  Count = 2
  Amount = 1
  Request = {r1, r2}
  Token = {1}
  Plain <- MCPlain
  None = None
  MaxSnapshot = 0
  MaxFaults = 1
  MaxCrashes = 0

INVARIANT OneOpen

SYMMETRY MCSymmetry

CHECK_DEADLOCK FALSE
