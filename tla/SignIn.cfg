SPECIFICATION SignInSpec
CONSTANTS
  w1 = w1
  w2 = w2
  c1 = c1
  c2 = c2
  a1 = a1
  a2 = a2
  Wallet = {w1}
  Client = {c1}
  Attempt = {a1, a2}
  Via <- Ways
  ProxyEnv <- BehindEdge
  AddressBits = 3
  ChallengeTtl = 1
  SessionTtl = 2
  Grace = 1
  Window = 1
  MaxPerWindow = 1
  EdgeTtl = 1
  MaxNonce = 2
  MaxTime = 2
  MaxFaults = 2
SYMMETRY Same
CHECK_DEADLOCK FALSE
INVARIANTS SessionsEarned LastLoginLives LimitHolds  
