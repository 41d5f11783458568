SPECIFICATION Spec
CONSTANTS
    NHops = 2
    MaxHops = 2
    DocA = DocA
    DocB = DocB
    AddrA = AddrA
    AddrB = AddrB
    Claimed = Claimed
    Listed = Listed
    None = None
    Doc = {DocA, DocB}
    Addr = {AddrA, AddrB}
    Parsing = {DocA, DocB}
    Big = {DocA}
    HopDoc <- MCHopDoc
    HopAddr <- MCHopAddr
    HopHeight <- MCHopHeight
    PulledAfter = 1
    StaleAfter = 2
    FastCeiling = 1
    MaxAttempts = 1
    MaxChanges = 2
    MaxFaults = 1
INVARIANTS
    DeliveredOnce
PROPERTIES
    CanonicalMeta
    
CHECK_DEADLOCK FALSE
