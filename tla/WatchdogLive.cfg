SPECIFICATION Spec
CONSTANTS
    NHops = 1
    MaxHops = 1
    DocA = DocA
    DocB = DocB
    AddrA = AddrA
    AddrB = AddrB
    Claimed = Claimed
    Listed = Listed
    None = None
    Doc = {DocA, DocB}
    Addr = {AddrA, AddrB}
    Parsing = {DocA, DocB}
    Big = {DocA}
    HopDoc <- MCHopDoc
    HopAddr <- MCHopAddr
    HopHeight <- MCHopHeight
    PulledAfter = 1
    StaleAfter = 2
    FastCeiling = 1
    MaxAttempts = 1
    MaxChanges = 3
    MaxFaults = 1
INVARIANT
    OutageProtocol
PROPERTIES
    EventsSettle
    OutageAnnounced
    
CHECK_DEADLOCK FALSE
