\* Two requests, two tamperings and one fault, on either system.
SPECIFICATION FairSpec
CONSTANTS
    Relays = {r1, r2}
    None = None
    Handlers = {h1, h2}
    MaxRequests = 2
    MaxTampers = 1
    MaxFaults = 1
    MaxEffort = 4
INVARIANTS
    TypeOK
    RulesFollowPolicy
    CaptiveHandover
    HostReopened
PROPERTIES
    StopReturns
    TamperingRepaired
