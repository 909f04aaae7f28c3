CONSTANTS
    None = None
    Ssid = ssid
    Dynamic = Dynamic
    All = All
    NewRule = NewRule
    Target = Target
    Reported = Reported
    h1 = h1
    h2 = h2
    r1 = r1
    r2 = r2
    r3 = r3
    a1 = a1
    a2 = a2
    g1 = g1
    u1 = u1
    n1 = n1
    n2 = n2
    w1 = w1
    x1 = x1
    ssid = ssid
    Casefold <- MCCasefold
    MacAddresses = {h1}
    Tags <- MCTags
    Networks <- MCNetworks
    Subnets <- MCSubnets
    AlarmHost <- MCAlarmHost
    Asked <- MCAsked
    AppEffects <- MCAppEffects
    Start <- MCStart
    Hosts = {h1, h2}
    Rules = {r1, r2, r3}
    Names = {n2}
    Modes = {"read_only", "read_and_control", "full"}
    MaxCalls = 2
    MaxAppMoves = 1
SPECIFICATION Spec
INVARIANTS
    TypeOK
    AppliedHolds
PROPERTIES
    UpdatedViewAgrees
    RulesGoneBeforeMove
    ModeKeepsRecords
