CONSTANTS
    None = None
    h1 = h1
    h2 = h2
    ip1 = ip1
    peer = peer
    g1 = g1
    u1 = u1
    u2 = u2
    u3 = u3
    t1 = t1
    t2 = t2
    w1 = w1
    w2 = w2
    x1 = x1
    x2 = x2
    x3 = x3
    y1 = y1
    v1 = v1
    wg = wg
    alice = alice
    Alice = Alice
    desk = desk
    kids = kids
    home = home
    r1 = r1
    r2 = r2
    r3 = r3
    r4 = r4
    dap = dap
    Casefold <- MCCasefold
    MacAddresses <- MCMacs
    Substrings <- MCSubstrings
    Questions <- MCQuestions
    Payloads <- MCPayloads
    Records <- MCRecords
    StartLog <- MCStartLog
    HiddenPurposes = {dap}
    OnlineWindow = 5
    MinSample = 2
    MaxSample = 30
    Modes = {"summary_only", "read_only"}
    PageSize = 2
    MaxLogMoves = 2
SPECIFICATION FairSpec
INVARIANTS
    TypeOK
    AnswersFit
PROPERTIES
    WholeLogRead
    ReportsEnd
