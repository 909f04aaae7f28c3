\* Two overlapping calls on two hosts, one change by the app (h2 joining among them)
\* and one answer without hosts.
CONSTANTS
    h1 = h1
    h2 = h2
    x1 = x1
    a1 = a1
    n1 = n1
    Hosts = {h1, h2}
    Start <- OneHost
    Names = {x1, x2}
    Networks = {n1, n2}
    Addresses = {a1}
    Dynamic = Dynamic
    Calls = {c1, c2}
    NoHost = NoHost
    MaxAppSteps = 1
    MaxDegraded = 1
SPECIFICATION Spec
SYMMETRY Symmetric
INVARIANTS
    TypeOK
    ViewsAgree
    NoPhantomSettings
    SettledWritesShow
