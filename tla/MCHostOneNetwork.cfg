\* One reservation, no change by the app and one answer without hosts.
CONSTANTS
    h1 = h1
    h2 = h2
    x1 = x1
    a1 = a1
    n1 = n1
    Hosts = {h1, h2}
    Start <- TwoHosts
    Names = {x1}
    Networks = {n1, n2}
    Addresses = {a1}
    Dynamic = Dynamic
    Calls = {c1}
    NoHost = NoHost
    MaxAppSteps = 0
    MaxDegraded = 1
SPECIFICATION Spec
PROPERTY
    ReservationTouchesOneNetwork
