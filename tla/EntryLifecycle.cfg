\* One rule, one host, one SSID and one access point; any mix of four saves,
\* requested reloads and changes of the box.
CONSTANTS
    Rules = {r1}
    Macs = {m1}
    Ssids = {s1}
    Aps = {ap1}
    MaxSteps = 4
SPECIFICATION FairSpec
INVARIANTS
    TypeOK
    SelectionsShow
    RegistriesFollow
PROPERTIES
    TrackersKeepIdentity
    Settles
CHECK_DEADLOCK FALSE
