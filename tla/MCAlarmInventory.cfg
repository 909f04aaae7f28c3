\* Two overlapping operations, mutes included, on two alarms of which a payload
\* lists one.
CONSTANTS
    Alarms = {a1, a2}
    Silences = {m1}
    Calls = {c1, c2}
    NoAlarm = NoAlarm
    NoSilence = NoSilence
    ListCap = 1
    MaxAppSteps = 1
SPECIFICATION Spec
SYMMETRY Symmetric
INVARIANTS
    TypeOK
    ViewsAgree
    ListedAreCounted
    CompleteMeansAll
    RemovedStaysRemoved
