\* Two refreshes that may overlap, one command and one app step; no symmetry,
\* because the run checks liveness.
CONSTANTS
    Rules = {r1, r2}
    Existing = {r1}
    Selected = {r1}
    Calls = {c1}
    Polls = {p1, p2}
    Times = {t1}
    NoTime = NoTime
    Contents = {x1}
    KeepContent = KeepContent
    NoRule = NoRule
    MaxAppSteps = 1
SPECIFICATION FairSpec
PROPERTIES
    Converges
