\* Two overlapping toggles of up to two networks, a refresh and a change by the
\* app; no symmetry, because the run checks liveness.
CONSTANTS
    Profiles = {s1, s2}
    Settings = {x1, x2}
    Calls = {c1, c2}
    NoProfile = NoProfile
    MaxAppSteps = 1
SPECIFICATION FairSpec
INVARIANTS
    TypeOK
    NoPhantomPause
    SettledTogglesShow
PROPERTIES
    SettledTogglesKept
    Converges
