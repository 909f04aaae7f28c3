\* Two overlapping commands, one refresh and one app step over two rule ids.
CONSTANTS
    Rules = {r1, r2}
    Existing = {r1}
    Selected = {r1}
    Calls = {c1, c2}
    Polls = {p1}
    Times = {t1}
    NoTime = NoTime
    Contents = {x1}
    KeepContent = KeepContent
    NoRule = NoRule
    MaxAppSteps = 1
SPECIFICATION Spec
SYMMETRY Symmetric
INVARIANTS
    TypeOK
    ViewsAgree
    SwitchesFollowIndex
    NoPhantomControl
    SettledWritesShow
