\* One command and one refresh; the app stays away.
CONSTANTS
    Rules = {r1, r2}
    Existing = {r1}
    Selected = {r1}
    Calls = {c1}
    Polls = {p1}
    Times = {t1}
    NoTime = NoTime
    Contents = {x1}
    KeepContent = KeepContent
    NoRule = NoRule
    MaxAppSteps = 0
SPECIFICATION Spec
INVARIANT
    DeleteAnswers
