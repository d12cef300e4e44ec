CONSTANTS
    c1 = c1
    c2 = c2
    Clients = {c1, c2}
    MaxCommands <- TwoAndOne
SPECIFICATION Spec
INVARIANTS
    AnsweredIsQueued
    QuitIsNotReportedFailed
PROPERTIES
    CallsReturn
    QuitStops
CHECK_DEADLOCK FALSE
