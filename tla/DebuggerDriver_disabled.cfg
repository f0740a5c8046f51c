SPECIFICATION Spec
CONSTANTS
    CodeBps = {c1}
    DataBps = {d1}
    MaxLine = 2
    MaxClicks = 3
    Mishaps = {"disable"}
INVARIANTS DisabledIsOut
CHECK_DEADLOCK FALSE
