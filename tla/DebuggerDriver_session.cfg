SPECIFICATION FairSpec
CONSTANTS
    CodeBps = {c1, c2}
    DataBps = {d1}
    MaxLine = 2
    MaxClicks = 4
    Mishaps = {}
INVARIANTS TypeOK AnswerToAsker BusyMeansAsked BreakpointsAgree
PROPERTIES ArmedWhenRun ClickServed SessionEnds
CHECK_DEADLOCK FALSE
