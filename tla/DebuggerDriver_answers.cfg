SPECIFICATION Spec
CONSTANTS
    CodeBps = {c1}
    DataBps = {d1}
    MaxLine = 2
    MaxClicks = 3
    Mishaps = {"unknown word"}
INVARIANTS AnswerToAsker
CHECK_DEADLOCK FALSE
