SPECIFICATION FairSpec
CONSTANTS
    p1 = p1
    p2 = p2
    g = g
    h = h
    s = s
    Parsers = {p1, p2}
    Projects = {p1}
    Files = {g, h, s}
    Includes <- MCIncludes
    Contents <- MCContents
    MaxRequests = 5
    Mishaps = {}
INVARIANTS TypeOK BusyMeansWork OneParserAtATime
PROPERTIES PriorityFirst EndMeansDone AddedIsParsed
CHECK_DEADLOCK FALSE
