SPECIFICATION Spec
CONSTANTS
    p1 = p1
    p2 = p2
    g = g
    h = h
    s = s
    Parsers = {p1, p2}
    Projects = {p1}
    Files = {g, h, s}
    Includes <- MCIncludes
    Contents <- MCNoSources
    MaxRequests = 4
    Mishaps = {}
INVARIANTS BusyMeansWork
CHECK_DEADLOCK FALSE
