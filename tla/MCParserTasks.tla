--------------------------- MODULE MCParserTasks ---------------------------
(* Two parsers for TLC.  The project of p1 has a priority header h of the  *)
(* system, which includes g, and a source s, which includes both; p2 is    *)
(* created for the stand-alone file s, added in the same handler.          *)
EXTENDS ParserTasks

CONSTANTS p1, p2, g, h, s
MCIncludes == [f \in Files |->
    CASE f = h -> <<[file |-> g, isGlobal |-> TRUE]>>
      [] f = s -> <<[file |-> h, isGlobal |-> FALSE], [file |-> g, isGlobal |-> TRUE]>>
      [] OTHER -> <<>>]
Found(priority, batch) ==
    [macros |-> TRUE, priority |-> priority, system |-> priority, batch |-> batch]
MCContents == [p \in Parsers |-> IF p = p1 THEN Found(<<h>>, <<s>>) ELSE Found(<<>>, <<s>>)]
\* The project has no source and no header; <h> is found in the compiler's
\* directories all the same.
MCNoSources == [p \in Parsers |-> IF p = p1 THEN Found(<<h>>, <<>>) ELSE Found(<<>>, <<s>>)]
=============================================================================
