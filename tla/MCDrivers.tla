----------------------------- MODULE MCDrivers -----------------------------
EXTENDS Drivers

Program(calls, natives, held) ==
    [calls |-> calls, natives |-> natives, wrappers |-> held, nests |-> TRUE]
Careless(p) == [p EXCEPT !.nests = FALSE]

MCPrograms ==
    {Program({"objects", "pages"}, 5, 3), Program({"pages"}, 6, 4),
     Program({"forms", "objects"}, 5, 3),
     Program({"copying", "forms"}, 6, 3), Program({"copying", "pages"}, 5, 3),
     Program({"copying", "reading"}, 4, 3), Program({"reading", "parsing"}, 4, 3),
     Program({"images"}, 4, 3), Program({"files"}, 4, 3), Program({"modifying"}, 5, 3),
     Careless(Program({"forms", "objects"}, 5, 3)),
     Careless(Program({"objects", "pages"}, 5, 3)),
     Careless(Program({"objects", "modifying"}, 5, 3))}
=============================================================================
