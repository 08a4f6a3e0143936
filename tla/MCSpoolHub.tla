----------------------------- MODULE MCSpoolHub -----------------------------
EXTENDS SpoolHub
CONSTANTS p1, p2, a1, a2
MCAceOf == [p \in {p1,p2} |-> IF p = p2 THEN a2 ELSE a1]
=============================================================================
