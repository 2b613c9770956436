------------------------------- MODULE MCOutput -------------------------------
EXTENDS Output, TLC

CONSTANTS k1, k2

Keys == Permutations(FixKey)

\* Two places that two nested splits tell apart, and one in the base cell to the
\* east (MaxLevel = 2: base cells of 8 degrees and more).
BorderPlaces == {<<1, 1>>, <<1, 3>>, <<1, 9>>}
===============================================================================
