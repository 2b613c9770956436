----------------------------- MODULE MCConnection -----------------------------
EXTENDS Connection, TLC

CONSTANTS c1, c2

Pair == Permutations({c1, c2})
===============================================================================
