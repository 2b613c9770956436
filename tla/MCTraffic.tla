------------------------------- MODULE MCTraffic -------------------------------
EXTENDS Traffic, TLC

CONSTANTS a1, a2, a3

Fleet == Permutations({a1, a2, a3})
===============================================================================
