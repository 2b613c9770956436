------------------------------- MODULE MCRouter -------------------------------
EXTENDS Router

\* One base cell, four leaf cells once it splits, and its neighbour to the east;
\* MaxLevel = 1, as with the default --shard-cell-deg 5.
MetroAndNeighbour == {<<1, 1>>, <<1, 3>>, <<3, 1>>, <<1, 5>>}
===============================================================================
