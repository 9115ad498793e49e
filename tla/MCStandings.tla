---------------------------- MODULE MCStandings ----------------------------
EXTENDS Standings

\* A player with two races.
CONSTANT p1

Players == <<p1, p1>>
Cycle == <<"d">>
Selections == {{1, 2}, {1}}
=============================================================================
