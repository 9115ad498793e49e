--------------------------- MODULE MCPlayerAccount ---------------------------
EXTENDS PlayerAccount, TLC

\* Two names; one country the selects of the setup offer and one they do not.
CONSTANTS n1, n2, bad, kr, zz, eu, h1, h2, a1, a2, v1, v2

Alike == Permutations({n1, n2}) \cup Permutations({h1, h2})
           \cup Permutations({a1, a2}) \cup Permutations({v1, v2})
=============================================================================
