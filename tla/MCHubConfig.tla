---- MODULE MCHubConfig ----
EXTENDS HubConfig, TLC
CONSTANTS c1, c2, c3, k1, k2

Symmetry == Permutations({k1, k2}) \cup Permutations({c1, c2, c3})
====
