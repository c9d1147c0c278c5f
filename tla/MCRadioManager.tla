--------------------------- MODULE MCRadioManager ---------------------------
\* The radio manager on a small server.
EXTENDS RadioManagerInv, TLC

\* Two connections, lease ids and workers are interchangeable.
Symmetry == Permutations(Clients) \union Permutations(Leases)
=============================================================================
