------------------------------ MODULE MCCatalog ------------------------------
EXTENDS Catalog, TLC

CONSTANTS e1, e2, p1, p2

\* The second policy admits one endpoint, the first all.
MCAllowed == (p1 :> {}) @@ (p2 :> {e1})

Symmetry == Permutations(Transactions)
=============================================================================
