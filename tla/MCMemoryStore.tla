--------------------------- MODULE MCMemoryStore ---------------------------
(* Values of the constants of MemoryStore and the bound of its runs.        *)
EXTENDS MemoryStore, TLC

CONSTANTS broad, narrow, MaxLedger

\* The query of the narrow text matches both, that of the broad text itself.
MCTexts == {broad, narrow}
MCSimilar == {<<narrow, narrow>>, <<narrow, broad>>, <<broad, broad>>}

\* Bound: committed transfers.
LedgerBound == Cardinality(DOMAIN ledger) <= MaxLedger

Symmetry == Permutations(Repositories)
=============================================================================
