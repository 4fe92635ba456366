--------------------------- MODULE MCStoreClients ---------------------------
(* Processes saving, changing and forgetting records of one database.      *)
EXTENDS StoreClients, TLC

CONSTANT note, MaxLedger

MCTexts == {note}
MCSimilar == {<<note, note>>}

LedgerBound == Cardinality(DOMAIN ledger) <= MaxLedger

Symmetry == Permutations(Processes) \cup Permutations(Repositories)
=============================================================================
