--------------------------- MODULE MCOrganization ---------------------------
(* Agents that organize the records of one repository and the universal    *)
(* placement while they are written, copied and moved.                     *)
EXTENDS Organization, TLC

CONSTANTS
  MaxLedger,  \* bound: committed transfers
  MaxEarly,   \* bound: writes of content before a domain or a transfer
  MaxReaders  \* bound: agents that hold snapshots then

MCTexts == 1..MaxStamp

\* Transfers and domains with few writes and one agent, or longer histories
\* of content that two agents merge; the step to the last write is checked,
\* what follows it is not.
HistoryBound ==
  /\ clock < MaxStamp
  /\ Cardinality(DOMAIN ledger) <= MaxLedger
  /\ domains # {} \/ DOMAIN ledger # {} =>
       /\ clock <= MaxEarly
       /\ Cardinality({v \in Agents : DOMAIN snapshots[v] # {}}) <= MaxReaders

Symmetry == Permutations(Agents)
=============================================================================
