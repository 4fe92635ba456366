--------------------------- MODULE MCVisibleStack ---------------------------
(* Values of the constants of VisibleStack: texts, stores and calls.       *)
EXTENDS VisibleStack, TLC

CONSTANTS r1, r2, d1, d2, deploy, release, plain, topic

\* Two texts on one topic, one of which the query misses, and one without.
MCTexts == {deploy, release, plain}
MCTopic == deploy :> topic @@ release :> topic @@ plain :> NoTopic
MCHits == {deploy, plain}
MCWidth == deploy :> 3 @@ release :> 1 @@ plain :> 2

\* Bound: r2 starts with the first domain, r1 with none, one or both.
MCStacks == {(r1 :> ds) @@ (r2 :> {d1}) : ds \in {{}, {d1}, {d1, d2}}}

Recall(targets, placement, limit, chars) ==
  [command |-> "recall", targets |-> targets, placement |-> placement, exact |-> FALSE,
   limit |-> limit, offset |-> 0, chars |-> chars]
List(placement, exact, offset) ==
  [command |-> "list", targets |-> <<r1>>, placement |-> placement, exact |-> exact,
   limit |-> 1, offset |-> offset, chars |-> NoBudget]

MCCalls ==
  {Recall(<<r1>>, NoPlacement, 2, 2), Recall(<<r1, r2>>, NoPlacement, 2, 4),
   Recall(<<r1>>, DomainAt(d1), 1, NoBudget),
   List(NoPlacement, FALSE, 1), List(DomainAt(d1), TRUE, 0),
   List(RepositoryAt(r2), TRUE, 0), List(DomainAt(d1), FALSE, 0)}
=============================================================================
