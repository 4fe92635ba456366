---------------------------- MODULE MCExecution ----------------------------
(* Values of the constants of Execution: requests of local processes, of   *)
(* the server's clients and of the plugin.                                 *)
EXTENDS Execution

CONSTANTS r1, text, n1, m1, m2, k1

Here == RepositoryAt(r1)

Request(route, kind, to, key, remote) ==
  [route |-> route, kind |-> kind, repository |-> r1, id |-> 1, from |-> Here, to |-> to,
   text |-> text, key |-> key, seen |-> TRUE,
   descriptor |-> IF remote = NoRemote THEN NoDescriptor ELSE [name |-> n1, remote |-> remote]]

\* One transfer by either route, another with its key, and everything else.
MCCalls ==
  {Request("local", "copy", Universal, k1, m1), Request("server", "copy", Universal, k1, m2),
   Request("local", "move", Universal, k1, NoRemote), Request("local", "move", Universal, NoKey, m2),
   Request("local", "remember", Here, NoKey, m1), Request("server", "remember", Here, NoKey, m2),
   Request("local", "overwrite", Here, NoKey, m2),
   Request("local", "forget", Here, NoKey, NoRemote), Request("server", "forget", Here, NoKey, NoRemote),
   Request("server", "move", Universal, NoKey, m1), Request("local", "recall", Here, NoKey, NoRemote),
   [Request("local", "remember", Here, NoKey, NoRemote) EXCEPT !.seen = FALSE],
   [Request("server", "forget", Here, NoKey, NoRemote) EXCEPT !.from = Universal],
   Request("server", "recall", Here, NoKey, NoRemote), Request("local", "sink", Here, k1, NoRemote)}
=============================================================================
