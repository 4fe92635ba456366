-------------------------- MODULE MCPluginSessions ---------------------------
(* Values of the constants of PluginSessions.                              *)
EXTENDS PluginSessions, TLC

CONSTANTS s1, s2, r1, r2

MCHome == (s1 :> r1) @@ (s2 :> r2)

Asks(op, repository, query, command) ==
  [op |-> op, repository |-> repository, query |-> query, command |-> command]

MCSlots == (Transforms \cup Calls) \X {"shared", "own"}

MCTools ==
  {Asks("scope", r2, TRUE, FALSE), Asks("scope", r2, FALSE, TRUE),
   Asks("recall", Nothing, TRUE, FALSE),
   Asks("remember", r2, FALSE, FALSE),
   Asks("apply", Nothing, FALSE, FALSE)}
=============================================================================
