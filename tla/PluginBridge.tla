---------------------------- MODULE PluginBridge -----------------------------
(* How the plugin runs the command line (src/plugin/bridge.js): a request  *)
(* starts a handshake process and then the command, under one deadline and *)
(* one abort signal.  Stopping it kills the process, which may have        *)
(* committed before the kill arrives.  Output and exit codes are reduced   *)
(* to the outcome the request settles with.                                *)
EXTENDS Naturals, Sequences

CONSTANTS
  Slots,    \* places for requests
  Nothing,  \* an absent value (undefined)
  Calls     \* tool calls and commands, which may write

VARIABLES
  requests, \* the requests whose promise somebody holds
  writes    \* history: what each call's commands committed

bridgeVars == <<requests, writes>>

Writing == {"remember", "apply"}

\* A request under a controller's signal and a call's own.  What could have
\* happened in which phase matters to a write: a read is in its command from
\* the start, and fails by running out of time.
Request(op, targets, terms, object, generation, call, aborted) ==
  [op |-> op, targets |-> targets, terms |-> terms,
   object |-> object, generation |-> generation, call |-> call,
   phase |-> IF op \in Writing THEN "handshake" ELSE "command", committed |-> FALSE,
   outcome |-> IF aborted THEN "not_started" ELSE "ok"]

Running(r) == r # Nothing /\ r.phase # "settled"
Settled(r) == r # Nothing /\ r.phase = "settled"
Live(r) == Running(r) /\ r.outcome = "ok"

\* Fault: what was not answered was not done.
StoppedUnstarted(r) == IF Live(r) THEN [r EXCEPT !.outcome = "not_started"] ELSE r

\* stop: the first reason to fail stays, with what the phase says of the
\* outcome.
Stopped(r) ==
  IF Live(r)
  THEN [r EXCEPT !.outcome = IF r.phase = "command" THEN "outcome_unknown" ELSE "not_started"]
  ELSE r

Update(i, r) == requests' = [requests EXCEPT ![i] = r]
Settle(i, outcome) == Update(i, [requests[i] EXCEPT !.phase = "settled", !.outcome = outcome])

-----------------------------------------------------------------------------
(* The processes.                                                          *)

\* Node and the launcher answer with the right version: the command starts.
Handshake(i) ==
  /\ Live(requests[i]) /\ requests[i].phase = "handshake"
  /\ Update(i, [requests[i] EXCEPT !.phase = "command"])
  /\ UNCHANGED writes

\* A missing launcher or runtime, another version, a failed spawn.
Unlaunched(i) ==
  /\ Live(requests[i]) /\ requests[i].phase = "handshake"
  /\ Settle(i, "not_started")
  /\ UNCHANGED writes

\* The command's transaction commits, perhaps while it is being killed.
Commits(i) ==
  LET r == requests[i] IN
  /\ Running(r) /\ r.phase = "command" /\ r.op \in Writing /\ ~r.committed
  /\ Update(i, [r EXCEPT !.committed = TRUE])
  /\ writes' = [writes EXCEPT ![r.call] = Append(@, r.targets.repository)]

\* The command exits with a receipt of success.
Succeeds(i) ==
  LET r == requests[i] IN
  /\ Live(r) /\ r.phase = "command" /\ (r.op \in Writing => r.committed)
  /\ Settle(i, "ok")
  /\ UNCHANGED writes

\* It exits with a rejection, or with no receipt at all.
Rejects(i) ==
  /\ Live(requests[i]) /\ requests[i].phase = "command" /\ requests[i].op \in Writing
  /\ ~requests[i].committed
  /\ Settle(i, "rejected")
  /\ UNCHANGED writes

Crashes(i) ==
  /\ Live(requests[i]) /\ requests[i].phase = "command" /\ requests[i].op \in Writing
  /\ Settle(i, "outcome_unknown")
  /\ UNCHANGED writes

\* The deadline of three seconds for both processes, or too much output.
Deadline(i) ==
  /\ Live(requests[i])
  /\ Update(i, Stopped(requests[i]))
  /\ UNCHANGED writes

\* A stopped process closes, or the reap timer gives up on it.
Closes(i) ==
  /\ Running(requests[i]) /\ ~Live(requests[i])
  /\ Settle(i, requests[i].outcome)
  /\ UNCHANGED writes

Bridge(i) ==
  \/ Handshake(i) \/ Unlaunched(i) \/ Commits(i) \/ Succeeds(i)
  \/ Rejects(i) \/ Crashes(i) \/ Deadline(i) \/ Closes(i)
=============================================================================
