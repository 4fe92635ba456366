--------------------------- MODULE MCInstallation ---------------------------
(* Values of the constants of SetupInstaller and SchemaLifecycle.          *)
EXTENDS SetupInstaller, TLC

CONSTANTS s1, s2, i1, i2, c1

MCVersions == {1, 2}
Request(operation, target, scopes) ==
  [operation |-> operation, target |-> target, scopes |-> scopes,
   removeCLI |-> operation = "uninstall"]

MCRequests ==
  {Request("install", v, {s}) : v \in Versions, s \in Scopes}
    \cup {Request("install", 2, Scopes)}
    \cup {Request("uninstall", 2, {s}) : s \in Scopes}

MCDatabases ==
  {Missing, Schema(1, {"addition"}), Schema(1, {"identity"}), Schema(2, {"addition"})}

\* Either the database is competed for or the files are edited.
MCInit ==
  /\ SetupInit
  /\ \/ /\ database # Schema(2, {"addition"})
        /\ \A s \in Scopes : config[s].note = MaxNotes
        /\ opener[c1] = "idle"
     \/ /\ database = Schema(2, {"addition"})
        /\ \A s \in Scopes : config[s].note = 0
        /\ opener[c1] = "gone"

MCSpec == MCInit /\ [][SetupNext]_setupVars

Interchangeable == Permutations(Scopes) \cup Permutations(Installers)
=============================================================================
