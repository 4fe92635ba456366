--------------------------- MODULE SetupInstaller ---------------------------
(***************************************************************************)
(* memocap-setup (scripts/setup): installs, updates and uninstalls the     *)
(* shared CLI and, per project, a policy payload and the plugin entry that *)
(* selects it.  An intent in the manifest makes the steps of a run         *)
(* resumable; a lock file admits one run at a time.  Runs may die at any   *)
(* step, the user edits configuration files whenever, and the last step    *)
(* prepares the database of SchemaLifecycle in a process of its own.       *)
(*                                                                         *)
(* Abstractions: the scopes are projects, each with one configuration      *)
(* file, so no entry is inherited; a plugin entry is its version (with the *)
(* policy directory of that version, which skills.paths repeats); the rest *)
(* of a file is the number of the user's last edit; users do not edit      *)
(* payloads, write memocap entries by hand or restore old ones.            *)
(***************************************************************************)
EXTENDS SchemaLifecycle

CONSTANTS
  Scopes,      \* projects
  Versions,    \* released versions, in order
  Installers,  \* setup processes; as openers, the `activity prepare` they run
  Requests,    \* command lines: operation, target, scopes, removeCLI
  None,        \* no intent, no scope
  MaxNotes,    \* bound: user edits of one file, in all
  MaxRuns      \* bound: commands started

ASSUME InstallersAssumption ==
  Installers \subseteq Openers /\ "free" \notin Installers /\ "stale" \notin Installers
ASSUME RequestsAssumption ==
  \A q \in Requests :
    /\ q.operation \in {"install", "uninstall"} /\ q.target \in Versions /\ q.scopes \subseteq Scopes
    /\ q.removeCLI => q.operation = "uninstall"
ASSUME VersionsAssumption == Versions \subseteq Nat \ {0}
ASSUME NotesAssumption == MaxNotes \in Nat

Absent == 0  \* no version: no entry, no skill, no CLI

\* What the manifest keeps of an operation until it is done.
Intents ==
  [operation : {"install", "uninstall"}, target : Versions,
   previous : Versions \cup {Absent}, previousSkill : Versions \cup {Absent},
   after : [entry : Versions \cup {Absent}, note : Nat]]

ASSUME NoneAssumption == None \notin Intents

VARIABLES
  manifest,  \* setup.json: a record per scope
  lock,      \* setup.json.lock: its owner, "free" or "stale"
  config,    \* per scope, the configuration file
  payload,   \* per scope and version, the policy directory: none, part, whole
  cli,       \* the version of the shared CLI
  run,       \* per process, the setup run it makes
  runs       \* commands started so far

installed == <<manifest, config, payload, cli, runs>>
setupVars == <<installed, lock, run, schemaVars>>

Text(entry, note) == [entry |-> entry, note |-> note]
NoRecord == [plugin |-> Absent, skill |-> Absent, intent |-> None]
Recorded == {s \in Scopes : manifest[s] # NoRecord}

Idle ==
  [pc |-> "idle", operation |-> "none", target |-> Absent, scopes |-> {}, removeCLI |-> FALSE,
   manifest |-> None, config |-> None, cli |-> Absent, todo |-> {}, at |-> None, missed |-> FALSE]

SetupInit ==
  /\ manifest = [s \in Scopes |-> NoRecord]
  /\ lock = "free"
  /\ config \in [Scopes -> {Text(Absent, n) : n \in 0 .. MaxNotes}]
  /\ payload = [s \in Scopes |-> [v \in Versions |-> "none"]]
  /\ cli = Absent
  /\ run = [p \in Installers |-> Idle]
  /\ runs = 0
  /\ database \in InitialDatabases
  /\ opener \in [Openers -> {"idle", "gone"}]
  /\ \A p \in Installers : opener[p] = "gone"

-----------------------------------------------------------------------------
(* Inspection and preflight.                                               *)

\* managedConfigText: only the owned entry and path change.
Managed(text, entry) == [text EXCEPT !.entry = entry]

IntentEntry(i) == IF i.operation = "install" THEN i.target ELSE Absent

Committed(r, text) == r.intent # None /\ text = r.intent.after

Installing(r) == r.intent # None /\ r.intent.operation = "install"

\* The entry and the skill that the files should show: those of a pending
\* operation once its configuration is in place, the previous ones before.
EffectivePlugin(r, text) ==
  CASE Committed(r, text) -> IntentEntry(r.intent)
    [] ~Committed(r, text) /\ Installing(r) ->
         IF r.plugin = Absent THEN r.intent.previous ELSE r.plugin
    [] OTHER -> r.plugin

\* Fault: what the manifest says, whatever is pending.
RecordedSkill(r, text) == r.skill

EffectiveSkill(r, text) ==
  CASE Committed(r, text) -> IF Installing(r) THEN r.intent.target ELSE r.skill
    [] ~Committed(r, text) /\ Installing(r) -> r.intent.previousSkill
    [] OTHER -> r.skill

\* Policies the host would discover, from the file as it is now.
Discovered(s) == {v \in Versions : config[s].entry = v /\ payload[s][v] # "none"}

PluginAccepted(r, text) ==
  /\ text.entry # Absent => text.entry = EffectivePlugin(r, text)
  /\ text.entry # Absent /\ EffectiveSkill(r, text) # Absent =>
       text.entry = EffectiveSkill(r, text)

SkillAccepted(operation, target, s, skill) ==
  /\ Discovered(s) \subseteq {skill}
  /\ operation = "install" /\ skill # Absent => payload[s][skill] # "part"
  /\ operation = "install" => payload[s][target] # "part"

ScopeAccepted(operation, target, s, r, text) ==
  /\ PluginAccepted(r, text)
  /\ r.intent # None => r.intent.operation = operation /\ r.intent.target = target
  /\ SkillAccepted(operation, target, s, EffectiveSkill(r, text))
  /\ operation = "uninstall" => r # NoRecord

Accepted(p) ==
  \A s \in run[p].scopes :
    ScopeAccepted(run[p].operation, run[p].target, s, manifest[s], run[p].config[s])

NoDowngrade(p) ==
  run[p].operation = "install" =>
    /\ cli <= run[p].target
    /\ \A s \in run[p].scopes :
         LET text == run[p].config[s] IN
           /\ text.entry <= run[p].target
           /\ EffectiveSkill(run[p].manifest[s], text) <= run[p].target

\* Fault: other scopes are reported but do not stop the run.
ImpactReported(p) == TRUE

\* The shared CLI only changes for all known scopes at once.
SharedImpact(p) ==
  run[p].operation = "install" /\ cli # run[p].target =>
    \A s \in Scopes \ run[p].scopes : run[p].manifest[s] = NoRecord

BackendInspected(p) ==
  run[p].operation = "install" /\ cli # Absent => Inspected(database) # "error"

-----------------------------------------------------------------------------
(* A run until it has the lock.                                            *)

Goes(p, changes) ==
  run' = [run EXCEPT ![p] = [f \in DOMAIN Idle |-> IF f \in DOMAIN changes THEN changes[f] ELSE @[f]]]

\* Reports the failure; the lock is released on every way out.
Leaves(p) ==
  /\ run' = [run EXCEPT ![p] = Idle]
  /\ lock' = IF lock = p THEN "free" ELSE lock

Fails(p) == Leaves(p) /\ UNCHANGED <<installed, schemaVars>>

\* Reads the files and the manifest.
Begin(p, q) ==
  /\ run[p] = Idle
  /\ runs < MaxRuns /\ runs' = runs + 1
  /\ run' = [run EXCEPT ![p] =
       [Idle EXCEPT !.pc = "reading", !.operation = q.operation, !.target = q.target,
          !.scopes = q.scopes, !.removeCLI = q.removeCLI, !.manifest = manifest,
          !.config = [s \in q.scopes |-> config[s]]]]
  /\ UNCHANGED <<manifest, config, payload, cli, lock, schemaVars>>

InspectedAccepted(p) ==
  /\ \A s \in run[p].scopes :
       ScopeAccepted(run[p].operation, run[p].target, s, run[p].manifest[s], run[p].config[s])
  /\ NoDowngrade(p) /\ SharedImpact(p) /\ BackendInspected(p)

\* Looks for the CLI and inspects the database, then decides.
Preflight(p) ==
  /\ run[p].pc = "reading"
  /\ \/ /\ InspectedAccepted(p)
        /\ Goes(p, [pc |-> "ready", cli |-> cli])
        /\ UNCHANGED <<installed, lock, schemaVars>>
     \/ ~InspectedAccepted(p) /\ Fails(p)

LockedReadback(p) ==
  /\ run[p].manifest = manifest
  /\ \A s \in run[p].scopes : run[p].config[s] = config[s]
  /\ Accepted(p)

\* Nobody else saves the manifest from here on, so it is not compared again.
LockManifest(p) ==
  /\ run[p].pc = "ready"
  /\ \/ /\ lock = "free" /\ LockedReadback(p)
        /\ lock' = p
        /\ Goes(p, [pc |-> IF run[p].operation = "install" THEN "intents" ELSE "next",
                    manifest |-> None, todo |-> run[p].scopes])
        /\ UNCHANGED <<installed, schemaVars>>
     \/ (lock # "free" \/ ~LockedReadback(p)) /\ Fails(p)

-----------------------------------------------------------------------------
(* Install and update.                                                     *)

Intent(operation, target, r, text) ==
  [operation |-> operation, target |-> target,
   previous |-> IF operation = "install" THEN text.entry ELSE r.plugin,
   previousSkill |-> r.skill,
   after |-> Managed(text, IF operation = "install" THEN target ELSE Absent)]

NothingToDo(s, r, text, target) ==
  text.entry = target /\ r.skill = target /\ payload[s][target] = "whole"

InstallRecord(s, r, text, target) ==
  CASE r.intent # None ->
         IF Committed(r, text) /\ payload[s][target] = "whole"
         THEN [r EXCEPT !.plugin = target, !.skill = target] ELSE r
    [] r.intent = None ->
         IF NothingToDo(s, r, text, target) THEN r
         ELSE [r EXCEPT !.intent = Intent("install", target, r, text)]

PersistIntent(p) ==
  /\ run[p].pc = "intents"
  /\ \E s \in run[p].todo :
       LET rest == run[p].todo \ {s} IN
         /\ manifest' = [manifest EXCEPT ![s] =
              InstallRecord(s, manifest[s], run[p].config[s], run[p].target)]
         /\ Goes(p, [pc |-> IF rest = {} THEN "cli" ELSE "intents", todo |-> rest])
  /\ UNCHANGED <<config, payload, cli, runs, lock, schemaVars>>

\* The package manager reports failure whether or not it changed anything;
\* what is found installed decides.
InstallCLI(p) ==
  /\ run[p].pc = "cli"
  /\ \/ /\ run[p].cli # run[p].target \/ cli = run[p].target
        /\ cli' = run[p].target
        /\ Goes(p, [pc |-> "scope", cli |-> cli', todo |-> run[p].scopes])
        /\ UNCHANGED <<manifest, config, payload, runs, lock, schemaVars>>
     \/ cli # run[p].target /\ Fails(p)

\* Every scope is preflighted again before each is changed; the payload is
\* staged beside its place and renamed into it.
\* Fault: only a scope without a policy gets one.
NeedsFirstPolicy(p, s) == manifest[s].intent # None /\ manifest[s].skill = Absent

NeedsPolicy(p, s) == manifest[s].intent # None

InstallSkill(p) ==
  /\ run[p].pc = "scope"
  /\ \/ /\ Accepted(p)
        /\ \E s \in run[p].todo :
             /\ payload' = IF NeedsPolicy(p, s)
                           THEN [payload EXCEPT ![s][run[p].target] = "whole"] ELSE payload
             /\ Goes(p, [pc |-> "skill", at |-> s, todo |-> run[p].todo \ {s}])
        /\ UNCHANGED <<manifest, config, cli, runs, lock, schemaVars>>
     \/ ~Accepted(p) /\ Fails(p)

SaveSkill(p) ==
  /\ run[p].pc = "skill"
  /\ LET s == run[p].at IN
       manifest' = IF manifest[s].intent = None THEN manifest
                   ELSE [manifest EXCEPT ![s].skill = run[p].target]
  /\ Goes(p, [pc |-> "config"])
  /\ UNCHANGED <<config, payload, cli, runs, lock, schemaVars>>

-----------------------------------------------------------------------------
(* The configuration file of one scope, for both operations.               *)

Switched(p) == Managed(run[p].config[run[p].at], IntentEntry(manifest[run[p].at].intent))

NoSwitch(p) ==
  manifest[run[p].at].intent # None => Switched(p) = run[p].config[run[p].at]

EntryAsIntended(p) ==
  LET i == manifest[run[p].at].intent IN
    i # None => config[run[p].at].entry = IntentEntry(i)

\* An uninstall takes out only the entry that setup put in.
OwnEntry(p) ==
  LET i == manifest[run[p].at].intent IN
    i.operation = "uninstall" => run[p].config[run[p].at].entry \in {Absent, i.previous}

\* Fault: no comparison before the rename.
FileAssumed(p) == TRUE

\* atomicWrite's second comparison, after which it renames; the first one, of
\* the same texts, could only fail earlier.
FileUnchanged(p) == config[run[p].at] = run[p].config[run[p].at]

CompareConfig(p) ==
  /\ run[p].pc = "config"
  /\ \/ /\ NoSwitch(p) /\ EntryAsIntended(p)
        /\ Goes(p, [pc |-> "plugin"])
        /\ UNCHANGED <<installed, lock, schemaVars>>
     \/ /\ ~NoSwitch(p) /\ OwnEntry(p) /\ FileUnchanged(p)
        /\ Goes(p, [pc |-> "rename"])
        /\ UNCHANGED <<installed, lock, schemaVars>>
     \/ /\ IF NoSwitch(p) THEN ~EntryAsIntended(p) ELSE ~(OwnEntry(p) /\ FileUnchanged(p))
        /\ Fails(p)

RenameConfig(p) ==
  /\ run[p].pc = "rename"
  /\ config' = [config EXCEPT ![run[p].at] = Switched(p)]
  /\ Goes(p, [pc |-> "renamed", missed |-> FALSE])
  /\ UNCHANGED <<manifest, payload, cli, runs, lock, schemaVars>>

ReadConfig(p) ==
  /\ run[p].pc = "renamed"
  /\ \/ /\ config[run[p].at] = Switched(p)
        /\ Goes(p, [pc |-> "plugin", config |-> [run[p].config EXCEPT ![run[p].at] = Switched(p)]])
        /\ UNCHANGED <<installed, lock, schemaVars>>
     \/ config[run[p].at] # Switched(p) /\ Fails(p)

SavePlugin(p) ==
  /\ run[p].pc = "plugin"
  /\ LET s == run[p].at IN
       manifest' = IF Installing(manifest[s])
                   THEN [manifest EXCEPT ![s].plugin = run[p].target] ELSE manifest
  /\ Goes(p, [pc |-> "retire"])
  /\ UNCHANGED <<config, payload, cli, runs, lock, schemaVars>>

-----------------------------------------------------------------------------
(* Payloads that go: an update's previous one, an uninstall's only one.    *)

Retired(p) ==
  LET r == manifest[run[p].at] IN
    CASE run[p].operation = "uninstall" -> r.skill
      [] run[p].operation = "install" ->
           IF r.intent = None \/ r.intent.previousSkill = r.skill THEN Absent
           ELSE r.intent.previousSkill

\* Whole, so its digest is the recorded one, and no configuration selects it.
Removable(p) ==
  /\ Retired(p) # Absent
  /\ payload[run[p].at][Retired(p)] = "whole"
  /\ config[run[p].at].entry # Retired(p)

AfterRemoval(p) ==
  IF run[p].operation = "uninstall" THEN [pc |-> "delete"]
  ELSE [pc |-> IF run[p].todo = {} THEN "backend" ELSE "scope", at |-> None]

\* rmSync goes through the directory file by file.
BeginRemoval(p) ==
  /\ run[p].pc = "retire"
  /\ \/ /\ Removable(p)
        /\ payload' = [payload EXCEPT ![run[p].at][Retired(p)] = "part"]
        /\ Goes(p, [pc |-> "removing"])
     \/ /\ ~Removable(p)
        /\ Goes(p, AfterRemoval(p))
        /\ UNCHANGED payload
  /\ UNCHANGED <<manifest, config, cli, runs, lock, schemaVars>>

EndRemoval(p) ==
  /\ run[p].pc = "removing"
  /\ payload' = [payload EXCEPT ![run[p].at][Retired(p)] = "none"]
  /\ Goes(p, AfterRemoval(p))
  /\ UNCHANGED <<manifest, config, cli, runs, lock, schemaVars>>

-----------------------------------------------------------------------------
(* The last steps of an install: the database, then the intents.           *)

ChildGone(p) == opener[p] \in {"created", "upgraded", "ready", "refused", "gone"}

PrepareBackend(p) ==
  /\ run[p].pc = "backend"
  /\ \/ /\ Inspected(database) = "ready"
        /\ Goes(p, [pc |-> "clear"])
        /\ UNCHANGED <<installed, lock, schemaVars>>
     \/ /\ Inspected(database) \in {"not_initialized", "upgrade_needed"}
        /\ ChildGone(p)
        /\ Reaches(p, "idle")
        /\ Goes(p, [pc |-> "preparing"])
        /\ UNCHANGED <<installed, lock, database>>
     \/ Inspected(database) = "error" /\ Fails(p)

BackendReadback(p) ==
  /\ run[p].pc = "preparing" /\ ChildGone(p)
  /\ \/ /\ Inspected(database) = "ready"
        /\ Goes(p, [pc |-> "clear"])
        /\ UNCHANGED <<installed, lock, schemaVars>>
     \/ Inspected(database) # "ready" /\ Fails(p)

ClearIntents(p) ==
  /\ run[p].pc = "clear"
  /\ manifest' = [s \in Scopes |->
       IF s \in run[p].scopes THEN [manifest[s] EXCEPT !.intent = None] ELSE manifest[s]]
  /\ Goes(p, [pc |-> "unlock"])
  /\ UNCHANGED <<config, payload, cli, runs, lock, schemaVars>>

Unlock(p) ==
  /\ run[p].pc = "unlock"
  /\ Leaves(p)
  /\ UNCHANGED <<installed, schemaVars>>

-----------------------------------------------------------------------------
(* Uninstall.                                                              *)

UninstallScope(p) ==
  /\ run[p].pc = "next"
  /\ \E s \in run[p].todo :
       /\ manifest' = IF manifest[s].intent # None THEN manifest
                      ELSE [manifest EXCEPT ![s].intent =
                              Intent("uninstall", run[p].target, manifest[s], run[p].config[s])]
       /\ Goes(p, [pc |-> "config", at |-> s, todo |-> run[p].todo \ {s}])
  /\ UNCHANGED <<config, payload, cli, runs, lock, schemaVars>>

DeleteRecord(p) ==
  /\ run[p].pc = "delete"
  /\ manifest' = [manifest EXCEPT ![run[p].at] = NoRecord]
  /\ Goes(p, [pc |-> "next", at |-> None])
  /\ UNCHANGED <<config, payload, cli, runs, lock, schemaVars>>

CLIUnreferenced(p) ==
  Recorded = {} /\ \A s \in run[p].scopes : config[s].entry = Absent

RemoveCLI(p) ==
  /\ run[p].pc = "next" /\ run[p].todo = {}
  /\ \/ /\ run[p].removeCLI => CLIUnreferenced(p)
        /\ cli' = IF run[p].removeCLI THEN Absent ELSE cli
        /\ Goes(p, [pc |-> "unlock"])
        /\ UNCHANGED <<manifest, config, payload, runs, lock, schemaVars>>
     \/ run[p].removeCLI /\ (CLIUnreferenced(p) => run[p].cli # Absent) /\ Fails(p)

-----------------------------------------------------------------------------
(* What nobody schedules.                                                  *)

\* A process that dies leaves its lock file, and its child to itself.
Die(p) ==
  /\ run[p] # Idle
  /\ run' = [run EXCEPT ![p] = Idle]
  /\ lock' = IF lock = p THEN "stale" ELSE lock
  /\ UNCHANGED <<installed, schemaVars>>

\* The user removes the lock of a dead owner, as the message asks.
RemoveStaleLock ==
  /\ lock = "stale"
  /\ lock' = "free"
  /\ UNCHANGED <<installed, run, schemaVars>>

\* A run that has compared the file and not yet renamed misses the edit.
EditConfig(s, entry) ==
  /\ entry \in {config[s].entry, Absent}
  /\ \A t \in Scopes : config[t].note < MaxNotes
  /\ config' = [config EXCEPT ![s] = Text(entry, @.note + 1)]
  /\ run' = [p \in Installers |->
       IF run[p].pc = "rename" /\ run[p].at = s THEN [run[p] EXCEPT !.missed = TRUE] ELSE run[p]]
  /\ UNCHANGED <<manifest, payload, cli, runs, lock, schemaVars>>

\* A child of a run, or a command that the user starts beside it.
Opens(o) ==
  /\ OpenFile(o)
  /\ o \notin Installers => runs < MaxRuns
  /\ runs' = IF o \in Installers THEN runs ELSE runs + 1
  /\ UNCHANGED <<manifest, config, payload, cli, lock, run>>

Opening(o) ==
  /\ BeginPrepare(o) \/ EndPrepare(o) \/ GiveUp(o)
  /\ UNCHANGED <<installed, lock, run>>

Installer(p) ==
  \/ \E q \in Requests : Begin(p, q)
  \/ Preflight(p) \/ LockManifest(p) \/ PersistIntent(p) \/ InstallCLI(p)
  \/ InstallSkill(p) \/ SaveSkill(p) \/ CompareConfig(p) \/ RenameConfig(p) \/ ReadConfig(p)
  \/ SavePlugin(p) \/ BeginRemoval(p) \/ EndRemoval(p) \/ PrepareBackend(p)
  \/ BackendReadback(p) \/ ClearIntents(p) \/ Unlock(p) \/ UninstallScope(p)
  \/ DeleteRecord(p) \/ RemoveCLI(p) \/ Die(p)

SetupNext ==
  \/ \E p \in Installers : Installer(p)
  \/ RemoveStaleLock
  \/ \E s \in Scopes, entry \in Versions \cup {Absent} : EditConfig(s, entry)
  \/ \E o \in Openers : Opens(o)
  \/ \E o \in Openers : Opening(o)

SetupSpec == SetupInit /\ [][SetupNext]_setupVars

-----------------------------------------------------------------------------
(* Properties.                                                             *)

\* A host that loads a configuration finds the policy its entry selects, at
\* every step of every run and wherever one dies: the payload is in place
\* before the switch and goes after it (lifecycle.mjs:92-100, 128-129).
PolicyPresent ==
  \A s \in Scopes, v \in Versions : config[s].entry = v => payload[s][v] = "whole"

\* A scope with no pending operation was set up for the CLI that is installed,
\* whichever scopes the runs since then selected (update.mjs:21-28).
ScopesMatchCLI ==
  \A s \in Recorded : manifest[s].intent = None => manifest[s].skill = cli

\* An operation that stopped anywhere passes preflight when it is started
\* again, if the file is as the intent found it or would leave it
\* (docs/INSTALL.md:192: "Resume incomplete work with the same explicit --to").
Resumable ==
  \A s \in Recorded :
    LET i == manifest[s].intent IN
      /\ lock \notin Installers /\ i # None
      /\ config[s] \in {i.after, Managed(i.after, i.previous)}
      => ScopeAccepted(i.operation, i.target, s, manifest[s], config[s])

\* A user's edit is overwritten only if it was made between the last
\* comparison of the file and its rename (files.mjs:34-35).
EditsRetained ==
  [][\A s \in Scopes : config'[s].note < config[s].note =>
       \E p \in Installers : run[p].pc = "rename" /\ run[p].at = s /\ run[p].missed]_setupVars
=============================================================================
