------------------------ MODULE SetupInstallerProofs ------------------------
(***************************************************************************)
(* Proofs about the database file while setup and other commands open it,  *)
(* and about the configuration files while setup switches them, for every  *)
(* set of scopes, versions, processes and command lines.                   *)
(***************************************************************************)
EXTENDS SetupInstaller, TLAPS

-----------------------------------------------------------------------------
(* The database file and its openers.                                      *)

Stages ==
  {"idle", "opened", "creating", "upgrading", "checking", "refusing",
   "created", "upgraded", "ready", "refused", "gone"}

\* What an opener in a transaction found is still so: the write lock is its
\* own, and nobody creates the file or removes it under an open handle.
SchemaInv ==
  /\ database \in {Missing, Empty} \cup Schemas
  /\ opener \in [Openers -> Stages]
  /\ \A o \in Openers : opener[o] = "opened" \/ InTransaction(o) => database # Missing
  /\ \A o, p \in Openers : InTransaction(o) /\ InTransaction(p) => o = p
  /\ \A o \in Openers : InTransaction(o) => opener[o] = Lifecycle(database)

LEMMA LifecycleStages == \A d : Lifecycle(d) \in {"creating", "upgrading", "checking", "refusing"}
  BY DEF Lifecycle

LEMMA ReachesStage ==
  ASSUME SchemaInv, NEW o \in Openers, NEW stage \in Stages, Reaches(o, stage)
  PROVE  /\ opener' \in [Openers -> Stages]
         /\ opener'[o] = stage
         /\ \A p \in Openers \ {o} : opener'[p] = opener[p]
  BY DEF SchemaInv, Reaches

LEMMA UpgradedSchema ==
  ASSUME NEW d \in Schemas
  PROVE  /\ [d EXCEPT !.minor = 2] \in Schemas
         /\ [d EXCEPT !.minor = 2] = Schema(2, d.found)
         /\ d.minor = 1 => d = Schema(1, d.found)
  BY DEF Schemas, Schema

LEMMA SchemaOpenFile ==
  ASSUME SchemaInv, NEW o \in Openers, OpenFile(o)
  PROVE  SchemaInv'
  <1>1. "opened" \in Stages
    BY DEF Stages
  <1>2. /\ opener' \in [Openers -> Stages]
        /\ opener'[o] = "opened"
        /\ \A p \in Openers \ {o} : opener'[p] = opener[p]
    BY <1>1, ReachesStage DEF OpenFile
  <1>3. database' # Missing /\ database' \in {Missing, Empty} \cup Schemas
    BY FilesAssumption DEF OpenFile, SchemaInv
  <1>4. \A p \in Openers : InTransaction(p)' => p # o /\ InTransaction(p)
    BY <1>2 DEF InTransaction
  <1>5. \A p \in Openers : InTransaction(p) => database' = database
    BY DEF OpenFile, SchemaInv
  <1>6. \A p \in Openers : InTransaction(p)' => opener'[p] = Lifecycle(database')
    BY <1>2, <1>4, <1>5 DEF SchemaInv
  <1> QED
    BY <1>2, <1>3, <1>4, <1>6 DEF SchemaInv

LEMMA SchemaBeginPrepare ==
  ASSUME SchemaInv, NEW o \in Openers, BeginPrepare(o)
  PROVE  SchemaInv'
  <1>1. Lifecycle(database) \in Stages
    BY LifecycleStages DEF Stages
  <1>2. /\ opener' \in [Openers -> Stages]
        /\ opener'[o] = Lifecycle(database)
        /\ \A p \in Openers \ {o} : opener'[p] = opener[p]
    BY <1>1, ReachesStage DEF BeginPrepare
  <1>3. database' = database /\ database # Missing
    BY DEF BeginPrepare, SchemaInv
  <1>4. \A p \in Openers : InTransaction(p)' => p = o
    BY <1>2 DEF BeginPrepare, WriteLockFree, InTransaction
  <1>5. \A p \in Openers : InTransaction(p)' => opener'[p] = Lifecycle(database')
    BY <1>2, <1>3, <1>4
  <1> QED
    BY <1>2, <1>3, <1>4, <1>5 DEF SchemaInv

\* What a transaction commits is what the opener found, created or upgraded.
LEMMA EndPrepareForward ==
  ASSUME SchemaInv, NEW o \in Openers, EndPrepare(o), database' # database
  PROVE  /\ <<database, database'>> \in Forward
         /\ database' \in Schemas
  <1>1. Succeeds(o) /\ database' = Prepared(o) /\ InTransaction(o)
    BY DEF EndPrepare
  <1>2. CASE opener[o] = "creating"
    <2>1. database = Empty /\ database' = Baseline
      BY <1>1, <1>2 DEF Succeeds, Prepared
    <2> QED
      BY <2>1 DEF Forward, Baseline, Schema, Schemas
  <1>3. CASE opener[o] = "upgrading"
    <2>1. Validated(database) /\ NeedsUpgrade(database)
      BY <1>1, <1>3 DEF SchemaInv, Lifecycle
    <2>2. database \in Schemas /\ database.minor = 1
      BY <2>1 DEF SchemaInv, Validated, Files, NeedsUpgrade
    <2>3. database' = [database EXCEPT !.minor = 2]
      BY <1>1, <1>3 DEF Prepared
    <2>4. database.found \in SUBSET Additions
      BY <2>2 DEF Schemas
    <2> QED
      BY <2>2, <2>3, <2>4, UpgradedSchema DEF Forward
  <1>4. CASE opener[o] \in {"checking", "refusing"}
    BY <1>1, <1>4 DEF Succeeds, Prepared
  <1> QED
    BY <1>1, <1>2, <1>3, <1>4 DEF InTransaction

LEMMA SchemaEndPrepare ==
  ASSUME SchemaInv, NEW o \in Openers, EndPrepare(o)
  PROVE  SchemaInv'
  <1>1. PICK stage \in {"created", "upgraded", "ready", "refused"} : Reaches(o, stage)
    BY DEF EndPrepare, Outcome, InTransaction, Succeeds
  <1>2. stage \in Stages
    BY DEF Stages
  <1>3. /\ opener' \in [Openers -> Stages]
        /\ opener'[o] = stage
        /\ \A p \in Openers \ {o} : opener'[p] = opener[p]
    BY <1>1, <1>2, ReachesStage
  <1>4. \A p \in Openers : ~InTransaction(p)'
    BY <1>3 DEF SchemaInv, EndPrepare, InTransaction
  <1>5. database # Missing
    BY DEF SchemaInv, EndPrepare
  <1>6. database' \in {Empty} \cup Schemas
    BY <1>5, EndPrepareForward DEF SchemaInv
  <1>7. database' # Missing
    BY <1>6, FilesAssumption
  <1> QED
    BY <1>3, <1>4, <1>6, <1>7 DEF SchemaInv

LEMMA SchemaGiveUp ==
  ASSUME SchemaInv, NEW o \in Openers, NEW stage \in {"gone", "idle"}, Reaches(o, stage),
         UNCHANGED database
  PROVE  SchemaInv'
  <1>1. stage \in Stages
    BY DEF Stages
  <1>2. /\ opener' \in [Openers -> Stages]
        /\ opener'[o] = stage
        /\ \A p \in Openers \ {o} : opener'[p] = opener[p]
    BY <1>1, ReachesStage
  <1>3. \A p \in Openers : InTransaction(p)' => p # o /\ InTransaction(p)
    BY <1>2 DEF InTransaction
  <1> QED
    BY <1>2, <1>3 DEF SchemaInv
-----------------------------------------------------------------------------
(* The fields of a run after a step.                                       *)

Moved(p, pc, todo, at, text, missed) ==
  /\ DOMAIN run'[p] = DOMAIN Idle
  /\ run'[p].pc = pc /\ run'[p].todo = todo /\ run'[p].at = at
  /\ run'[p].config = text /\ run'[p].missed = missed
  /\ run'[p].operation = run[p].operation /\ run'[p].target = run[p].target
  /\ run'[p].scopes = run[p].scopes

LEMMA GoesFields ==
  ASSUME DOMAIN run = Installers, NEW p \in Installers, NEW changes, Goes(p, changes)
  PROVE  /\ run'[p] = [f \in DOMAIN Idle |-> IF f \in DOMAIN changes THEN changes[f] ELSE run[p][f]]
         /\ \A q \in Installers \ {p} : run'[q] = run[q]
         /\ DOMAIN run' = Installers
  BY DEF Goes

LEMMA GoesPc ==
  ASSUME DOMAIN run = Installers, NEW p \in Installers, NEW x,
         Goes(p, [pc |-> x])
  PROVE  Moved(p, x, run[p].todo, run[p].at, run[p].config, run[p].missed)
  <1> DEFINE changes == [pc |-> x]
  <1>1. run'[p] = [f \in DOMAIN Idle |-> IF f \in DOMAIN changes THEN changes[f] ELSE run[p][f]]
    BY GoesFields
  <1> QED
    BY <1>1 DEF Idle, Moved

LEMMA GoesCli ==
  ASSUME DOMAIN run = Installers, NEW p \in Installers, NEW x, NEW y,
         Goes(p, [pc |-> x, cli |-> y])
  PROVE  Moved(p, x, run[p].todo, run[p].at, run[p].config, run[p].missed)
  <1> DEFINE changes == [pc |-> x, cli |-> y]
  <1>1. run'[p] = [f \in DOMAIN Idle |-> IF f \in DOMAIN changes THEN changes[f] ELSE run[p][f]]
    BY GoesFields
  <1> QED
    BY <1>1 DEF Idle, Moved

LEMMA GoesLocked ==
  ASSUME DOMAIN run = Installers, NEW p \in Installers, NEW x, NEW y, NEW z,
         Goes(p, [pc |-> x, manifest |-> y, todo |-> z])
  PROVE  Moved(p, x, z, run[p].at, run[p].config, run[p].missed)
  <1> DEFINE changes == [pc |-> x, manifest |-> y, todo |-> z]
  <1>1. run'[p] = [f \in DOMAIN Idle |-> IF f \in DOMAIN changes THEN changes[f] ELSE run[p][f]]
    BY GoesFields
  <1> QED
    BY <1>1 DEF Idle, Moved

LEMMA GoesTodo ==
  ASSUME DOMAIN run = Installers, NEW p \in Installers, NEW x, NEW y,
         Goes(p, [pc |-> x, todo |-> y])
  PROVE  Moved(p, x, y, run[p].at, run[p].config, run[p].missed)
  <1> DEFINE changes == [pc |-> x, todo |-> y]
  <1>1. run'[p] = [f \in DOMAIN Idle |-> IF f \in DOMAIN changes THEN changes[f] ELSE run[p][f]]
    BY GoesFields
  <1> QED
    BY <1>1 DEF Idle, Moved

LEMMA GoesCliTodo ==
  ASSUME DOMAIN run = Installers, NEW p \in Installers, NEW x, NEW y, NEW z,
         Goes(p, [pc |-> x, cli |-> y, todo |-> z])
  PROVE  Moved(p, x, z, run[p].at, run[p].config, run[p].missed)
  <1> DEFINE changes == [pc |-> x, cli |-> y, todo |-> z]
  <1>1. run'[p] = [f \in DOMAIN Idle |-> IF f \in DOMAIN changes THEN changes[f] ELSE run[p][f]]
    BY GoesFields
  <1> QED
    BY <1>1 DEF Idle, Moved

LEMMA GoesAtTodo ==
  ASSUME DOMAIN run = Installers, NEW p \in Installers, NEW x, NEW y, NEW z,
         Goes(p, [pc |-> x, at |-> y, todo |-> z])
  PROVE  Moved(p, x, z, y, run[p].config, run[p].missed)
  <1> DEFINE changes == [pc |-> x, at |-> y, todo |-> z]
  <1>1. run'[p] = [f \in DOMAIN Idle |-> IF f \in DOMAIN changes THEN changes[f] ELSE run[p][f]]
    BY GoesFields
  <1> QED
    BY <1>1 DEF Idle, Moved

LEMMA GoesMissed ==
  ASSUME DOMAIN run = Installers, NEW p \in Installers, NEW x, NEW y,
         Goes(p, [pc |-> x, missed |-> y])
  PROVE  Moved(p, x, run[p].todo, run[p].at, run[p].config, y)
  <1> DEFINE changes == [pc |-> x, missed |-> y]
  <1>1. run'[p] = [f \in DOMAIN Idle |-> IF f \in DOMAIN changes THEN changes[f] ELSE run[p][f]]
    BY GoesFields
  <1> QED
    BY <1>1 DEF Idle, Moved

LEMMA GoesConfig ==
  ASSUME DOMAIN run = Installers, NEW p \in Installers, NEW x, NEW y,
         Goes(p, [pc |-> x, config |-> y])
  PROVE  Moved(p, x, run[p].todo, run[p].at, y, run[p].missed)
  <1> DEFINE changes == [pc |-> x, config |-> y]
  <1>1. run'[p] = [f \in DOMAIN Idle |-> IF f \in DOMAIN changes THEN changes[f] ELSE run[p][f]]
    BY GoesFields
  <1> QED
    BY <1>1 DEF Idle, Moved

LEMMA GoesAt ==
  ASSUME DOMAIN run = Installers, NEW p \in Installers, NEW x, NEW y,
         Goes(p, [pc |-> x, at |-> y])
  PROVE  Moved(p, x, run[p].todo, y, run[p].config, run[p].missed)
  <1> DEFINE changes == [pc |-> x, at |-> y]
  <1>1. run'[p] = [f \in DOMAIN Idle |-> IF f \in DOMAIN changes THEN changes[f] ELSE run[p][f]]
    BY GoesFields
  <1> QED
    BY <1>1 DEF Idle, Moved
-----------------------------------------------------------------------------
(* The invariant of setup.                                                 *)

ConfigTexts == [entry : Versions \cup {Absent}, note : Nat]

FilesTyped ==
  /\ config \in [Scopes -> ConfigTexts]
  /\ payload \in [Scopes -> [Versions -> {"none", "part", "whole"}]]
  /\ DOMAIN manifest = Scopes
  /\ \A s \in Scopes : DOMAIN manifest[s] = DOMAIN NoRecord

RunTyped(p) ==
  /\ DOMAIN run[p] = DOMAIN Idle
  /\ run[p].pc # "idle" =>
       /\ run[p].operation \in {"install", "uninstall"}
       /\ run[p].target \in Versions
       /\ run[p].scopes \subseteq Scopes
       /\ run[p].config \in [run[p].scopes -> ConfigTexts]

\* The steps of a run that has the lock, those of one operation only, and
\* those about the scope it is at.
InstallSteps == {"intents", "cli", "scope", "skill", "backend", "preparing", "clear"}
UninstallSteps == {"next", "delete"}
ScopeSteps == {"skill", "config", "rename", "renamed", "plugin", "retire", "removing", "delete"}
LockedSteps == InstallSteps \cup UninstallSteps \cup ScopeSteps \cup {"unlock"}

Agrees(p, s) ==
  manifest[s].intent # None =>
    /\ manifest[s].intent.operation = run[p].operation
    /\ manifest[s].intent.target = run[p].target

\* What a run with the lock knows: nobody else changes the manifest and the
\* payloads, its intents are its own, the policy it switches to is in place,
\* it has missed no edit that is not marked as missed, and nothing selects
\* the payload it removes.
Holds(p) ==
  run[p].pc \in LockedSteps =>
    /\ lock = p
    /\ run[p].todo \subseteq run[p].scopes
    /\ run[p].pc \in InstallSteps => run[p].operation = "install"
    /\ run[p].pc \in UninstallSteps => run[p].operation = "uninstall"
    /\ \A s \in run[p].scopes : Agrees(p, s)
    /\ run[p].pc \in ScopeSteps => run[p].at \in run[p].scopes
    /\ run[p].pc \in {"skill", "config", "rename"} /\ run[p].operation = "install"
         /\ manifest[run[p].at].intent # None => payload[run[p].at][run[p].target] = "whole"
    /\ run[p].pc = "rename" =>
         /\ manifest[run[p].at].intent # None
         /\ run[p].missed \/ config[run[p].at] = run[p].config[run[p].at]
    /\ run[p].pc = "removing" =>
         Retired(p) # Absent /\ config[run[p].at].entry # Retired(p)

SetupInv ==
  /\ FilesTyped
  /\ DOMAIN run = Installers
  /\ \A p \in Installers : RunTyped(p) /\ Holds(p)
  /\ PolicyPresent

LEMMA AbsentIsNoVersion == Absent \notin Versions
  BY VersionsAssumption DEF Absent

LEMMA SetupInitInv == SetupInit => SetupInv
  <1> SUFFICES ASSUME SetupInit PROVE SetupInv
    OBVIOUS
  <1>1. FilesTyped
    <2>1. \A n \in 0 .. MaxNotes : Text(Absent, n) \in ConfigTexts
      BY NotesAssumption DEF Text, ConfigTexts
    <2>2. config \in [Scopes -> ConfigTexts]
      BY <2>1 DEF SetupInit
    <2> QED
      BY <2>2 DEF SetupInit, FilesTyped
  <1>2. ASSUME NEW p \in Installers PROVE RunTyped(p) /\ Holds(p)
    <2>1. run[p] = Idle /\ Idle.pc = "idle"
      BY DEF SetupInit, Idle
    <2> QED
      BY <2>1 DEF RunTyped, Holds, LockedSteps, InstallSteps, UninstallSteps, ScopeSteps
  <1>3. PolicyPresent
    <2>1. \A s \in Scopes : config[s].entry = Absent
      BY DEF SetupInit, Text
    <2> QED
      BY <2>1, AbsentIsNoVersion DEF PolicyPresent
  <1> QED
    BY <1>1, <1>2, <1>3 DEF SetupInv, SetupInit

\* What one process does leaves what the others know alone: they have no lock,
\* or no file changes.
LEMMA Others ==
  ASSUME SetupInv, NEW p \in Installers,
         \A q \in Installers \ {p} : run'[q] = run[q],
         \/ lock \in {p, "free"}
         \/ UNCHANGED <<config, payload, manifest, lock>>,
         NEW q \in Installers \ {p}
  PROVE  RunTyped(q)' /\ Holds(q)'
  <1>1. run'[q] = run[q] /\ RunTyped(q) /\ Holds(q)
    BY DEF SetupInv
  <1>2. RunTyped(q)'
    BY <1>1 DEF RunTyped
  <1>3. CASE lock \in {p, "free"}
    <2>1. lock # q
      BY <1>3, InstallersAssumption
    <2>2. run[q].pc \notin LockedSteps
      BY <1>1, <2>1 DEF Holds
    <2> QED
      BY <1>1, <1>2, <2>2 DEF Holds
  <1>4. CASE UNCHANGED <<config, payload, manifest, lock>>
    <2>1. Retired(q)' = Retired(q)
      BY <1>1, <1>4 DEF Retired
    <2>2. \A s : Agrees(q, s)' <=> Agrees(q, s)
      BY <1>1, <1>4 DEF Agrees
    <2>3. Holds(q)'
      BY <1>1, <1>4, <2>1, <2>2 DEF Holds
    <2> QED
      BY <1>2, <2>3
  <1> QED
    BY <1>3, <1>4

LEMMA Assemble ==
  ASSUME SetupInv, NEW p \in Installers, DOMAIN run' = Installers,
         \A q \in Installers \ {p} : run'[q] = run[q],
         \/ lock \in {p, "free"}
         \/ UNCHANGED <<config, payload, manifest, lock>>,
         FilesTyped', RunTyped(p)', Holds(p)', PolicyPresent'
  PROVE  SetupInv'
  BY Others DEF SetupInv

LEMMA FilesKept ==
  ASSUME SetupInv, UNCHANGED <<config, payload, manifest>>
  PROVE  FilesTyped' /\ PolicyPresent'
  BY DEF SetupInv, FilesTyped, PolicyPresent

-----------------------------------------------------------------------------
(* The steps of a run, up to the lock, and the ways out of it.             *)

LEMMA LeavesInv ==
  ASSUME SetupInv, NEW p \in Installers, run' = [run EXCEPT ![p] = Idle],
         lock' \in {lock, "free", "stale"}, lock' # lock => lock = p,
         UNCHANGED <<config, payload, manifest>>
  PROVE  SetupInv'
  <1>1. /\ DOMAIN run' = Installers /\ run'[p] = Idle
        /\ \A q \in Installers \ {p} : run'[q] = run[q]
    BY DEF SetupInv
  <1>2. RunTyped(p)' /\ Holds(p)'
    BY <1>1 DEF Idle, RunTyped, Holds, LockedSteps, InstallSteps, UninstallSteps, ScopeSteps
  <1>3. lock = p \/ UNCHANGED <<config, payload, manifest, lock>>
    OBVIOUS
  <1> QED
    BY <1>1, <1>2, <1>3, FilesKept, Assemble

LEMMA FailsInv ==
  ASSUME SetupInv, NEW p \in Installers, Leaves(p), UNCHANGED <<config, payload, manifest>>
  PROVE  SetupInv'
  BY LeavesInv DEF Leaves

LEMMA BeginInv ==
  ASSUME SetupInv, NEW p \in Installers, NEW q \in Requests, Begin(p, q)
  PROVE  SetupInv'
  <1> DEFINE texts == [s \in q.scopes |-> config[s]]
  <1>1. /\ DOMAIN run' = Installers
        /\ \A o \in Installers \ {p} : run'[o] = run[o]
        /\ run'[p] = [Idle EXCEPT !.pc = "reading", !.operation = q.operation, !.target = q.target,
                        !.scopes = q.scopes, !.removeCLI = q.removeCLI, !.manifest = manifest,
                        !.config = texts]
    BY DEF SetupInv, Begin
  <1>2. /\ DOMAIN run'[p] = DOMAIN Idle /\ run'[p].pc = "reading" /\ run'[p].operation = q.operation
        /\ run'[p].target = q.target /\ run'[p].scopes = q.scopes /\ run'[p].config = texts
    BY <1>1 DEF Idle
  <1>3. texts \in [q.scopes -> ConfigTexts]
    BY RequestsAssumption DEF SetupInv, FilesTyped
  <1> HIDE DEF texts
  <1>4. RunTyped(p)'
    BY <1>2, <1>3, RequestsAssumption DEF RunTyped
  <1>5. Holds(p)'
    BY <1>2 DEF Holds, LockedSteps, InstallSteps, UninstallSteps, ScopeSteps
  <1>6. UNCHANGED <<config, payload, manifest, lock>>
    BY DEF Begin
  <1> QED
    BY <1>1, <1>4, <1>5, <1>6, FilesKept, Assemble

LEMMA PreflightInv ==
  ASSUME SetupInv, NEW p \in Installers, Preflight(p)
  PROVE  SetupInv'
  <1>1. CASE Fails(p)
    BY <1>1, FailsInv DEF Fails, installed
  <1>2. CASE Goes(p, [pc |-> "ready", cli |-> cli]) /\ UNCHANGED <<installed, lock, schemaVars>>
    <2>1. Moved(p, "ready", run[p].todo, run[p].at, run[p].config, run[p].missed)
      BY <1>2, GoesCli DEF SetupInv
    <2>2. RunTyped(p)'
      BY <2>1 DEF SetupInv, Preflight, RunTyped, Moved
    <2>3. Holds(p)'
      BY <2>1 DEF Moved, Holds, LockedSteps, InstallSteps, UninstallSteps, ScopeSteps
    <2>4. DOMAIN run' = Installers /\ \A q \in Installers \ {p} : run'[q] = run[q]
      BY <1>2, GoesFields DEF SetupInv
    <2>5. UNCHANGED <<config, payload, manifest, lock>>
      BY <1>2 DEF installed
    <2> QED
      BY <2>2, <2>3, <2>4, <2>5, FilesKept, Assemble
  <1> QED
    BY <1>1, <1>2 DEF Preflight

LEMMA LockManifestInv ==
  ASSUME SetupInv, NEW p \in Installers, LockManifest(p)
  PROVE  SetupInv'
  <1>1. CASE Fails(p)
    BY <1>1, FailsInv DEF Fails, installed
  <1>2. CASE ~Fails(p)
    <2> DEFINE pc == IF run[p].operation = "install" THEN "intents" ELSE "next"
    <2>1. /\ lock = "free" /\ LockedReadback(p) /\ lock' = p /\ UNCHANGED installed
          /\ Goes(p, [pc |-> pc, manifest |-> None, todo |-> run[p].scopes])
      BY <1>2 DEF LockManifest
    <2>2. Moved(p, pc, run[p].scopes, run[p].at, run[p].config, run[p].missed)
      BY <2>1, GoesLocked DEF SetupInv
    <2>3. RunTyped(p)'
      BY <2>2 DEF SetupInv, LockManifest, RunTyped, Moved
    <2>4. \A s \in run[p].scopes : Agrees(p, s)
      BY <2>1 DEF LockedReadback, Accepted, ScopeAccepted, Agrees
    <2>5. \A s \in run'[p].scopes : Agrees(p, s)'
      BY <2>1, <2>2, <2>4 DEF Agrees, Moved, installed
    <2>6. run[p].operation \in {"install", "uninstall"}
      BY DEF SetupInv, RunTyped, LockManifest
    <2>7. Holds(p)'
      BY <2>1, <2>2, <2>5, <2>6 DEF Moved, Holds, InstallSteps, UninstallSteps, ScopeSteps
    <2>8. DOMAIN run' = Installers /\ \A q \in Installers \ {p} : run'[q] = run[q]
      BY <2>1, GoesFields DEF SetupInv
    <2>9. UNCHANGED <<config, payload, manifest>>
      BY <2>1 DEF installed
    <2> QED
      BY <2>1, <2>3, <2>7, <2>8, <2>9, FilesKept, Assemble
  <1> QED
    BY <1>1, <1>2

-----------------------------------------------------------------------------
(* The steps of a run with the lock.                                       *)

LEMMA LockHeld ==
  ASSUME SetupInv, NEW p \in Installers, run[p].pc \in LockedSteps
  PROVE  /\ lock = p /\ RunTyped(p) /\ Holds(p)
         /\ run[p].pc # "idle"
  BY DEF SetupInv, Holds, LockedSteps, InstallSteps, UninstallSteps, ScopeSteps

\* A step that only takes the run further.
LEMMA FurtherInv ==
  ASSUME SetupInv, NEW p \in Installers, run[p].pc \in LockedSteps,
         NEW pc \in LockedSteps \ {"rename", "removing"},
         pc \in InstallSteps => run[p].operation = "install",
         pc \in UninstallSteps => run[p].operation = "uninstall",
         NEW todo \in SUBSET run[p].todo,
         NEW at, pc \in ScopeSteps => at \in run[p].scopes,
         pc \in {"skill", "config"} /\ run[p].operation = "install"
           /\ manifest'[at].intent # None => payload'[at][run[p].target] = "whole",
         NEW texts \in [run[p].scopes -> ConfigTexts], NEW missed,
         Moved(p, pc, todo, at, texts, missed),
         DOMAIN run' = Installers, \A q \in Installers \ {p} : run'[q] = run[q],
         \A s \in run[p].scopes : Agrees(p, s)',
         UNCHANGED lock, FilesTyped', PolicyPresent'
  PROVE  SetupInv'
  <1>1. lock = p /\ RunTyped(p) /\ Holds(p) /\ run[p].pc # "idle"
    BY LockHeld
  <1>2. RunTyped(p)'
    BY <1>1 DEF RunTyped, Moved
  <1>3. run[p].todo \subseteq run[p].scopes
    BY <1>1 DEF Holds
  <1>4. Holds(p)'
    BY <1>1, <1>3 DEF Holds, Moved
  <1> QED
    BY <1>1, <1>2, <1>4, Assemble

\* The same when no file of the scopes changes.
LEMMA OnlyFurtherInv ==
  ASSUME SetupInv, NEW p \in Installers, run[p].pc \in LockedSteps,
         NEW pc \in LockedSteps \ {"rename", "removing", "skill", "config"},
         pc \in InstallSteps => run[p].operation = "install",
         pc \in UninstallSteps => run[p].operation = "uninstall",
         NEW todo \in SUBSET run[p].todo,
         NEW at, pc \in ScopeSteps => at \in run[p].scopes,
         NEW texts \in [run[p].scopes -> ConfigTexts], NEW missed,
         Moved(p, pc, todo, at, texts, missed),
         DOMAIN run' = Installers, \A q \in Installers \ {p} : run'[q] = run[q],
         UNCHANGED <<lock, config, payload, manifest>>
  PROVE  SetupInv'
  <1>1. Holds(p) /\ \A s \in run[p].scopes : Agrees(p, s)
    BY LockHeld DEF Holds
  <1>2. \A s \in run[p].scopes : Agrees(p, s)'
    BY <1>1 DEF Agrees, Moved
  <1>3. FilesTyped' /\ PolicyPresent'
    BY FilesKept
  <1> QED
    BY <1>2, <1>3, FurtherInv

LEMMA InstallRecordShape ==
  ASSUME NEW s, NEW r, DOMAIN r = DOMAIN NoRecord, NEW text, NEW target
  PROVE  /\ DOMAIN InstallRecord(s, r, text, target) = DOMAIN NoRecord
         /\ InstallRecord(s, r, text, target).intent # None =>
              \/ InstallRecord(s, r, text, target).intent = r.intent /\ r.intent # None
              \/ InstallRecord(s, r, text, target).intent = Intent("install", target, r, text)
  BY DEF InstallRecord, NoRecord

LEMMA IntentFields ==
  ASSUME NEW operation, NEW target, NEW r, NEW text
  PROVE  /\ Intent(operation, target, r, text).operation = operation
         /\ Intent(operation, target, r, text).target = target
  BY DEF Intent

LEMMA PersistIntentInv ==
  ASSUME SetupInv, NEW p \in Installers, PersistIntent(p)
  PROVE  SetupInv'
  <1>1. run[p].pc \in LockedSteps /\ run[p].pc = "intents"
    BY DEF PersistIntent, LockedSteps, InstallSteps
  <1>2. lock = p /\ RunTyped(p) /\ Holds(p) /\ run[p].operation = "install"
        /\ run[p].todo \subseteq run[p].scopes /\ run[p].scopes \subseteq Scopes
    BY <1>1, LockHeld DEF Holds, RunTyped, InstallSteps
  <1>3. PICK s \in run[p].todo :
          /\ manifest' = [manifest EXCEPT ![s] =
               InstallRecord(s, manifest[s], run[p].config[s], run[p].target)]
          /\ Goes(p, [pc |-> IF run[p].todo \ {s} = {} THEN "cli" ELSE "intents",
                      todo |-> run[p].todo \ {s}])
    BY DEF PersistIntent
  <1> DEFINE pc == IF run[p].todo \ {s} = {} THEN "cli" ELSE "intents"
             record == InstallRecord(s, manifest[s], run[p].config[s], run[p].target)
  <1>4. s \in Scopes /\ DOMAIN manifest[s] = DOMAIN NoRecord
    BY <1>2, <1>3 DEF SetupInv, FilesTyped
  <1>5. /\ DOMAIN record = DOMAIN NoRecord
        /\ record.intent # None =>
             \/ record.intent = manifest[s].intent /\ manifest[s].intent # None
             \/ record.intent = Intent("install", run[p].target, manifest[s], run[p].config[s])
    BY <1>4, InstallRecordShape
  <1> HIDE DEF record
  <1>6. /\ manifest'[s] = record /\ DOMAIN manifest' = Scopes
        /\ \A t \in Scopes \ {s} : manifest'[t] = manifest[t]
    BY <1>3, <1>4 DEF record, SetupInv, FilesTyped
  <1>7. Moved(p, pc, run[p].todo \ {s}, run[p].at, run[p].config, run[p].missed)
        /\ DOMAIN run' = Installers /\ \A q \in Installers \ {p} : run'[q] = run[q]
    BY <1>3, GoesTodo, GoesFields DEF SetupInv
  <1>8. \A t \in run[p].scopes : Agrees(p, t)'
    <2> SUFFICES ASSUME NEW t \in run[p].scopes PROVE Agrees(p, t)'
      OBVIOUS
    <2>1. Agrees(p, t)
      BY <1>1, <1>2 DEF Holds
    <2>2. CASE t = s
      BY <1>2, <1>5, <1>6, <1>7, <2>1, <2>2, IntentFields DEF Agrees, Moved
    <2>3. CASE t # s
      BY <1>2, <1>6, <1>7, <2>1, <2>3 DEF Agrees, Moved
    <2> QED
      BY <2>2, <2>3
  <1>9. UNCHANGED <<config, payload, lock>>
    BY DEF PersistIntent
  <1>10. FilesTyped' /\ PolicyPresent'
    BY <1>5, <1>6, <1>9 DEF SetupInv, FilesTyped, PolicyPresent
  <1>11. pc \in LockedSteps \ {"rename", "removing"} /\ pc \notin UninstallSteps \cup ScopeSteps
    BY DEF LockedSteps, InstallSteps, UninstallSteps, ScopeSteps
  <1>12. run[p].config \in [run[p].scopes -> ConfigTexts]
    BY <1>1, <1>2 DEF RunTyped
  <1> HIDE DEF pc
  <1> QED
    BY <1>1, <1>2, <1>7, <1>8, <1>9, <1>10, <1>11, <1>12, FurtherInv DEF ScopeSteps

LEMMA InstallCLIInv ==
  ASSUME SetupInv, NEW p \in Installers, InstallCLI(p)
  PROVE  SetupInv'
  <1>1. CASE Fails(p)
    BY <1>1, FailsInv DEF Fails, installed
  <1>2. CASE ~Fails(p)
    <2>1. run[p].pc \in LockedSteps /\ run[p].pc = "cli"
      BY DEF InstallCLI, LockedSteps, InstallSteps
    <2>2. Goes(p, [pc |-> "scope", cli |-> cli', todo |-> run[p].scopes])
          /\ UNCHANGED <<manifest, config, payload, lock>>
      BY <1>2 DEF InstallCLI
    <2>3. Moved(p, "scope", run[p].scopes, run[p].at, run[p].config, run[p].missed)
          /\ DOMAIN run' = Installers /\ \A q \in Installers \ {p} : run'[q] = run[q]
      BY <2>2, GoesCliTodo, GoesFields DEF SetupInv
    <2>4. lock = p /\ RunTyped(p) /\ Holds(p) /\ run[p].operation = "install"
      BY <2>1, LockHeld DEF Holds, InstallSteps
    <2>5. RunTyped(p)' /\ (\A s \in run'[p].scopes : Agrees(p, s)')
      BY <2>1, <2>2, <2>3, <2>4 DEF RunTyped, Holds, Agrees, Moved
    <2>6. Holds(p)'
      BY <2>1, <2>2, <2>3, <2>4, <2>5 DEF Holds, Moved, UninstallSteps, ScopeSteps
    <2> QED
      BY <2>2, <2>3, <2>4, <2>5, <2>6, FilesKept, Assemble
  <1> QED
    BY <1>1, <1>2

LEMMA InstallSkillInv ==
  ASSUME SetupInv, NEW p \in Installers, InstallSkill(p)
  PROVE  SetupInv'
  <1>1. CASE Fails(p)
    BY <1>1, FailsInv DEF Fails, installed
  <1>2. CASE ~Fails(p)
    <2>1. run[p].pc \in LockedSteps /\ run[p].pc = "scope"
      BY DEF InstallSkill, LockedSteps, InstallSteps
    <2>2. PICK s \in run[p].todo :
            /\ payload' = IF NeedsPolicy(p, s)
                          THEN [payload EXCEPT ![s][run[p].target] = "whole"] ELSE payload
            /\ Goes(p, [pc |-> "skill", at |-> s, todo |-> run[p].todo \ {s}])
      BY <1>2 DEF InstallSkill
    <2>3. UNCHANGED <<manifest, config, lock>>
      BY <1>2 DEF InstallSkill
    <2>4. Moved(p, "skill", run[p].todo \ {s}, s, run[p].config, run[p].missed)
          /\ DOMAIN run' = Installers /\ \A q \in Installers \ {p} : run'[q] = run[q]
      BY <2>2, GoesAtTodo, GoesFields DEF SetupInv
    <2>5. /\ Holds(p) /\ RunTyped(p) /\ run[p].operation = "install" /\ run[p].target \in Versions
          /\ s \in run[p].scopes /\ s \in Scopes /\ run[p].config \in [run[p].scopes -> ConfigTexts]
      BY <2>1, LockHeld DEF Holds, RunTyped, InstallSteps
    <2>6. /\ payload' \in [Scopes -> [Versions -> {"none", "part", "whole"}]]
          /\ \A t \in Scopes, v \in Versions : payload[t][v] = "whole" => payload'[t][v] = "whole"
          /\ manifest[s].intent # None => payload'[s][run[p].target] = "whole"
      BY <2>2, <2>5 DEF SetupInv, FilesTyped, NeedsPolicy
    <2>7. FilesTyped' /\ PolicyPresent'
      BY <2>3, <2>6 DEF SetupInv, FilesTyped, PolicyPresent
    <2>8. \A t \in run[p].scopes : Agrees(p, t)'
      BY <2>1, <2>3, <2>4, <2>5 DEF Holds, Agrees, Moved
    <2>9. "skill" \in LockedSteps \ {"rename", "removing"} /\ "skill" \notin UninstallSteps
      BY DEF LockedSteps, InstallSteps, UninstallSteps, ScopeSteps
    <2> QED
      BY <2>1, <2>3, <2>4, <2>5, <2>6, <2>7, <2>8, <2>9, FurtherInv
  <1> QED
    BY <1>1, <1>2

\* A record keeps its intent, so the run still agrees with it.
LEMMA RecordKept ==
  ASSUME SetupInv, NEW p \in Installers, NEW s \in Scopes, NEW field \in {"plugin", "skill"}, NEW v,
         manifest' \in {manifest, [manifest EXCEPT ![s] = [@ EXCEPT ![field] = v]]},
         run'[p].operation = run[p].operation, run'[p].target = run[p].target,
         UNCHANGED <<config, payload>>
  PROVE  /\ FilesTyped' /\ PolicyPresent'
         /\ \A t \in Scopes : manifest'[t].intent = manifest[t].intent
         /\ \A t \in Scopes : Agrees(p, t) => Agrees(p, t)'
  <1>1. DOMAIN manifest = Scopes /\ \A t \in Scopes : DOMAIN manifest[t] = {"plugin", "skill", "intent"}
    BY DEF SetupInv, FilesTyped, NoRecord
  <1>2. /\ DOMAIN manifest' = Scopes
        /\ \A t \in Scopes : /\ DOMAIN manifest'[t] = {"plugin", "skill", "intent"}
                             /\ manifest'[t].intent = manifest[t].intent
    BY <1>1
  <1> QED
    BY <1>1, <1>2 DEF SetupInv, FilesTyped, PolicyPresent, NoRecord, Agrees

LEMMA SaveSkillInv ==
  ASSUME SetupInv, NEW p \in Installers, SaveSkill(p)
  PROVE  SetupInv'
  <1>1. run[p].pc \in LockedSteps /\ run[p].pc = "skill"
    BY DEF SaveSkill, LockedSteps, InstallSteps
  <1>2. /\ Holds(p) /\ RunTyped(p) /\ run[p].operation = "install" /\ run[p].at \in run[p].scopes
        /\ run[p].scopes \subseteq Scopes /\ run[p].config \in [run[p].scopes -> ConfigTexts]
        /\ manifest[run[p].at].intent # None => payload[run[p].at][run[p].target] = "whole"
        /\ \A t \in run[p].scopes : Agrees(p, t)
    BY <1>1, LockHeld DEF Holds, RunTyped, InstallSteps, ScopeSteps
  <1>3. Moved(p, "config", run[p].todo, run[p].at, run[p].config, run[p].missed)
        /\ DOMAIN run' = Installers /\ \A q \in Installers \ {p} : run'[q] = run[q]
    BY GoesPc, GoesFields DEF SetupInv, SaveSkill
  <1>4. manifest' \in {manifest, [manifest EXCEPT ![run[p].at] = [@ EXCEPT !["skill"] = run[p].target]]}
        /\ UNCHANGED <<config, payload, lock>>
    BY DEF SaveSkill
  <1>5. /\ FilesTyped' /\ PolicyPresent' /\ \A t \in run[p].scopes : Agrees(p, t)'
        /\ manifest'[run[p].at].intent = manifest[run[p].at].intent
    BY <1>2, <1>3, <1>4, RecordKept DEF Moved
  <1>6. "config" \in LockedSteps \ {"rename", "removing"} /\ "config" \notin InstallSteps \cup UninstallSteps
    BY DEF LockedSteps, InstallSteps, UninstallSteps, ScopeSteps
  <1> QED
    BY <1>1, <1>2, <1>3, <1>4, <1>5, <1>6, FurtherInv

LEMMA SavePluginInv ==
  ASSUME SetupInv, NEW p \in Installers, SavePlugin(p)
  PROVE  SetupInv'
  <1>1. run[p].pc \in LockedSteps /\ run[p].pc = "plugin"
    BY DEF SavePlugin, LockedSteps, ScopeSteps
  <1>2. /\ Holds(p) /\ RunTyped(p) /\ run[p].at \in run[p].scopes
        /\ run[p].scopes \subseteq Scopes /\ run[p].config \in [run[p].scopes -> ConfigTexts]
        /\ \A t \in run[p].scopes : Agrees(p, t)
    BY <1>1, LockHeld DEF Holds, RunTyped, ScopeSteps
  <1>3. Moved(p, "retire", run[p].todo, run[p].at, run[p].config, run[p].missed)
        /\ DOMAIN run' = Installers /\ \A q \in Installers \ {p} : run'[q] = run[q]
    BY GoesPc, GoesFields DEF SetupInv, SavePlugin
  <1>4. manifest' \in {manifest, [manifest EXCEPT ![run[p].at] = [@ EXCEPT !["plugin"] = run[p].target]]}
        /\ UNCHANGED <<config, payload, lock>>
    BY DEF SavePlugin
  <1>5. FilesTyped' /\ PolicyPresent' /\ \A t \in run[p].scopes : Agrees(p, t)'
    BY <1>2, <1>3, <1>4, RecordKept DEF Moved
  <1>6. "retire" \in LockedSteps \ {"rename", "removing", "skill", "config"}
        /\ "retire" \notin InstallSteps \cup UninstallSteps
    BY DEF LockedSteps, InstallSteps, UninstallSteps, ScopeSteps
  <1> QED
    BY <1>1, <1>2, <1>3, <1>4, <1>5, <1>6, FurtherInv

-----------------------------------------------------------------------------
(* The configuration file and the payload of one scope.                    *)

LEMMA CompareConfigInv ==
  ASSUME SetupInv, NEW p \in Installers, CompareConfig(p)
  PROVE  SetupInv'
  <1>1. run[p].pc \in LockedSteps /\ run[p].pc = "config"
    BY DEF CompareConfig, LockedSteps, ScopeSteps
  <1>2. /\ lock = p /\ Holds(p) /\ RunTyped(p) /\ run[p].at \in run[p].scopes
        /\ run[p].config \in [run[p].scopes -> ConfigTexts]
    BY <1>1, LockHeld DEF Holds, RunTyped, ScopeSteps
  <1>3. CASE Fails(p)
    BY <1>3, FailsInv DEF Fails, installed
  <1>4. CASE Goes(p, [pc |-> "plugin"]) /\ UNCHANGED <<installed, lock, schemaVars>>
    <2>1. Moved(p, "plugin", run[p].todo, run[p].at, run[p].config, run[p].missed)
          /\ DOMAIN run' = Installers /\ \A q \in Installers \ {p} : run'[q] = run[q]
      BY <1>4, GoesPc, GoesFields DEF SetupInv
    <2>2. "plugin" \in LockedSteps \ {"rename", "removing", "skill", "config"}
          /\ "plugin" \notin InstallSteps \cup UninstallSteps
      BY DEF LockedSteps, InstallSteps, UninstallSteps, ScopeSteps
    <2>3. UNCHANGED <<lock, config, payload, manifest>>
      BY <1>4 DEF installed
    <2> QED
      BY <1>1, <1>2, <2>1, <2>2, <2>3, OnlyFurtherInv
  <1>5. CASE /\ ~NoSwitch(p) /\ OwnEntry(p) /\ FileUnchanged(p)
             /\ Goes(p, [pc |-> "rename"]) /\ UNCHANGED <<installed, lock, schemaVars>>
    <2>1. Moved(p, "rename", run[p].todo, run[p].at, run[p].config, run[p].missed)
          /\ DOMAIN run' = Installers /\ \A q \in Installers \ {p} : run'[q] = run[q]
      BY <1>5, GoesPc, GoesFields DEF SetupInv
    <2>2. manifest[run[p].at].intent # None /\ config[run[p].at] = run[p].config[run[p].at]
      BY <1>5 DEF NoSwitch, FileUnchanged
    <2>3. UNCHANGED <<lock, config, payload, manifest>>
      BY <1>5 DEF installed
    <2>4. \A s \in run'[p].scopes : Agrees(p, s)'
      BY <1>1, <1>2, <2>1, <2>3 DEF Holds, Agrees, Moved
    <2>5. Holds(p)'
      BY <1>1, <1>2, <2>1, <2>2, <2>3, <2>4 DEF Holds, Moved, InstallSteps, UninstallSteps
    <2>6. RunTyped(p)'
      BY <1>1, <1>2, <2>1 DEF RunTyped, Moved
    <2> QED
      BY <1>2, <2>1, <2>3, <2>5, <2>6, FilesKept, Assemble
  <1> QED
    BY <1>3, <1>4, <1>5 DEF CompareConfig

LEMMA SwitchedText ==
  ASSUME SetupInv, NEW p \in Installers, run[p].pc = "rename"
  PROVE  /\ run[p].at \in Scopes /\ Switched(p) \in ConfigTexts
         /\ Switched(p).note = run[p].config[run[p].at].note
         /\ Switched(p).entry \in Versions => payload[run[p].at][Switched(p).entry] = "whole"
  <1>1. run[p].pc \in LockedSteps
    BY DEF LockedSteps, ScopeSteps
  <1>2. /\ Holds(p) /\ RunTyped(p) /\ run[p].at \in run[p].scopes /\ run[p].at \in Scopes
        /\ run[p].config[run[p].at] \in ConfigTexts /\ run[p].target \in Versions
        /\ run[p].operation \in {"install", "uninstall"}
        /\ Agrees(p, run[p].at) /\ manifest[run[p].at].intent # None
        /\ run[p].operation = "install" => payload[run[p].at][run[p].target] = "whole"
    BY <1>1, LockHeld DEF Holds, RunTyped, ScopeSteps
  <1> DEFINE entry == IntentEntry(manifest[run[p].at].intent)
  <1>3. entry = IF run[p].operation = "install" THEN run[p].target ELSE Absent
    BY <1>2 DEF Agrees, IntentEntry
  <1>4. entry \in Versions \cup {Absent}
    BY <1>2, <1>3
  <1>5. Switched(p) = [run[p].config[run[p].at] EXCEPT !.entry = entry]
    BY DEF Switched, Managed
  <1> HIDE DEF entry
  <1>6. Switched(p) \in ConfigTexts /\ Switched(p).entry = entry
        /\ Switched(p).note = run[p].config[run[p].at].note
    BY <1>2, <1>4, <1>5 DEF ConfigTexts
  <1> QED
    BY <1>2, <1>3, <1>6, AbsentIsNoVersion

LEMMA RenameConfigInv ==
  ASSUME SetupInv, NEW p \in Installers, RenameConfig(p)
  PROVE  SetupInv'
  <1>1. run[p].pc \in LockedSteps /\ run[p].pc = "rename"
    BY DEF RenameConfig, LockedSteps, ScopeSteps
  <1>2. /\ Holds(p) /\ RunTyped(p) /\ run[p].at \in run[p].scopes
        /\ run[p].config \in [run[p].scopes -> ConfigTexts]
        /\ \A t \in run[p].scopes : Agrees(p, t)
    BY <1>1, LockHeld DEF Holds, RunTyped, ScopeSteps
  <1>3. Moved(p, "renamed", run[p].todo, run[p].at, run[p].config, FALSE)
        /\ DOMAIN run' = Installers /\ \A q \in Installers \ {p} : run'[q] = run[q]
    BY GoesMissed, GoesFields DEF SetupInv, RenameConfig
  <1>4. config' = [config EXCEPT ![run[p].at] = Switched(p)] /\ UNCHANGED <<manifest, payload, lock>>
    BY DEF RenameConfig
  <1>5. FilesTyped' /\ PolicyPresent'
    <2>1. config' \in [Scopes -> ConfigTexts] /\ config'[run[p].at] = Switched(p)
          /\ \A s \in Scopes \ {run[p].at} : config'[s] = config[s]
      BY <1>1, <1>4, SwitchedText DEF SetupInv, FilesTyped
    <2> QED
      BY <1>1, <1>4, <2>1, SwitchedText DEF SetupInv, FilesTyped, PolicyPresent
  <1>6. \A t \in run[p].scopes : Agrees(p, t)'
    BY <1>2, <1>3, <1>4 DEF Agrees, Moved
  <1>7. "renamed" \in LockedSteps \ {"rename", "removing", "skill", "config"}
        /\ "renamed" \notin InstallSteps \cup UninstallSteps
    BY DEF LockedSteps, InstallSteps, UninstallSteps, ScopeSteps
  <1> QED
    BY <1>1, <1>2, <1>3, <1>4, <1>5, <1>6, <1>7, FurtherInv

LEMMA ReadConfigInv ==
  ASSUME SetupInv, NEW p \in Installers, ReadConfig(p)
  PROVE  SetupInv'
  <1>1. CASE Fails(p)
    BY <1>1, FailsInv DEF Fails, installed
  <1>2. CASE ~Fails(p)
    <2> DEFINE texts == [run[p].config EXCEPT ![run[p].at] = Switched(p)]
    <2>1. run[p].pc \in LockedSteps /\ run[p].pc = "renamed"
      BY DEF ReadConfig, LockedSteps, ScopeSteps
    <2>2. /\ Holds(p) /\ RunTyped(p) /\ run[p].at \in run[p].scopes /\ run[p].at \in Scopes
          /\ run[p].config \in [run[p].scopes -> ConfigTexts]
      BY <2>1, LockHeld DEF Holds, RunTyped, ScopeSteps
    <2>3. /\ config[run[p].at] = Switched(p) /\ Goes(p, [pc |-> "plugin", config |-> texts])
          /\ UNCHANGED <<installed, lock>>
      BY <1>2 DEF ReadConfig
    <2>4. Moved(p, "plugin", run[p].todo, run[p].at, texts, run[p].missed)
          /\ DOMAIN run' = Installers /\ \A q \in Installers \ {p} : run'[q] = run[q]
      BY <2>3, GoesConfig, GoesFields DEF SetupInv
    <2>5. texts \in [run[p].scopes -> ConfigTexts]
      BY <2>2, <2>3 DEF SetupInv, FilesTyped
    <2>6. "plugin" \in LockedSteps \ {"rename", "removing", "skill", "config"}
          /\ "plugin" \notin InstallSteps \cup UninstallSteps
      BY DEF LockedSteps, InstallSteps, UninstallSteps, ScopeSteps
    <2>7. UNCHANGED <<lock, config, payload, manifest>>
      BY <2>3 DEF installed
    <2> HIDE DEF texts
    <2> QED
      BY <2>1, <2>2, <2>4, <2>5, <2>6, <2>7, OnlyFurtherInv
  <1> QED
    BY <1>1, <1>2

LEMMA AfterRemovalInv ==
  ASSUME SetupInv, NEW p \in Installers, run[p].pc \in {"retire", "removing"}, Goes(p, AfterRemoval(p)),
         UNCHANGED <<manifest, config, lock>>, FilesTyped', PolicyPresent'
  PROVE  SetupInv'
  <1>1. run[p].pc \in LockedSteps
    BY DEF LockedSteps, ScopeSteps
  <1>2. /\ Holds(p) /\ RunTyped(p) /\ run[p].at \in run[p].scopes
        /\ run[p].config \in [run[p].scopes -> ConfigTexts]
        /\ run[p].operation \in {"install", "uninstall"}
        /\ \A t \in run[p].scopes : Agrees(p, t)
    BY <1>1, LockHeld DEF Holds, RunTyped, ScopeSteps
  <1>3. DOMAIN run' = Installers /\ \A q \in Installers \ {p} : run'[q] = run[q]
    BY GoesFields DEF SetupInv
  <1>4. CASE run[p].operation = "uninstall"
    <2>1. Goes(p, [pc |-> "delete"])
      BY <1>4 DEF AfterRemoval
    <2>2. Moved(p, "delete", run[p].todo, run[p].at, run[p].config, run[p].missed)
      BY <2>1, GoesPc DEF SetupInv
    <2>3. \A t \in run[p].scopes : Agrees(p, t)'
      BY <1>2, <2>2 DEF Agrees, Moved
    <2>4. "delete" \in LockedSteps \ {"rename", "removing", "skill", "config"} /\ "delete" \notin InstallSteps
      BY DEF LockedSteps, InstallSteps, UninstallSteps, ScopeSteps
    <2> QED
      BY <1>1, <1>2, <1>3, <1>4, <2>2, <2>3, <2>4, FurtherInv
  <1>5. CASE run[p].operation = "install"
    <2> DEFINE pc == IF run[p].todo = {} THEN "backend" ELSE "scope"
    <2>1. Goes(p, [pc |-> pc, at |-> None])
      BY <1>5 DEF AfterRemoval
    <2>2. Moved(p, pc, run[p].todo, None, run[p].config, run[p].missed)
      BY <2>1, GoesAt DEF SetupInv
    <2>3. \A t \in run[p].scopes : Agrees(p, t)'
      BY <1>2, <2>2 DEF Agrees, Moved
    <2>4. pc \in LockedSteps \ {"rename", "removing", "skill", "config"} /\ pc \notin UninstallSteps \cup ScopeSteps
      BY DEF LockedSteps, InstallSteps, UninstallSteps, ScopeSteps
    <2> HIDE DEF pc
    <2> QED
      BY <1>1, <1>2, <1>3, <1>5, <2>2, <2>3, <2>4, FurtherInv
  <1> QED
    BY <1>2, <1>4, <1>5

\* What is removed is selected by no configuration.
LEMMA RemovedPayload ==
  ASSUME SetupInv, NEW s \in Scopes, NEW v \in Versions, config[s].entry # v, NEW state \in {"part", "none"},
         payload' = [payload EXCEPT ![s][v] = state], UNCHANGED <<manifest, config>>
  PROVE  FilesTyped' /\ PolicyPresent'
  <1>1. payload' \in [Scopes -> [Versions -> {"none", "part", "whole"}]]
    BY DEF SetupInv, FilesTyped
  <1>2. \A t \in Scopes, w \in Versions : t # s \/ w # v => payload'[t][w] = payload[t][w]
    BY DEF SetupInv, FilesTyped
  <1> QED
    BY <1>1, <1>2 DEF SetupInv, FilesTyped, PolicyPresent

LEMMA NothingRemoved ==
  ASSUME SetupInv, NEW s \in Scopes, NEW v, v \notin Versions, NEW state,
         payload' = [payload EXCEPT ![s][v] = state], UNCHANGED <<manifest, config>>
  PROVE  FilesTyped' /\ PolicyPresent'
  <1>1. payload' \in [Scopes -> [Versions -> {"none", "part", "whole"}]]
        /\ \A t \in Scopes, w \in Versions : payload'[t][w] = payload[t][w]
    BY DEF SetupInv, FilesTyped
  <1> QED
    BY <1>1 DEF SetupInv, FilesTyped, PolicyPresent

LEMMA BeginRemovalInv ==
  ASSUME SetupInv, NEW p \in Installers, BeginRemoval(p)
  PROVE  SetupInv'
  <1>1. run[p].pc \in LockedSteps /\ run[p].pc = "retire"
    BY DEF BeginRemoval, LockedSteps, ScopeSteps
  <1>2. /\ lock = p /\ Holds(p) /\ RunTyped(p) /\ run[p].at \in run[p].scopes /\ run[p].at \in Scopes
    BY <1>1, LockHeld DEF Holds, RunTyped, ScopeSteps
  <1>3. UNCHANGED <<manifest, config, lock>>
    BY DEF BeginRemoval
  <1>4. CASE Removable(p)
    <2>1. payload' = [payload EXCEPT ![run[p].at][Retired(p)] = "part"] /\ Goes(p, [pc |-> "removing"])
      BY <1>4 DEF BeginRemoval
    <2>2. Retired(p) # Absent /\ config[run[p].at].entry # Retired(p)
      BY <1>4 DEF Removable
    <2>3. FilesTyped' /\ PolicyPresent'
      BY <1>2, <1>3, <2>1, <2>2, RemovedPayload, NothingRemoved
    <2>4. Moved(p, "removing", run[p].todo, run[p].at, run[p].config, run[p].missed)
          /\ DOMAIN run' = Installers /\ \A q \in Installers \ {p} : run'[q] = run[q]
      BY <2>1, GoesPc, GoesFields DEF SetupInv
    <2>5. Retired(p)' = Retired(p)
      BY <1>3, <2>4 DEF Retired, Moved
    <2>6. \A s \in run'[p].scopes : Agrees(p, s)'
      BY <1>1, <1>2, <1>3, <2>4 DEF Holds, Agrees, Moved
    <2>7. Holds(p)'
      BY <1>1, <1>2, <1>3, <2>2, <2>4, <2>5, <2>6 DEF Holds, Moved, InstallSteps, UninstallSteps
    <2>8. RunTyped(p)'
      BY <1>1, <1>2, <2>4 DEF RunTyped, Moved
    <2> QED
      BY <1>2, <2>3, <2>4, <2>7, <2>8, Assemble
  <1>5. CASE ~Removable(p)
    <2>1. Goes(p, AfterRemoval(p)) /\ UNCHANGED payload
      BY <1>5 DEF BeginRemoval
    <2> QED
      BY <1>1, <1>3, <2>1, FilesKept, AfterRemovalInv
  <1> QED
    BY <1>4, <1>5

LEMMA EndRemovalInv ==
  ASSUME SetupInv, NEW p \in Installers, EndRemoval(p)
  PROVE  SetupInv'
  <1>1. run[p].pc \in LockedSteps /\ run[p].pc = "removing"
    BY DEF EndRemoval, LockedSteps, ScopeSteps
  <1>2. run[p].at \in Scopes /\ config[run[p].at].entry # Retired(p)
    BY <1>1, LockHeld DEF Holds, RunTyped, ScopeSteps
  <1>3. /\ payload' = [payload EXCEPT ![run[p].at][Retired(p)] = "none"]
        /\ Goes(p, AfterRemoval(p)) /\ UNCHANGED <<manifest, config, lock>>
    BY DEF EndRemoval
  <1>4. FilesTyped' /\ PolicyPresent'
    BY <1>2, <1>3, RemovedPayload, NothingRemoved
  <1> QED
    BY <1>1, <1>3, <1>4, AfterRemovalInv

-----------------------------------------------------------------------------
(* The last steps of an install, and uninstall.                            *)

\* Steps that only name where the run goes next.
LEMMA GoesOnInv ==
  ASSUME SetupInv, NEW p \in Installers, run[p].pc \in LockedSteps,
         NEW pc \in LockedSteps \ (ScopeSteps \cup UninstallSteps),
         pc \in InstallSteps => run[p].operation = "install",
         Goes(p, [pc |-> pc]), UNCHANGED <<lock, config, payload, manifest>>
  PROVE  SetupInv'
  <1>1. Moved(p, pc, run[p].todo, run[p].at, run[p].config, run[p].missed)
        /\ DOMAIN run' = Installers /\ \A q \in Installers \ {p} : run'[q] = run[q]
    BY GoesPc, GoesFields DEF SetupInv
  <1>2. run[p].config \in [run[p].scopes -> ConfigTexts]
    BY LockHeld DEF RunTyped
  <1>3. pc \in LockedSteps \ {"rename", "removing", "skill", "config"} /\ pc \notin UninstallSteps \cup ScopeSteps
    BY DEF ScopeSteps
  <1> QED
    BY <1>1, <1>2, <1>3, OnlyFurtherInv

LEMMA PrepareBackendInv ==
  ASSUME SetupInv, NEW p \in Installers, PrepareBackend(p)
  PROVE  SetupInv'
  <1>1. run[p].pc \in LockedSteps /\ run[p].operation = "install"
    BY LockHeld DEF PrepareBackend, LockedSteps, InstallSteps, Holds
  <1>2. CASE Fails(p)
    BY <1>2, FailsInv DEF Fails, installed
  <1>3. CASE \E pc \in {"clear", "preparing"} : Goes(p, [pc |-> pc]) /\ UNCHANGED <<installed, lock>>
    <2>1. \A pc \in {"clear", "preparing"} : pc \in LockedSteps \ (ScopeSteps \cup UninstallSteps)
      BY DEF LockedSteps, InstallSteps, ScopeSteps, UninstallSteps
    <2> QED
      BY <1>1, <1>3, <2>1, GoesOnInv DEF installed
  <1> QED
    BY <1>2, <1>3 DEF PrepareBackend

LEMMA BackendReadbackInv ==
  ASSUME SetupInv, NEW p \in Installers, BackendReadback(p)
  PROVE  SetupInv'
  <1>1. run[p].pc \in LockedSteps /\ run[p].operation = "install"
    BY LockHeld DEF BackendReadback, LockedSteps, InstallSteps, Holds
  <1>2. CASE Fails(p)
    BY <1>2, FailsInv DEF Fails, installed
  <1>3. CASE Goes(p, [pc |-> "clear"]) /\ UNCHANGED <<installed, lock>>
    <2>1. "clear" \in LockedSteps \ (ScopeSteps \cup UninstallSteps)
      BY DEF LockedSteps, InstallSteps, ScopeSteps, UninstallSteps
    <2> QED
      BY <1>1, <1>3, <2>1, GoesOnInv DEF installed
  <1> QED
    BY <1>2, <1>3 DEF BackendReadback

LEMMA ClearIntentsInv ==
  ASSUME SetupInv, NEW p \in Installers, ClearIntents(p)
  PROVE  SetupInv'
  <1>1. run[p].pc \in LockedSteps /\ run[p].pc = "clear"
    BY DEF ClearIntents, LockedSteps, InstallSteps
  <1>2. RunTyped(p) /\ run[p].scopes \subseteq Scopes /\ run[p].config \in [run[p].scopes -> ConfigTexts]
    BY <1>1, LockHeld DEF RunTyped
  <1>3. Moved(p, "unlock", run[p].todo, run[p].at, run[p].config, run[p].missed)
        /\ DOMAIN run' = Installers /\ \A q \in Installers \ {p} : run'[q] = run[q]
    BY GoesPc, GoesFields DEF SetupInv, ClearIntents
  <1>4. /\ manifest' = [s \in Scopes |->
              IF s \in run[p].scopes THEN [manifest[s] EXCEPT !.intent = None] ELSE manifest[s]]
        /\ UNCHANGED <<config, payload, lock>>
    BY DEF ClearIntents
  <1>5. \A s \in Scopes : DOMAIN manifest[s] = {"plugin", "skill", "intent"}
    BY DEF SetupInv, FilesTyped, NoRecord
  <1>6. FilesTyped' /\ PolicyPresent'
    BY <1>4, <1>5 DEF SetupInv, FilesTyped, PolicyPresent, NoRecord
  <1>7. \A s \in run[p].scopes : Agrees(p, s)'
    BY <1>2, <1>4, <1>5 DEF Agrees
  <1>8. "unlock" \in LockedSteps \ {"rename", "removing", "skill", "config"}
        /\ "unlock" \notin InstallSteps \cup UninstallSteps \cup ScopeSteps
    BY DEF LockedSteps, InstallSteps, UninstallSteps, ScopeSteps
  <1> QED
    BY <1>1, <1>2, <1>3, <1>4, <1>6, <1>7, <1>8, FurtherInv

LEMMA UninstallScopeInv ==
  ASSUME SetupInv, NEW p \in Installers, UninstallScope(p)
  PROVE  SetupInv'
  <1>1. run[p].pc \in LockedSteps /\ run[p].pc = "next"
    BY DEF UninstallScope, LockedSteps, UninstallSteps
  <1>2. /\ RunTyped(p) /\ run[p].scopes \subseteq Scopes /\ run[p].todo \subseteq run[p].scopes
        /\ run[p].config \in [run[p].scopes -> ConfigTexts] /\ run[p].operation = "uninstall"
        /\ \A t \in run[p].scopes : Agrees(p, t)
    BY <1>1, LockHeld DEF RunTyped, Holds, UninstallSteps
  <1>3. PICK s \in run[p].todo :
          /\ manifest' = IF manifest[s].intent # None THEN manifest
                         ELSE [manifest EXCEPT ![s].intent =
                                 Intent("uninstall", run[p].target, manifest[s], run[p].config[s])]
          /\ Goes(p, [pc |-> "config", at |-> s, todo |-> run[p].todo \ {s}])
    BY DEF UninstallScope
  <1>4. UNCHANGED <<config, payload, lock>>
    BY DEF UninstallScope
  <1>5. Moved(p, "config", run[p].todo \ {s}, s, run[p].config, run[p].missed)
        /\ DOMAIN run' = Installers /\ \A q \in Installers \ {p} : run'[q] = run[q]
    BY <1>3, GoesAtTodo, GoesFields DEF SetupInv
  <1>6. DOMAIN manifest = Scopes /\ \A t \in Scopes : DOMAIN manifest[t] = {"plugin", "skill", "intent"}
    BY DEF SetupInv, FilesTyped, NoRecord
  <1> DEFINE intent == Intent("uninstall", run[p].target, manifest[s], run[p].config[s])
  <1>7. /\ DOMAIN manifest' = Scopes
        /\ \A t \in Scopes : DOMAIN manifest'[t] = {"plugin", "skill", "intent"}
        /\ \A t \in Scopes : manifest'[t].intent = manifest[t].intent \/ (t = s /\ manifest'[t].intent = intent)
    <2> HIDE DEF intent
    <2>1. manifest' \in {manifest, [manifest EXCEPT ![s].intent = intent]}
      BY <1>3 DEF intent
    <2> QED
      BY <1>2, <1>6, <2>1
  <1>8. FilesTyped' /\ PolicyPresent'
    BY <1>4, <1>7 DEF SetupInv, FilesTyped, PolicyPresent, NoRecord
  <1>9. \A t \in run[p].scopes : Agrees(p, t)'
    <2>1. intent.operation = "uninstall" /\ intent.target = run[p].target
      BY IntentFields
    <2> QED
      BY <1>2, <1>5, <1>7, <2>1 DEF Agrees, Moved
  <1>10. "config" \in LockedSteps \ {"rename", "removing"} /\ "config" \notin InstallSteps \cup UninstallSteps
    BY DEF LockedSteps, InstallSteps, UninstallSteps, ScopeSteps
  <1> QED
    BY <1>1, <1>2, <1>4, <1>5, <1>8, <1>9, <1>10, FurtherInv

LEMMA DeleteRecordInv ==
  ASSUME SetupInv, NEW p \in Installers, DeleteRecord(p)
  PROVE  SetupInv'
  <1>1. run[p].pc \in LockedSteps /\ run[p].pc = "delete"
    BY DEF DeleteRecord, LockedSteps, UninstallSteps
  <1>2. /\ RunTyped(p) /\ run[p].scopes \subseteq Scopes /\ run[p].at \in run[p].scopes
        /\ run[p].config \in [run[p].scopes -> ConfigTexts] /\ run[p].operation = "uninstall"
        /\ \A t \in run[p].scopes : Agrees(p, t)
    BY <1>1, LockHeld DEF RunTyped, Holds, UninstallSteps, ScopeSteps
  <1>3. Moved(p, "next", run[p].todo, None, run[p].config, run[p].missed)
        /\ DOMAIN run' = Installers /\ \A q \in Installers \ {p} : run'[q] = run[q]
    BY GoesAt, GoesFields DEF SetupInv, DeleteRecord
  <1>4. manifest' = [manifest EXCEPT ![run[p].at] = NoRecord] /\ UNCHANGED <<config, payload, lock>>
    BY DEF DeleteRecord
  <1>5. NoRecord.intent = None
    BY DEF NoRecord
  <1>6. FilesTyped' /\ PolicyPresent'
    BY <1>4 DEF SetupInv, FilesTyped, PolicyPresent
  <1>7. \A t \in run[p].scopes : Agrees(p, t)'
    BY <1>2, <1>3, <1>4, <1>5 DEF SetupInv, FilesTyped, Agrees, Moved
  <1>8. "next" \in LockedSteps \ {"rename", "removing", "skill", "config"}
        /\ "next" \notin InstallSteps \cup ScopeSteps
    BY DEF LockedSteps, InstallSteps, UninstallSteps, ScopeSteps
  <1> QED
    BY <1>1, <1>2, <1>3, <1>4, <1>6, <1>7, <1>8, FurtherInv

LEMMA RemoveCLIInv ==
  ASSUME SetupInv, NEW p \in Installers, RemoveCLI(p)
  PROVE  SetupInv'
  <1>1. run[p].pc \in LockedSteps
    BY DEF RemoveCLI, LockedSteps, UninstallSteps
  <1>2. CASE Fails(p)
    BY <1>2, FailsInv DEF Fails, installed
  <1>3. CASE Goes(p, [pc |-> "unlock"]) /\ UNCHANGED <<lock, config, payload, manifest>>
    <2>1. "unlock" \in LockedSteps \ (ScopeSteps \cup UninstallSteps) /\ "unlock" \notin InstallSteps
      BY DEF LockedSteps, InstallSteps, ScopeSteps, UninstallSteps
    <2> QED
      BY <1>1, <1>3, <2>1, GoesOnInv
  <1> QED
    BY <1>2, <1>3 DEF RemoveCLI

-----------------------------------------------------------------------------
(* What nobody schedules.                                                  *)

LEMMA DieInv ==
  ASSUME SetupInv, NEW p \in Installers, Die(p)
  PROVE  SetupInv'
  BY LeavesInv DEF Die, installed

LEMMA RemoveStaleLockInv == SetupInv /\ RemoveStaleLock => SetupInv'
  <1> SUFFICES ASSUME SetupInv, RemoveStaleLock PROVE SetupInv'
    OBVIOUS
  <1>1. UNCHANGED <<config, payload, manifest, run>> /\ lock = "stale"
    BY DEF RemoveStaleLock, installed
  <1>2. ASSUME NEW p \in Installers PROVE RunTyped(p)' /\ Holds(p)'
    <2>1. run[p].pc \notin LockedSteps
      BY <1>1, InstallersAssumption DEF SetupInv, Holds
    <2> QED
      BY <1>1, <2>1 DEF SetupInv, RunTyped, Holds
  <1> QED
    BY <1>1, <1>2, FilesKept DEF SetupInv

LEMMA EditConfigInv ==
  ASSUME SetupInv, NEW s \in Scopes, NEW entry \in Versions \cup {Absent}, EditConfig(s, entry)
  PROVE  SetupInv'
  <1>1. /\ config' = [config EXCEPT ![s] = Text(entry, config[s].note + 1)]
        /\ entry \in {config[s].entry, Absent} /\ UNCHANGED <<manifest, payload, lock>>
    BY DEF EditConfig
  <1>2. Text(entry, config[s].note + 1) \in ConfigTexts /\ Text(entry, config[s].note + 1).entry = entry
    BY DEF SetupInv, FilesTyped, ConfigTexts, Text
  <1>3. /\ config' \in [Scopes -> ConfigTexts] /\ config'[s].entry = entry
        /\ \A t \in Scopes \ {s} : config'[t] = config[t]
    BY <1>1, <1>2 DEF SetupInv, FilesTyped
  <1>4. FilesTyped' /\ PolicyPresent'
    BY <1>1, <1>3, AbsentIsNoVersion DEF SetupInv, FilesTyped, PolicyPresent
  <1>5. ASSUME NEW p \in Installers PROVE RunTyped(p)' /\ Holds(p)'
    <2>1. /\ RunTyped(p) /\ Holds(p)
          /\ run'[p] = IF run[p].pc = "rename" /\ run[p].at = s
                       THEN [run[p] EXCEPT !.missed = TRUE] ELSE run[p]
      BY DEF SetupInv, EditConfig
    <2>2. /\ Moved(p, run[p].pc, run[p].todo, run[p].at, run[p].config, run'[p].missed)
          /\ run'[p].missed = IF run[p].pc = "rename" /\ run[p].at = s THEN TRUE ELSE run[p].missed
      BY <2>1 DEF RunTyped, Moved, Idle
    <2>3. RunTyped(p)'
      BY <2>1, <2>2 DEF RunTyped, Moved
    <2>4. CASE run[p].pc \notin LockedSteps
      BY <2>2, <2>3, <2>4 DEF Holds, Moved
    <2>5. CASE run[p].pc \in LockedSteps
      <3>1. Retired(p)' = Retired(p)
        BY <1>1, <2>2 DEF Retired, Moved
      <3>2. \A t : Agrees(p, t)' <=> Agrees(p, t)
        BY <1>1, <2>2 DEF Agrees, Moved
      <3>3. run[p].pc \in ScopeSteps => run[p].at \in Scopes
        BY <2>1, <2>5 DEF Holds, RunTyped, LockedSteps, InstallSteps, UninstallSteps, ScopeSteps
      <3>4. run[p].pc = "rename" =>
              run'[p].missed \/ config'[run[p].at] = run[p].config[run[p].at]
        BY <1>3, <2>1, <2>2, <2>5, <3>3 DEF Holds, ScopeSteps
      <3>5. run[p].pc = "removing" => config'[run[p].at].entry # Retired(p)
        BY <1>1, <1>3, <2>1, <2>5, <3>3 DEF Holds, ScopeSteps
      <3>6. Holds(p)'
        BY <1>1, <2>1, <2>2, <2>5, <3>1, <3>2, <3>4, <3>5 DEF Holds, Moved
      <3> QED
        BY <2>3, <3>6
    <2> QED
      BY <2>4, <2>5
  <1>6. DOMAIN run' = Installers
    BY DEF EditConfig
  <1> QED
    BY <1>4, <1>5, <1>6 DEF SetupInv

LEMMA SetupUnchangedInv ==
  ASSUME SetupInv, UNCHANGED <<manifest, config, payload, lock, run>>
  PROVE  SetupInv'
  BY DEF SetupInv, FilesTyped, PolicyPresent, RunTyped, Holds, Agrees, Retired

LEMMA InstallerInv ==
  ASSUME SetupInv, NEW p \in Installers, Installer(p)
  PROVE  SetupInv'
  <1>1. CASE \E q \in Requests : Begin(p, q)
    BY <1>1, BeginInv
  <1>2. CASE Preflight(p) \/ LockManifest(p) \/ PersistIntent(p) \/ InstallCLI(p)
    BY <1>2, PreflightInv, LockManifestInv, PersistIntentInv, InstallCLIInv
  <1>3. CASE InstallSkill(p) \/ SaveSkill(p) \/ CompareConfig(p) \/ RenameConfig(p) \/ ReadConfig(p)
    BY <1>3, InstallSkillInv, SaveSkillInv, CompareConfigInv, RenameConfigInv, ReadConfigInv
  <1>4. CASE SavePlugin(p) \/ BeginRemoval(p) \/ EndRemoval(p) \/ PrepareBackend(p)
    BY <1>4, SavePluginInv, BeginRemovalInv, EndRemovalInv, PrepareBackendInv
  <1>5. CASE BackendReadback(p) \/ ClearIntents(p) \/ UninstallScope(p)
    BY <1>5, BackendReadbackInv, ClearIntentsInv, UninstallScopeInv
  <1>6. CASE Unlock(p)
    BY <1>6, FailsInv DEF Unlock, installed
  <1>7. CASE DeleteRecord(p) \/ RemoveCLI(p) \/ Die(p)
    BY <1>7, DeleteRecordInv, RemoveCLIInv, DieInv
  <1> QED
    BY <1>1, <1>2, <1>3, <1>4, <1>5, <1>6, <1>7 DEF Installer

LEMMA SetupStepInv == SetupInv /\ [SetupNext]_setupVars => SetupInv'
  <1> SUFFICES ASSUME SetupInv, [SetupNext]_setupVars PROVE SetupInv'
    OBVIOUS
  <1>1. CASE \E p \in Installers : Installer(p)
    BY <1>1, InstallerInv
  <1>2. CASE RemoveStaleLock
    BY <1>2, RemoveStaleLockInv
  <1>3. CASE \E s \in Scopes, entry \in Versions \cup {Absent} : EditConfig(s, entry)
    BY <1>3, EditConfigInv
  <1>4. CASE \E o \in Openers : Opens(o)
    BY <1>4, SetupUnchangedInv DEF Opens
  <1>5. CASE \E o \in Openers : Opening(o)
    BY <1>5, SetupUnchangedInv DEF Opening, installed
  <1>6. CASE UNCHANGED setupVars
    BY <1>6, SetupUnchangedInv DEF setupVars, installed
  <1> QED
    BY <1>1, <1>2, <1>3, <1>4, <1>5, <1>6 DEF SetupNext

\* Every run of setup keeps what its steps rest on: the lock is exclusive and
\* what its holder knows of the files stays true (manifest.mjs:26, lifecycle.mjs:66).
THEOREM SetupInvariant == SetupSpec => []SetupInv
  BY SetupInitInv, SetupStepInv, PTL DEF SetupSpec

\* A host always finds the policy that its configuration selects, whatever
\* runs die or overlap and whatever the user edits (lifecycle.mjs:92-100, 128-129).
THEOREM SetupPolicyPresent == SetupSpec => []PolicyPresent
  <1>1. SetupInv => PolicyPresent
    BY DEF SetupInv
  <1> QED
    BY <1>1, SetupInvariant, PTL

LEMMA EditsStep ==
  ASSUME SetupInv, [SetupNext]_setupVars, NEW s \in Scopes, config'[s].note < config[s].note
  PROVE  \E p \in Installers : run[p].pc = "rename" /\ run[p].at = s /\ run[p].missed
  <1>1. \A t \in Scopes : config[t] \in ConfigTexts /\ config[t].note \in Nat
    BY DEF SetupInv, FilesTyped, ConfigTexts
  <1>2. CASE UNCHANGED config
    BY <1>1, <1>2
  <1>3. CASE \E p \in Installers : RenameConfig(p)
    <2>1. PICK p \in Installers : RenameConfig(p)
      BY <1>3
    <2>2. run[p].pc = "rename" /\ config' = [config EXCEPT ![run[p].at] = Switched(p)]
      BY <2>1 DEF RenameConfig
    <2>3. run[p].at \in Scopes /\ Switched(p).note = run[p].config[run[p].at].note
      BY <2>2, SwitchedText
    <2>4. run[p].missed \/ config[run[p].at] = run[p].config[run[p].at]
      BY <2>2 DEF SetupInv, Holds, LockedSteps, ScopeSteps
    <2>5. CASE s # run[p].at
      BY <1>1, <2>2, <2>5 DEF SetupInv, FilesTyped
    <2>6. CASE s = run[p].at
      <3>1. config'[s] = Switched(p)
        BY <2>2, <2>3, <2>6 DEF SetupInv, FilesTyped
      <3> QED
        BY <1>1, <2>2, <2>3, <2>4, <2>6, <3>1
    <2> QED
      BY <2>5, <2>6
  <1>4. CASE \E t \in Scopes, entry \in Versions \cup {Absent} : EditConfig(t, entry)
    <2>1. PICK t \in Scopes, entry \in Versions \cup {Absent} : EditConfig(t, entry)
      BY <1>4
    <2>2. config' = [config EXCEPT ![t] = Text(entry, config[t].note + 1)]
      BY <2>1 DEF EditConfig
    <2>3. Text(entry, config[t].note + 1).note = config[t].note + 1
      BY DEF Text
    <2> QED
      BY <1>1, <2>2, <2>3 DEF SetupInv, FilesTyped
  <1>5. CASE \E p \in Installers : Installer(p) /\ ~RenameConfig(p)
    <2>1. UNCHANGED config
      BY <1>5 DEF Installer, Begin, Preflight, LockManifest, PersistIntent, InstallCLI, InstallSkill,
            SaveSkill, CompareConfig, ReadConfig, SavePlugin, BeginRemoval, EndRemoval, PrepareBackend,
            BackendReadback, ClearIntents, Unlock, UninstallScope, DeleteRecord, RemoveCLI, Die, Fails, installed
    <2> QED
      BY <1>2, <2>1
  <1>6. CASE RemoveStaleLock \/ (\E o \in Openers : Opens(o) \/ Opening(o)) \/ UNCHANGED setupVars
    <2>1. UNCHANGED config
      BY <1>6 DEF RemoveStaleLock, Opens, Opening, installed, setupVars
    <2> QED
      BY <1>2, <2>1
  <1> QED
    BY <1>3, <1>4, <1>5, <1>6 DEF SetupNext

\* A run overwrites a user's edit only if it was made between its last
\* comparison of the file and its rename (files.mjs:34-35).
THEOREM SetupEditsRetained == SetupSpec => EditsRetained
  <1>1. SetupInv /\ [SetupNext]_setupVars =>
          [\A s \in Scopes : config'[s].note < config[s].note =>
             \E p \in Installers : run[p].pc = "rename" /\ run[p].at = s /\ run[p].missed]_setupVars
    BY EditsStep
  <1> QED
    BY <1>1, SetupInvariant, PTL DEF SetupSpec, EditsRetained

-----------------------------------------------------------------------------
(* The shared CLI and the scopes that were set up for it.                  *)

CLISteps ==
  {"scope", "skill", "config", "rename", "renamed", "plugin", "retire", "removing",
   "backend", "preparing", "clear"}
LateSteps == {"backend", "preparing", "clear"}

\* A run that changes the CLI leaves no scope behind.
Spares(c, records) ==
  c.operation = "install" /\ c.cli # c.target => \A s \in Scopes \ c.scopes : records[s] = NoRecord

\* What an install knows of the records and the CLI, at each of its steps.
Updates(p) ==
  LET c == run[p] IN
  /\ c.pc = "ready" => Spares(c, c.manifest)
  /\ c.pc \in LockedSteps => Spares(c, manifest)
  /\ c.pc \in LockedSteps \ {"unlock"} /\ c.operation = "install" =>
       /\ \A s \in c.scopes : (c.pc = "intents" => s \notin c.todo) =>
            manifest[s].intent # None \/ manifest[s].skill = c.target
       /\ c.pc \in CLISteps =>
            /\ cli = c.target
            /\ \A s \in c.scopes \ c.todo : (c.pc = "skill" => s # c.at) => manifest[s].skill = c.target
       /\ c.pc \in LateSteps => c.todo = {}

RecordTyped(r) == r.plugin \in Versions \cup {Absent} /\ r.skill \in Versions \cup {Absent}

UpdateInv ==
  /\ \A s \in Scopes : RecordTyped(manifest[s])
  /\ ScopesMatchCLI
  /\ \A p \in Installers : Updates(p)

LEMMA IntentIsSome ==
  ASSUME NEW operation \in {"install", "uninstall"}, NEW target \in Versions,
         NEW r, RecordTyped(r), NEW text \in ConfigTexts
  PROVE  Intent(operation, target, r, text) # None
  <1>1. Managed(text, target) \in ConfigTexts /\ Managed(text, Absent) \in ConfigTexts
    BY DEF Managed, ConfigTexts
  <1>2. Intent(operation, target, r, text) \in Intents
    BY <1>1 DEF Intent, Intents, RecordTyped, ConfigTexts
  <1> QED
    BY <1>2, NoneAssumption

LEMMA OthersUpdate ==
  ASSUME SetupInv, UpdateInv, NEW p \in Installers, NEW q \in Installers \ {p}, run'[q] = run[q],
         lock \in {p, "free"} \/ UNCHANGED <<manifest, cli>>
  PROVE  Updates(q)'
  <1>1. Updates(q) /\ Holds(q)
    BY DEF SetupInv, UpdateInv
  <1>2. CASE lock \in {p, "free"}
    <2>1. lock # q
      BY <1>2, InstallersAssumption
    <2>2. run[q].pc \notin LockedSteps
      BY <1>1, <2>1 DEF Holds
    <2> QED
      BY <1>1, <2>2 DEF Updates, Spares
  <1>3. CASE UNCHANGED <<manifest, cli>>
    BY <1>1, <1>3 DEF Updates, Spares
  <1> QED
    BY <1>2, <1>3

LEMMA AssembleUpdate ==
  ASSUME SetupInv, UpdateInv, NEW p \in Installers, \A q \in Installers \ {p} : run'[q] = run[q],
         lock \in {p, "free"} \/ UNCHANGED <<manifest, cli>>,
         \A s \in Scopes : RecordTyped(manifest'[s]),
         ScopesMatchCLI', Updates(p)'
  PROVE  UpdateInv'
  BY OthersUpdate DEF UpdateInv

LEMMA MatchKept ==
  ASSUME UpdateInv, UNCHANGED <<manifest, cli>>
  PROVE  ScopesMatchCLI' /\ \A s \in Scopes : RecordTyped(manifest'[s])
  BY DEF UpdateInv, ScopesMatchCLI, Recorded

\* What a step does not name it leaves.
LEMMA GoesKeepsCLI ==
  ASSUME DOMAIN run = Installers, NEW p \in Installers, NEW changes, Goes(p, changes),
         "cli" \notin DOMAIN changes
  PROVE  run'[p].cli = run[p].cli
  <1>1. run'[p] = [f \in DOMAIN Idle |-> IF f \in DOMAIN changes THEN changes[f] ELSE run[p][f]]
    BY GoesFields
  <1>2. "cli" \in DOMAIN Idle
    BY DEF Idle
  <1> QED
    BY <1>1, <1>2

LEMMA LeavesUpdate ==
  ASSUME SetupInv, UpdateInv, NEW p \in Installers, run' = [run EXCEPT ![p] = Idle],
         UNCHANGED <<manifest, cli>>
  PROVE  UpdateInv'
  <1>1. run'[p] = Idle /\ \A q \in Installers \ {p} : run'[q] = run[q]
    BY DEF SetupInv
  <1>2. Updates(p)'
    BY <1>1 DEF Idle, Updates, LockedSteps, InstallSteps, UninstallSteps, ScopeSteps
  <1> QED
    BY <1>1, <1>2, MatchKept, AssembleUpdate

LEMMA FailsUpdate ==
  ASSUME SetupInv, UpdateInv, NEW p \in Installers, Fails(p)
  PROVE  UpdateInv'
  BY LeavesUpdate DEF Fails, Leaves, installed

LEMMA BeginUpdate ==
  ASSUME SetupInv, UpdateInv, NEW p \in Installers, NEW q \in Requests, Begin(p, q)
  PROVE  UpdateInv'
  <1>1. run'[p].pc = "reading" /\ \A o \in Installers \ {p} : run'[o] = run[o]
    BY DEF SetupInv, Begin, Idle
  <1>2. UNCHANGED <<manifest, cli>>
    BY DEF Begin
  <1>3. Updates(p)'
    BY <1>1 DEF Updates, LockedSteps, InstallSteps, UninstallSteps, ScopeSteps
  <1> QED
    BY <1>1, <1>2, <1>3, MatchKept, AssembleUpdate

LEMMA PreflightUpdate ==
  ASSUME SetupInv, UpdateInv, NEW p \in Installers, Preflight(p)
  PROVE  UpdateInv'
  <1>1. CASE Fails(p)
    BY <1>1, FailsUpdate
  <1>2. CASE /\ InspectedAccepted(p) /\ Goes(p, [pc |-> "ready", cli |-> cli])
             /\ UNCHANGED <<installed, lock, schemaVars>>
    <2> DEFINE changes == [pc |-> "ready", cli |-> cli]
    <2>1. /\ run'[p] = [f \in DOMAIN Idle |-> IF f \in DOMAIN changes THEN changes[f] ELSE run[p][f]]
          /\ \A q \in Installers \ {p} : run'[q] = run[q]
      BY <1>2, GoesFields DEF SetupInv
    <2>2. /\ run'[p].pc = "ready" /\ run'[p].cli = cli /\ run'[p].operation = run[p].operation
          /\ run'[p].target = run[p].target /\ run'[p].scopes = run[p].scopes
          /\ run'[p].manifest = run[p].manifest
      BY <2>1 DEF Idle
    <2>3. Spares(run'[p], run'[p].manifest)
      BY <1>2, <2>2 DEF InspectedAccepted, SharedImpact, Spares
    <2>4. Updates(p)'
      BY <2>2, <2>3 DEF Updates, LockedSteps, InstallSteps, UninstallSteps, ScopeSteps
    <2>5. UNCHANGED <<manifest, cli>>
      BY <1>2 DEF installed
    <2> QED
      BY <2>1, <2>4, <2>5, MatchKept, AssembleUpdate
  <1> QED
    BY <1>1, <1>2 DEF Preflight

LEMMA LockManifestUpdate ==
  ASSUME SetupInv, UpdateInv, NEW p \in Installers, LockManifest(p)
  PROVE  UpdateInv'
  <1>1. CASE Fails(p)
    BY <1>1, FailsUpdate
  <1>2. CASE ~Fails(p)
    <2> DEFINE pc == IF run[p].operation = "install" THEN "intents" ELSE "next"
               changes == [pc |-> pc, manifest |-> None, todo |-> run[p].scopes]
    <2>1. lock = "free" /\ LockedReadback(p) /\ UNCHANGED installed /\ Goes(p, changes)
      BY <1>2 DEF LockManifest
    <2>2. Moved(p, pc, run[p].scopes, run[p].at, run[p].config, run[p].missed)
          /\ run'[p].cli = run[p].cli /\ \A q \in Installers \ {p} : run'[q] = run[q]
      BY <2>1, GoesLocked, GoesFields, GoesKeepsCLI DEF SetupInv
    <2>3. Spares(run[p], manifest)
      BY <2>1 DEF LockManifest, LockedReadback, UpdateInv, Updates
    <2>4. UNCHANGED <<manifest, cli>>
      BY <2>1 DEF installed
    <2>5. Updates(p)'
      <3> HIDE DEF changes
      <3>1. pc \notin CLISteps \cup LateSteps \cup {"ready"}
        BY DEF CLISteps, LateSteps
      <3>2. run[p].operation = "install" => pc = "intents"
        OBVIOUS
      <3> HIDE DEF pc
      <3>3. Spares(run'[p], manifest')
        BY <2>2, <2>3, <2>4 DEF Spares, Moved
      <3> QED
        BY <2>2, <3>1, <3>2, <3>3 DEF Updates, Moved
    <2> QED
      BY <2>2, <2>4, <2>5, MatchKept, AssembleUpdate
  <1> QED
    BY <1>1, <1>2

\* A step within the same operation, about no record and not the CLI.
LEMMA MovedUpdate ==
  ASSUME SetupInv, UpdateInv, NEW p \in Installers, run[p].pc \in LockedSteps \ {"unlock"},
         NEW pc \in LockedSteps \ {"intents"}, NEW todo, NEW at, NEW text, NEW missed,
         Moved(p, pc, todo, at, text, missed), run'[p].cli = run[p].cli,
         \A q \in Installers \ {p} : run'[q] = run[q],
         UNCHANGED <<manifest, cli>>,
         run[p].pc # "intents",
         run[p].operation = "install" /\ pc \in CLISteps => run[p].pc \in CLISteps \ {"skill"},
         \A s \in run[p].scopes \ todo : s \in run[p].todo => pc = "skill" /\ s = at,
         run[p].operation = "install" /\ pc \in LateSteps => todo = {}
  PROVE  UpdateInv'
  <1>1. Updates(p)
    BY DEF UpdateInv
  <1>2. Spares(run'[p], manifest')
    BY <1>1 DEF Updates, Spares, Moved
  <1>3. pc # "ready"
    BY DEF LockedSteps, InstallSteps, UninstallSteps, ScopeSteps
  <1>4. ASSUME run[p].operation = "install"
        PROVE  /\ \A s \in run[p].scopes : manifest[s].intent # None \/ manifest[s].skill = run[p].target
               /\ pc \in CLISteps =>
                    /\ cli = run[p].target
                    /\ \A s \in run[p].scopes \ todo : (pc = "skill" => s # at) => manifest[s].skill = run[p].target
    BY <1>1, <1>4 DEF Updates
  <1>5. Updates(p)'
    BY <1>2, <1>3, <1>4 DEF Updates, Moved
  <1> QED
    BY <1>5, MatchKept, AssembleUpdate

LEMMA PersistIntentUpdate ==
  ASSUME SetupInv, UpdateInv, NEW p \in Installers, PersistIntent(p)
  PROVE  UpdateInv'
  <1>1. run[p].pc = "intents" /\ run[p].pc \in LockedSteps \ {"unlock"}
    BY DEF PersistIntent, LockedSteps, InstallSteps
  <1>2. /\ lock = p /\ run[p].operation = "install" /\ run[p].target \in Versions
        /\ run[p].todo \subseteq run[p].scopes /\ run[p].scopes \subseteq Scopes
        /\ run[p].config \in [run[p].scopes -> ConfigTexts]
    BY <1>1, LockHeld DEF Holds, RunTyped, InstallSteps
  <1>3. PICK s \in run[p].todo :
          /\ manifest' = [manifest EXCEPT ![s] =
               InstallRecord(s, manifest[s], run[p].config[s], run[p].target)]
          /\ Goes(p, [pc |-> IF run[p].todo \ {s} = {} THEN "cli" ELSE "intents",
                      todo |-> run[p].todo \ {s}])
    BY DEF PersistIntent
  <1> DEFINE pc == IF run[p].todo \ {s} = {} THEN "cli" ELSE "intents"
             changes == [pc |-> pc, todo |-> run[p].todo \ {s}]
             record == InstallRecord(s, manifest[s], run[p].config[s], run[p].target)
  <1>4. Moved(p, pc, run[p].todo \ {s}, run[p].at, run[p].config, run[p].missed)
        /\ run'[p].cli = run[p].cli /\ \A q \in Installers \ {p} : run'[q] = run[q]
    BY <1>3, GoesTodo, GoesFields, GoesKeepsCLI DEF SetupInv
  <1>5. /\ s \in Scopes /\ DOMAIN manifest[s] = DOMAIN NoRecord
        /\ DOMAIN manifest = Scopes /\ RecordTyped(manifest[s])
    BY <1>2 DEF SetupInv, FilesTyped, UpdateInv
  <1>6. record.intent # None \/ (record = manifest[s] /\ record.skill = run[p].target)
    <2>1. CASE manifest[s].intent # None
      BY <1>5, <2>1 DEF InstallRecord, NoRecord
    <2>2. CASE manifest[s].intent = None /\ NothingToDo(s, manifest[s], run[p].config[s], run[p].target)
      BY <2>2 DEF InstallRecord, NothingToDo
    <2>3. CASE manifest[s].intent = None /\ ~NothingToDo(s, manifest[s], run[p].config[s], run[p].target)
      <3> DEFINE i == Intent("install", run[p].target, manifest[s], run[p].config[s])
      <3>1. record = [manifest[s] EXCEPT !.intent = i]
        BY <2>3 DEF InstallRecord
      <3>2. i # None
        BY <1>2, <1>5, IntentIsSome
      <3> HIDE DEF i
      <3> QED
        BY <1>5, <3>1, <3>2 DEF NoRecord
    <2> QED
      BY <2>1, <2>2, <2>3
  <1>15. RecordTyped(record)
    BY <1>2, <1>5 DEF InstallRecord, NoRecord, RecordTyped
  <1> HIDE DEF record
  <1>7. manifest'[s] = record /\ \A t \in Scopes \ {s} : manifest'[t] = manifest[t]
    BY <1>3, <1>5 DEF record
  <1>8. UNCHANGED cli
    BY DEF PersistIntent
  <1>9. ScopesMatchCLI'
    BY <1>6, <1>7, <1>8 DEF UpdateInv, ScopesMatchCLI, Recorded
  <1>10. Updates(p)
    BY DEF UpdateInv
  <1>11. Spares(run'[p], manifest')
    BY <1>1, <1>2, <1>4, <1>7, <1>10 DEF Updates, Spares, Moved
  <1>12. \A t \in run[p].scopes : t \notin run[p].todo \ {s} =>
           manifest'[t].intent # None \/ manifest'[t].skill = run[p].target
    BY <1>1, <1>2, <1>6, <1>7, <1>10 DEF Updates
  <1>13. pc \notin CLISteps \cup LateSteps \cup {"ready"} /\ (pc = "intents" \/ run[p].todo \ {s} = {})
    BY DEF CLISteps, LateSteps
  <1> HIDE DEF pc
  <1>14. Updates(p)'
    BY <1>2, <1>4, <1>11, <1>12, <1>13 DEF Updates, Moved
  <1>16. \A t \in Scopes : RecordTyped(manifest'[t])
    BY <1>7, <1>15 DEF UpdateInv
  <1> QED
    BY <1>2, <1>4, <1>9, <1>14, <1>16, AssembleUpdate

LEMMA InstallCLIUpdate ==
  ASSUME SetupInv, UpdateInv, NEW p \in Installers, InstallCLI(p)
  PROVE  UpdateInv'
  <1>1. CASE Fails(p)
    BY <1>1, FailsUpdate
  <1>2. CASE ~Fails(p)
    <2>1. run[p].pc = "cli" /\ run[p].pc \in LockedSteps \ {"unlock"}
      BY DEF InstallCLI, LockedSteps, InstallSteps
    <2>2. lock = p /\ run[p].operation = "install" /\ run[p].scopes \subseteq Scopes
      BY <2>1, LockHeld DEF Holds, RunTyped, InstallSteps
    <2> DEFINE changes == [pc |-> "scope", cli |-> cli', todo |-> run[p].scopes]
    <2>3. /\ run[p].cli # run[p].target \/ cli = run[p].target
          /\ cli' = run[p].target /\ Goes(p, changes) /\ UNCHANGED manifest
      BY <1>2 DEF InstallCLI
    <2>4. /\ run'[p] = [f \in DOMAIN Idle |-> IF f \in DOMAIN changes THEN changes[f] ELSE run[p][f]]
          /\ \A q \in Installers \ {p} : run'[q] = run[q]
      BY <2>3, GoesFields DEF SetupInv
    <2>5. run'[p].cli = run[p].target
      BY <2>3, <2>4 DEF Idle
    <2>6. Moved(p, "scope", run[p].scopes, run[p].at, run[p].config, run[p].missed)
      BY <2>3, GoesCliTodo DEF SetupInv
    <2> HIDE DEF changes
    <2>7. \A s \in run[p].scopes : manifest[s].intent # None \/ manifest[s].skill = run[p].target
      BY <2>1, <2>2 DEF UpdateInv, Updates
    <2>8. Spares(run[p], manifest)
      BY <2>1 DEF UpdateInv, Updates
    <2>9. ScopesMatchCLI'
      BY <2>2, <2>3, <2>7, <2>8 DEF UpdateInv, ScopesMatchCLI, Recorded, Spares
    <2>10. Updates(p)'
      BY <2>2, <2>3, <2>5, <2>6, <2>7 DEF Updates, Spares, Moved, LateSteps
    <2>11. \A s \in Scopes : RecordTyped(manifest'[s])
      BY <2>3 DEF UpdateInv
    <2> QED
      BY <2>2, <2>4, <2>9, <2>10, <2>11, AssembleUpdate
  <1> QED
    BY <1>1, <1>2

LEMMA InstallSkillUpdate ==
  ASSUME SetupInv, UpdateInv, NEW p \in Installers, InstallSkill(p)
  PROVE  UpdateInv'
  <1>1. CASE Fails(p)
    BY <1>1, FailsUpdate
  <1>2. CASE ~Fails(p)
    <2>1. run[p].pc = "scope" /\ run[p].pc \in LockedSteps \ {"unlock"}
      BY DEF InstallSkill, LockedSteps, InstallSteps
    <2>2. PICK s \in run[p].todo : Goes(p, [pc |-> "skill", at |-> s, todo |-> run[p].todo \ {s}])
      BY <1>2 DEF InstallSkill
    <2>3. Moved(p, "skill", run[p].todo \ {s}, s, run[p].config, run[p].missed)
          /\ run'[p].cli = run[p].cli /\ \A q \in Installers \ {p} : run'[q] = run[q]
      BY <2>2, GoesAtTodo, GoesFields, GoesKeepsCLI DEF SetupInv
    <2>4. UNCHANGED <<manifest, cli>>
      BY <1>2 DEF InstallSkill
    <2>5. "skill" \in LockedSteps \ {"intents"} /\ "skill" \notin LateSteps
          /\ run[p].pc \in CLISteps \ {"skill"}
      BY <2>1 DEF LockedSteps, InstallSteps, LateSteps, CLISteps
    <2> QED
      BY <2>1, <2>3, <2>4, <2>5, MovedUpdate
  <1> QED
    BY <1>1, <1>2

LEMMA SaveSkillUpdate ==
  ASSUME SetupInv, UpdateInv, NEW p \in Installers, SaveSkill(p)
  PROVE  UpdateInv'
  <1>1. run[p].pc = "skill" /\ run[p].pc \in LockedSteps \ {"unlock"}
    BY DEF SaveSkill, LockedSteps, InstallSteps
  <1>2. /\ lock = p /\ run[p].operation = "install" /\ run[p].at \in run[p].scopes
        /\ run[p].scopes \subseteq Scopes
    BY <1>1, LockHeld DEF Holds, RunTyped, InstallSteps, ScopeSteps
  <1>3. Moved(p, "config", run[p].todo, run[p].at, run[p].config, run[p].missed)
        /\ run'[p].cli = run[p].cli /\ \A q \in Installers \ {p} : run'[q] = run[q]
    BY GoesPc, GoesFields, GoesKeepsCLI DEF SetupInv, SaveSkill
  <1>4. manifest' = (IF manifest[run[p].at].intent = None THEN manifest
                     ELSE [manifest EXCEPT ![run[p].at].skill = run[p].target])
        /\ UNCHANGED cli
    BY DEF SaveSkill
  <1>5. DOMAIN manifest = Scopes /\ \A s \in Scopes : DOMAIN manifest[s] = {"plugin", "skill", "intent"}
    BY DEF SetupInv, FilesTyped, NoRecord
  <1>6. /\ \A s \in Scopes : manifest'[s].intent = manifest[s].intent
        /\ \A s \in Scopes \ {run[p].at} : manifest'[s] = manifest[s]
        /\ manifest[run[p].at].intent = None => manifest'[run[p].at] = manifest[run[p].at]
        /\ manifest[run[p].at].intent # None => manifest'[run[p].at].skill = run[p].target
    BY <1>2, <1>4, <1>5
  <1>7. Updates(p)
    BY DEF UpdateInv
  <1>8. /\ Spares(run[p], manifest) /\ cli = run[p].target
        /\ \A s \in run[p].scopes : manifest[s].intent # None \/ manifest[s].skill = run[p].target
        /\ \A s \in run[p].scopes \ run[p].todo : s # run[p].at => manifest[s].skill = run[p].target
    BY <1>1, <1>2, <1>7 DEF Updates, CLISteps
  <1>9. ScopesMatchCLI'
    BY <1>2, <1>4, <1>6 DEF UpdateInv, ScopesMatchCLI, Recorded
  <1>10. Spares(run'[p], manifest')
    BY <1>2, <1>3, <1>6, <1>8 DEF Spares, Moved
  <1>11. /\ \A s \in run[p].scopes : manifest'[s].intent # None \/ manifest'[s].skill = run[p].target
         /\ \A s \in run[p].scopes \ run[p].todo : manifest'[s].skill = run[p].target
    BY <1>2, <1>6, <1>8
  <1>12. Updates(p)'
    BY <1>3, <1>4, <1>8, <1>10, <1>11 DEF Updates, Moved, LateSteps
  <1>13. \A s \in Scopes : RecordTyped(manifest'[s])
    <2>1. run[p].target \in Versions
      BY <1>1, LockHeld DEF RunTyped
    <2> QED
      BY <1>2, <1>4, <1>5, <2>1 DEF UpdateInv, RecordTyped
  <1> QED
    BY <1>2, <1>3, <1>9, <1>12, <1>13, AssembleUpdate

\* A step of a run at a scope that only changes other files, or none.
LEMMA AtScopeUpdate ==
  ASSUME SetupInv, UpdateInv, NEW p \in Installers,
         run[p].pc \in {"config", "rename", "renamed", "plugin", "retire", "removing"},
         NEW pc \in {"rename", "renamed", "plugin", "retire", "removing", "delete", "scope"},
         NEW at, NEW text, NEW missed,
         Moved(p, pc, run[p].todo, at, text, missed), run'[p].cli = run[p].cli,
         \A q \in Installers \ {p} : run'[q] = run[q],
         UNCHANGED <<manifest, cli>>
  PROVE  UpdateInv'
  <1>1. /\ run[p].pc \in LockedSteps \ {"unlock"} /\ run[p].pc # "intents"
        /\ run[p].pc \in CLISteps \ {"skill"}
        /\ pc \in LockedSteps \ {"intents"} /\ pc \notin LateSteps
    BY DEF LockedSteps, InstallSteps, UninstallSteps, ScopeSteps, CLISteps, LateSteps
  <1> QED
    BY <1>1, MovedUpdate

LEMMA CompareConfigUpdate ==
  ASSUME SetupInv, UpdateInv, NEW p \in Installers, CompareConfig(p)
  PROVE  UpdateInv'
  <1>1. CASE Fails(p)
    BY <1>1, FailsUpdate
  <1>2. CASE ~Fails(p)
    <2>1. PICK pc \in {"plugin", "rename"} : Goes(p, [pc |-> pc])
      BY <1>2 DEF CompareConfig
    <2>2. run[p].pc = "config" /\ UNCHANGED <<manifest, cli>>
      BY <1>2 DEF CompareConfig, installed
    <2>3. Moved(p, pc, run[p].todo, run[p].at, run[p].config, run[p].missed)
          /\ run'[p].cli = run[p].cli /\ \A q \in Installers \ {p} : run'[q] = run[q]
      BY <2>1, GoesPc, GoesFields, GoesKeepsCLI DEF SetupInv
    <2> QED
      BY <2>2, <2>3, AtScopeUpdate
  <1> QED
    BY <1>1, <1>2

LEMMA RenameConfigUpdate ==
  ASSUME SetupInv, UpdateInv, NEW p \in Installers, RenameConfig(p)
  PROVE  UpdateInv'
  <1>1. Moved(p, "renamed", run[p].todo, run[p].at, run[p].config, FALSE)
        /\ run'[p].cli = run[p].cli /\ \A q \in Installers \ {p} : run'[q] = run[q]
    BY GoesMissed, GoesFields, GoesKeepsCLI DEF SetupInv, RenameConfig
  <1>2. run[p].pc = "rename" /\ UNCHANGED <<manifest, cli>>
    BY DEF RenameConfig
  <1> QED
    BY <1>1, <1>2, AtScopeUpdate

LEMMA ReadConfigUpdate ==
  ASSUME SetupInv, UpdateInv, NEW p \in Installers, ReadConfig(p)
  PROVE  UpdateInv'
  <1>1. CASE Fails(p)
    BY <1>1, FailsUpdate
  <1>2. CASE ~Fails(p)
    <2> DEFINE texts == [run[p].config EXCEPT ![run[p].at] = Switched(p)]
    <2>1. Goes(p, [pc |-> "plugin", config |-> texts])
      BY <1>2 DEF ReadConfig
    <2>2. run[p].pc = "renamed" /\ UNCHANGED <<manifest, cli>>
      BY <1>2 DEF ReadConfig, installed
    <2> HIDE DEF texts
    <2>3. Moved(p, "plugin", run[p].todo, run[p].at, texts, run[p].missed)
          /\ run'[p].cli = run[p].cli /\ \A q \in Installers \ {p} : run'[q] = run[q]
      BY <2>1, GoesConfig, GoesFields, GoesKeepsCLI DEF SetupInv
    <2> QED
      BY <2>2, <2>3, AtScopeUpdate
  <1> QED
    BY <1>1, <1>2

LEMMA SavePluginUpdate ==
  ASSUME SetupInv, UpdateInv, NEW p \in Installers, SavePlugin(p)
  PROVE  UpdateInv'
  <1>1. run[p].pc = "plugin" /\ run[p].pc \in LockedSteps \ {"unlock"}
    BY DEF SavePlugin, LockedSteps, ScopeSteps
  <1>2. /\ lock = p /\ run[p].target \in Versions /\ run[p].at \in run[p].scopes
        /\ run[p].scopes \subseteq Scopes
    BY <1>1, LockHeld DEF Holds, RunTyped, ScopeSteps
  <1>3. Moved(p, "retire", run[p].todo, run[p].at, run[p].config, run[p].missed)
        /\ run'[p].cli = run[p].cli /\ \A q \in Installers \ {p} : run'[q] = run[q]
    BY GoesPc, GoesFields, GoesKeepsCLI DEF SetupInv, SavePlugin
  <1>4. manifest' = (IF Installing(manifest[run[p].at])
                     THEN [manifest EXCEPT ![run[p].at].plugin = run[p].target] ELSE manifest)
        /\ UNCHANGED cli
    BY DEF SavePlugin
  <1>5. DOMAIN manifest = Scopes /\ \A s \in Scopes : DOMAIN manifest[s] = {"plugin", "skill", "intent"}
    BY DEF SetupInv, FilesTyped, NoRecord
  <1>6. /\ \A s \in Scopes : manifest'[s].intent = manifest[s].intent /\ manifest'[s].skill = manifest[s].skill
        /\ \A s \in Scopes \ {run[p].at} : manifest'[s] = manifest[s]
        /\ manifest[run[p].at].intent = None => manifest'[run[p].at] = manifest[run[p].at]
    BY <1>2, <1>4, <1>5 DEF Installing
  <1>7. \A s \in Scopes : RecordTyped(manifest'[s])
    BY <1>2, <1>4, <1>5 DEF UpdateInv, RecordTyped
  <1>8. ScopesMatchCLI'
    BY <1>2, <1>4, <1>6 DEF UpdateInv, ScopesMatchCLI, Recorded
  <1>9. Updates(p)
    BY DEF UpdateInv
  <1>10. Spares(run'[p], manifest')
    BY <1>1, <1>2, <1>3, <1>6, <1>9 DEF Spares, Updates, Moved
  <1>11. run[p].operation = "install" =>
           /\ cli = run[p].target
           /\ \A s \in run[p].scopes : manifest[s].intent # None \/ manifest[s].skill = run[p].target
           /\ \A s \in run[p].scopes \ run[p].todo : manifest[s].skill = run[p].target
    BY <1>1, <1>9 DEF Updates, CLISteps
  <1>12. Updates(p)'
    BY <1>2, <1>3, <1>4, <1>6, <1>10, <1>11 DEF Updates, Moved, LateSteps
  <1> QED
    BY <1>2, <1>3, <1>7, <1>8, <1>12, AssembleUpdate

LEMMA AfterRemovalUpdate ==
  ASSUME SetupInv, UpdateInv, NEW p \in Installers, run[p].pc \in {"retire", "removing"},
         Goes(p, AfterRemoval(p)), UNCHANGED <<manifest, cli>>
  PROVE  UpdateInv'
  <1>1. \A q \in Installers \ {p} : run'[q] = run[q]
    BY GoesFields DEF SetupInv
  <1>2. CASE run[p].operation = "uninstall"
    <2>1. Goes(p, [pc |-> "delete"])
      BY <1>2 DEF AfterRemoval
    <2>2. Moved(p, "delete", run[p].todo, run[p].at, run[p].config, run[p].missed)
          /\ run'[p].cli = run[p].cli
      BY <2>1, GoesPc, GoesKeepsCLI DEF SetupInv
    <2> QED
      BY <1>1, <2>2, AtScopeUpdate
  <1>3. CASE run[p].operation # "uninstall"
    <2> DEFINE pc == IF run[p].todo = {} THEN "backend" ELSE "scope"
    <2>1. run[p].operation = "install"
      BY <1>3 DEF SetupInv, RunTyped
    <2>2. Goes(p, [pc |-> pc, at |-> None])
      BY <2>1 DEF AfterRemoval
    <2>3. Moved(p, pc, run[p].todo, None, run[p].config, run[p].missed)
          /\ run'[p].cli = run[p].cli
      BY <2>2, GoesAt, GoesKeepsCLI DEF SetupInv
    <2>4. /\ run[p].pc \in LockedSteps \ {"unlock"} /\ run[p].pc # "intents"
          /\ run[p].pc \in CLISteps \ {"skill"}
          /\ pc \in LockedSteps \ {"intents"} /\ (pc \in LateSteps => run[p].todo = {})
      BY DEF LockedSteps, InstallSteps, UninstallSteps, ScopeSteps, CLISteps, LateSteps
    <2> HIDE DEF pc
    <2> QED
      BY <1>1, <2>3, <2>4, MovedUpdate
  <1> QED
    BY <1>2, <1>3

LEMMA BeginRemovalUpdate ==
  ASSUME SetupInv, UpdateInv, NEW p \in Installers, BeginRemoval(p)
  PROVE  UpdateInv'
  <1>1. run[p].pc = "retire" /\ UNCHANGED <<manifest, cli>>
    BY DEF BeginRemoval
  <1>2. CASE Goes(p, [pc |-> "removing"])
    <2>1. Moved(p, "removing", run[p].todo, run[p].at, run[p].config, run[p].missed)
          /\ run'[p].cli = run[p].cli /\ \A q \in Installers \ {p} : run'[q] = run[q]
      BY <1>2, GoesPc, GoesFields, GoesKeepsCLI DEF SetupInv
    <2> QED
      BY <1>1, <2>1, AtScopeUpdate
  <1>3. CASE Goes(p, AfterRemoval(p))
    BY <1>1, <1>3, AfterRemovalUpdate
  <1> QED
    BY <1>2, <1>3 DEF BeginRemoval

LEMMA EndRemovalUpdate ==
  ASSUME SetupInv, UpdateInv, NEW p \in Installers, EndRemoval(p)
  PROVE  UpdateInv'
  BY AfterRemovalUpdate DEF EndRemoval

LEMMA BackendUpdate ==
  ASSUME SetupInv, UpdateInv, NEW p \in Installers, PrepareBackend(p) \/ BackendReadback(p)
  PROVE  UpdateInv'
  <1>1. CASE Fails(p)
    BY <1>1, FailsUpdate
  <1>2. CASE ~Fails(p)
    <2>1. PICK pc \in {"clear", "preparing"} : Goes(p, [pc |-> pc])
      BY <1>2 DEF PrepareBackend, BackendReadback
    <2>2. run[p].pc \in {"backend", "preparing"} /\ UNCHANGED <<manifest, cli>>
      BY <1>2 DEF PrepareBackend, BackendReadback, installed
    <2>3. Moved(p, pc, run[p].todo, run[p].at, run[p].config, run[p].missed)
          /\ run'[p].cli = run[p].cli /\ \A q \in Installers \ {p} : run'[q] = run[q]
      BY <2>1, GoesPc, GoesFields, GoesKeepsCLI DEF SetupInv
    <2>4. /\ run[p].pc \in LockedSteps \ {"unlock"} /\ run[p].pc # "intents"
          /\ run[p].pc \in CLISteps \ {"skill"} /\ run[p].pc \in LateSteps
          /\ pc \in LockedSteps \ {"intents"}
      BY <2>2 DEF LockedSteps, InstallSteps, CLISteps, LateSteps
    <2>5. run[p].operation = "install" => run[p].todo = {}
      BY <2>4 DEF UpdateInv, Updates
    <2> QED
      BY <2>2, <2>3, <2>4, <2>5, MovedUpdate
  <1> QED
    BY <1>1, <1>2

LEMMA ClearIntentsUpdate ==
  ASSUME SetupInv, UpdateInv, NEW p \in Installers, ClearIntents(p)
  PROVE  UpdateInv'
  <1>1. run[p].pc = "clear" /\ run[p].pc \in LockedSteps \ {"unlock"}
    BY DEF ClearIntents, LockedSteps, InstallSteps
  <1>2. lock = p /\ run[p].operation = "install" /\ run[p].scopes \subseteq Scopes
    BY <1>1, LockHeld DEF Holds, RunTyped, InstallSteps
  <1>3. Moved(p, "unlock", run[p].todo, run[p].at, run[p].config, run[p].missed)
        /\ run'[p].cli = run[p].cli /\ \A q \in Installers \ {p} : run'[q] = run[q]
    BY GoesPc, GoesFields, GoesKeepsCLI DEF SetupInv, ClearIntents
  <1>4. /\ manifest' = [s \in Scopes |->
              IF s \in run[p].scopes THEN [manifest[s] EXCEPT !.intent = None] ELSE manifest[s]]
        /\ UNCHANGED cli
    BY DEF ClearIntents
  <1>5. \A s \in Scopes : DOMAIN manifest[s] = {"plugin", "skill", "intent"}
    BY DEF SetupInv, FilesTyped, NoRecord
  <1>6. /\ \A s \in Scopes : manifest'[s].plugin = manifest[s].plugin /\ manifest'[s].skill = manifest[s].skill
        /\ \A s \in Scopes \ run[p].scopes : manifest'[s] = manifest[s]
    BY <1>4, <1>5
  <1>7. /\ Spares(run[p], manifest) /\ cli = run[p].target /\ run[p].todo = {}
        /\ \A s \in run[p].scopes : manifest[s].skill = run[p].target
    BY <1>1, <1>2 DEF UpdateInv, Updates, CLISteps, LateSteps
  <1>8. ScopesMatchCLI'
    BY <1>2, <1>4, <1>6, <1>7 DEF UpdateInv, ScopesMatchCLI, Recorded
  <1>9. \A s \in Scopes : RecordTyped(manifest'[s])
    BY <1>6 DEF UpdateInv, RecordTyped
  <1>10. Spares(run'[p], manifest')
    BY <1>3, <1>6, <1>7 DEF Spares, Moved
  <1>11. Updates(p)'
    BY <1>3, <1>10 DEF Updates, Moved
  <1> QED
    BY <1>2, <1>3, <1>8, <1>9, <1>11, AssembleUpdate

\* An uninstall knows nothing of the CLI until it removes it.
LEMMA UninstallUpdates ==
  ASSUME NEW p \in Installers, run'[p].operation = "uninstall", run'[p].pc # "ready"
  PROVE  Updates(p)'
  BY DEF Updates, Spares

LEMMA UninstallScopeUpdate ==
  ASSUME SetupInv, UpdateInv, NEW p \in Installers, UninstallScope(p)
  PROVE  UpdateInv'
  <1>1. run[p].pc \in LockedSteps /\ run[p].pc = "next"
    BY DEF UninstallScope, LockedSteps, UninstallSteps
  <1>2. /\ lock = p /\ RunTyped(p) /\ run[p].scopes \subseteq Scopes /\ run[p].todo \subseteq run[p].scopes
        /\ run[p].config \in [run[p].scopes -> ConfigTexts] /\ run[p].operation = "uninstall"
        /\ run[p].target \in Versions
    BY <1>1, LockHeld DEF RunTyped, Holds, UninstallSteps
  <1>3. PICK s \in run[p].todo :
          /\ manifest' = IF manifest[s].intent # None THEN manifest
                         ELSE [manifest EXCEPT ![s].intent =
                                 Intent("uninstall", run[p].target, manifest[s], run[p].config[s])]
          /\ Goes(p, [pc |-> "config", at |-> s, todo |-> run[p].todo \ {s}])
    BY DEF UninstallScope
  <1>4. UNCHANGED cli
    BY DEF UninstallScope
  <1>5. Moved(p, "config", run[p].todo \ {s}, s, run[p].config, run[p].missed)
        /\ \A q \in Installers \ {p} : run'[q] = run[q]
    BY <1>3, GoesAtTodo, GoesFields DEF SetupInv
  <1>6. DOMAIN manifest = Scopes /\ \A t \in Scopes : DOMAIN manifest[t] = {"plugin", "skill", "intent"}
    BY DEF SetupInv, FilesTyped, NoRecord
  <1> DEFINE intent == Intent("uninstall", run[p].target, manifest[s], run[p].config[s])
  <1>7. intent # None
    BY <1>2, IntentIsSome DEF UpdateInv
  <1>8. /\ \A t \in Scopes : manifest'[t].plugin = manifest[t].plugin /\ manifest'[t].skill = manifest[t].skill
        /\ \A t \in Scopes : manifest'[t] = manifest[t] \/ manifest'[t].intent # None
    <2> HIDE DEF intent
    <2>1. manifest' \in {manifest, [manifest EXCEPT ![s].intent = intent]}
      BY <1>3 DEF intent
    <2> QED
      BY <1>2, <1>6, <1>7, <2>1
  <1>9. ScopesMatchCLI'
    BY <1>4, <1>8 DEF UpdateInv, ScopesMatchCLI, Recorded
  <1>10. \A t \in Scopes : RecordTyped(manifest'[t])
    BY <1>8 DEF UpdateInv, RecordTyped
  <1>11. Updates(p)'
    BY <1>2, <1>5, UninstallUpdates DEF Moved
  <1> QED
    BY <1>2, <1>5, <1>9, <1>10, <1>11, AssembleUpdate

LEMMA DeleteRecordUpdate ==
  ASSUME SetupInv, UpdateInv, NEW p \in Installers, DeleteRecord(p)
  PROVE  UpdateInv'
  <1>1. run[p].pc \in LockedSteps /\ run[p].pc = "delete"
    BY DEF DeleteRecord, LockedSteps, UninstallSteps
  <1>2. lock = p /\ run[p].operation = "uninstall"
    BY <1>1, LockHeld DEF Holds, UninstallSteps
  <1>3. Moved(p, "next", run[p].todo, None, run[p].config, run[p].missed)
        /\ \A q \in Installers \ {p} : run'[q] = run[q]
    BY GoesAt, GoesFields DEF SetupInv, DeleteRecord
  <1>4. manifest' = [manifest EXCEPT ![run[p].at] = NoRecord] /\ UNCHANGED cli
    BY DEF DeleteRecord
  <1>5. \A s \in Scopes : manifest'[s] \in {manifest[s], NoRecord}
    BY <1>4 DEF SetupInv, FilesTyped
  <1>6. ScopesMatchCLI'
    BY <1>4, <1>5 DEF UpdateInv, ScopesMatchCLI, Recorded
  <1>7. \A s \in Scopes : RecordTyped(manifest'[s])
    BY <1>5 DEF UpdateInv, RecordTyped, NoRecord
  <1>8. Updates(p)'
    BY <1>2, <1>3, UninstallUpdates DEF Moved
  <1> QED
    BY <1>2, <1>3, <1>6, <1>7, <1>8, AssembleUpdate

LEMMA RemoveCLIUpdate ==
  ASSUME SetupInv, UpdateInv, NEW p \in Installers, RemoveCLI(p)
  PROVE  UpdateInv'
  <1>1. CASE Fails(p)
    BY <1>1, FailsUpdate
  <1>2. CASE ~Fails(p)
    <2>1. run[p].pc \in LockedSteps /\ run[p].pc = "next"
      BY DEF RemoveCLI, LockedSteps, UninstallSteps
    <2>2. lock = p /\ run[p].operation = "uninstall"
      BY <2>1, LockHeld DEF Holds, UninstallSteps
    <2>3. /\ run[p].removeCLI => Recorded = {}
          /\ cli' = IF run[p].removeCLI THEN Absent ELSE cli
          /\ Goes(p, [pc |-> "unlock"]) /\ UNCHANGED manifest
      BY <1>2 DEF RemoveCLI, CLIUnreferenced
    <2>4. Moved(p, "unlock", run[p].todo, run[p].at, run[p].config, run[p].missed)
          /\ \A q \in Installers \ {p} : run'[q] = run[q]
      BY <2>3, GoesPc, GoesFields DEF SetupInv
    <2>5. ScopesMatchCLI'
      BY <2>3 DEF UpdateInv, ScopesMatchCLI, Recorded
    <2>6. \A s \in Scopes : RecordTyped(manifest'[s])
      BY <2>3 DEF UpdateInv
    <2>7. Updates(p)'
      BY <2>2, <2>4, UninstallUpdates DEF Moved
    <2> QED
      BY <2>2, <2>4, <2>5, <2>6, <2>7, AssembleUpdate
  <1> QED
    BY <1>1, <1>2

LEMMA EditConfigUpdate ==
  ASSUME SetupInv, UpdateInv, NEW s \in Scopes, NEW entry \in Versions \cup {Absent}, EditConfig(s, entry)
  PROVE  UpdateInv'
  <1>1. UNCHANGED <<manifest, cli>>
    BY DEF EditConfig
  <1>2. ASSUME NEW p \in Installers PROVE Updates(p)'
    <2>1. run'[p] = IF run[p].pc = "rename" /\ run[p].at = s
                    THEN [run[p] EXCEPT !.missed = TRUE] ELSE run[p]
      BY DEF EditConfig
    <2>2. /\ run'[p].pc = run[p].pc /\ run'[p].operation = run[p].operation
          /\ run'[p].target = run[p].target /\ run'[p].scopes = run[p].scopes
          /\ run'[p].todo = run[p].todo /\ run'[p].at = run[p].at /\ run'[p].cli = run[p].cli
          /\ run'[p].manifest = run[p].manifest
      BY <2>1 DEF SetupInv, RunTyped, Idle
    <2> QED
      BY <1>1, <2>2 DEF UpdateInv, Updates, Spares
  <1> QED
    BY <1>1, <1>2, MatchKept DEF UpdateInv

LEMMA UnchangedUpdate ==
  ASSUME UpdateInv, UNCHANGED <<manifest, cli, run>>
  PROVE  UpdateInv'
  BY DEF UpdateInv, ScopesMatchCLI, Recorded, Updates, Spares

LEMMA InstallerUpdate ==
  ASSUME SetupInv, UpdateInv, NEW p \in Installers, Installer(p)
  PROVE  UpdateInv'
  <1>1. CASE \E q \in Requests : Begin(p, q)
    BY <1>1, BeginUpdate
  <1>2. CASE Preflight(p) \/ LockManifest(p) \/ PersistIntent(p) \/ InstallCLI(p)
    BY <1>2, PreflightUpdate, LockManifestUpdate, PersistIntentUpdate, InstallCLIUpdate
  <1>3. CASE InstallSkill(p) \/ SaveSkill(p) \/ CompareConfig(p) \/ RenameConfig(p) \/ ReadConfig(p)
    BY <1>3, InstallSkillUpdate, SaveSkillUpdate, CompareConfigUpdate, RenameConfigUpdate, ReadConfigUpdate
  <1>4. CASE SavePlugin(p) \/ BeginRemoval(p) \/ EndRemoval(p) \/ PrepareBackend(p) \/ BackendReadback(p)
    BY <1>4, SavePluginUpdate, BeginRemovalUpdate, EndRemovalUpdate, BackendUpdate
  <1>5. CASE ClearIntents(p) \/ UninstallScope(p) \/ DeleteRecord(p) \/ RemoveCLI(p)
    BY <1>5, ClearIntentsUpdate, UninstallScopeUpdate, DeleteRecordUpdate, RemoveCLIUpdate
  <1>6. CASE Unlock(p) \/ Die(p)
    BY <1>6, LeavesUpdate DEF Unlock, Leaves, Die, installed
  <1> QED
    BY <1>1, <1>2, <1>3, <1>4, <1>5, <1>6 DEF Installer

LEMMA UpdateStep == SetupInv /\ UpdateInv /\ [SetupNext]_setupVars => UpdateInv'
  <1> SUFFICES ASSUME SetupInv, UpdateInv, [SetupNext]_setupVars PROVE UpdateInv'
    OBVIOUS
  <1>1. CASE \E p \in Installers : Installer(p)
    BY <1>1, InstallerUpdate
  <1>2. CASE \E s \in Scopes, entry \in Versions \cup {Absent} : EditConfig(s, entry)
    BY <1>2, EditConfigUpdate
  <1>3. CASE RemoveStaleLock \/ (\E o \in Openers : Opens(o) \/ Opening(o)) \/ UNCHANGED setupVars
    BY <1>3, UnchangedUpdate DEF RemoveStaleLock, Opens, Opening, installed, setupVars
  <1> QED
    BY <1>1, <1>2, <1>3 DEF SetupNext

LEMMA UpdateInit == SetupInit => UpdateInv
  <1> SUFFICES ASSUME SetupInit PROVE UpdateInv
    OBVIOUS
  <1>1. \A s \in Scopes : manifest[s] = NoRecord
    BY DEF SetupInit
  <1>2. \A s \in Scopes : RecordTyped(manifest[s])
    BY <1>1 DEF RecordTyped, NoRecord
  <1>3. \A p \in Installers : run[p].pc = "idle"
    BY DEF SetupInit, Idle
  <1>4. \A p \in Installers : Updates(p)
    BY <1>3 DEF Updates, LockedSteps, InstallSteps, UninstallSteps, ScopeSteps
  <1> QED
    BY <1>1, <1>2, <1>4 DEF UpdateInv, ScopesMatchCLI, Recorded

\* The records and the CLI are the ones that the runs under way have left.
THEOREM SetupUpdates == SetupSpec => []UpdateInv
  BY SetupInvariant, UpdateInit, UpdateStep, PTL DEF SetupSpec

\* A scope without a pending operation has the policy of the installed CLI,
\* whatever was installed, updated or removed since, for whichever scopes, and
\* wherever a run died in between (update.mjs:21-28).
THEOREM SetupScopesMatchCLI == SetupSpec => []ScopesMatchCLI
  <1>1. UpdateInv => ScopesMatchCLI
    BY DEF UpdateInv
  <1> QED
    BY SetupUpdates, <1>1, PTL

-----------------------------------------------------------------------------
(* What a pending operation leaves for the run that resumes it.            *)

\* The file is as the intent found it, and the operation would change it.
Untouched(s) ==
  LET i == manifest[s].intent IN
    config[s] = Managed(i.after, i.previous) /\ i.previous # IntentEntry(i)

Pending(s) ==
  LET r == manifest[s]
      i == r.intent
  IN i # None =>
       /\ i.operation \in {"install", "uninstall"} /\ i.target \in Versions
       /\ i.previousSkill \in Versions \cup {Absent}
       /\ i.after \in ConfigTexts /\ i.after.entry = IntentEntry(i)
       /\ i.after.note <= config[s].note
       /\ i.operation = "install" => payload[s][i.target] # "part"
       /\ Untouched(s) /\ i.operation = "install" /\ i.previousSkill # Absent =>
            payload[s][i.previousSkill] # "part"
       /\ Untouched(s) /\ i.operation = "install" /\ i.previous # Absent =>
            r.plugin \in {Absent, i.previous} /\ i.previousSkill = i.previous
       /\ Untouched(s) /\ i.operation = "uninstall" =>
            r.plugin = i.previous /\ r.skill = i.previous

\* What the comparison under the lock found of a scope the run has not come to.
Reviewed(p, s) ==
  LET r == manifest[s]
      text == run[p].config[s]
  IN /\ config[s].entry \in {text.entry, Absent}
     /\ r.intent = None =>
          /\ text.entry # Absent => r.plugin = text.entry /\ r.skill = text.entry
          /\ run[p].operation = "install" =>
               /\ payload[s][run[p].target] # "part"
               /\ r.skill # Absent => payload[s][r.skill] # "part"

SwitchedSteps == {"renamed", "plugin", "retire"}

\* No file goes back to an older text than the run has read, and no intent is
\* of a newer one.
Knows(p) ==
  LET c == run[p] IN
  c.pc \in LockedSteps =>
    /\ \A s \in c.scopes : c.config[s].note <= config[s].note
    /\ \A s \in c.scopes : manifest[s].intent # None => manifest[s].intent.after.note <= c.config[s].note
    /\ c.pc = "intents" \/ c.operation = "uninstall" => \A s \in c.todo : Reviewed(p, s)
    /\ c.pc \in ScopeSteps => c.at \notin c.todo
    /\ c.pc \in SwitchedSteps /\ manifest[c.at].intent # None => ~Untouched(c.at)

ResumeInv ==
  /\ \A s \in Scopes : Pending(s)
  /\ \A p \in Installers : Knows(p)

LEMMA PendingSame ==
  ASSUME NEW s, Pending(s), manifest'[s] = manifest[s], config'[s] = config[s], payload'[s] = payload[s]
  PROVE  Pending(s)'
  BY DEF Pending, Untouched

LEMMA AllPending ==
  ASSUME ResumeInv, UNCHANGED <<manifest, config, payload>>
  PROVE  \A s \in Scopes : Pending(s)'
  BY PendingSame DEF ResumeInv

LEMMA OthersKnow ==
  ASSUME SetupInv, ResumeInv, NEW p \in Installers, NEW q \in Installers \ {p}, run'[q] = run[q],
         lock \in {p, "free"} \/ UNCHANGED <<manifest, config, payload>>
  PROVE  Knows(q)'
  <1>1. Knows(q) /\ Holds(q)
    BY DEF SetupInv, ResumeInv
  <1>2. CASE lock \in {p, "free"}
    <2>1. lock # q
      BY <1>2, InstallersAssumption
    <2>2. run[q].pc \notin LockedSteps
      BY <1>1, <2>1 DEF Holds
    <2> QED
      BY <1>1, <2>2 DEF Knows
  <1>3. CASE UNCHANGED <<manifest, config, payload>>
    BY <1>1, <1>3 DEF Knows, Reviewed, Untouched
  <1> QED
    BY <1>2, <1>3

LEMMA AssembleResume ==
  ASSUME SetupInv, ResumeInv, NEW p \in Installers, \A q \in Installers \ {p} : run'[q] = run[q],
         lock \in {p, "free"} \/ UNCHANGED <<manifest, config, payload>>,
         \A s \in Scopes : Pending(s)', Knows(p)'
  PROVE  ResumeInv'
  BY OthersKnow DEF ResumeInv

LEMMA LeavesResume ==
  ASSUME SetupInv, ResumeInv, NEW p \in Installers, run' = [run EXCEPT ![p] = Idle],
         UNCHANGED <<manifest, config, payload>>
  PROVE  ResumeInv'
  <1>1. run'[p] = Idle /\ \A q \in Installers \ {p} : run'[q] = run[q]
    BY DEF SetupInv
  <1>2. Knows(p)'
    BY <1>1 DEF Idle, Knows, LockedSteps, InstallSteps, UninstallSteps, ScopeSteps
  <1> QED
    BY <1>1, <1>2, AllPending, AssembleResume

LEMMA FailsResume ==
  ASSUME SetupInv, ResumeInv, NEW p \in Installers, Fails(p)
  PROVE  ResumeInv'
  BY LeavesResume DEF Fails, Leaves, installed

\* A step before the lock.
LEMMA BeforeResume ==
  ASSUME SetupInv, ResumeInv, NEW p \in Installers, run'[p].pc \in {"reading", "ready"},
         \A q \in Installers \ {p} : run'[q] = run[q], UNCHANGED <<manifest, config, payload>>
  PROVE  ResumeInv'
  <1>1. Knows(p)'
    BY DEF Knows, LockedSteps, InstallSteps, UninstallSteps, ScopeSteps
  <1> QED
    BY <1>1, AllPending, AssembleResume

LEMMA BeginResume ==
  ASSUME SetupInv, ResumeInv, NEW p \in Installers, NEW q \in Requests, Begin(p, q)
  PROVE  ResumeInv'
  <1>1. run'[p].pc = "reading" /\ \A o \in Installers \ {p} : run'[o] = run[o]
    BY DEF SetupInv, Begin, Idle
  <1> QED
    BY <1>1, BeforeResume DEF Begin

LEMMA PreflightResume ==
  ASSUME SetupInv, ResumeInv, NEW p \in Installers, Preflight(p)
  PROVE  ResumeInv'
  <1>1. CASE Fails(p)
    BY <1>1, FailsResume
  <1>2. CASE Goes(p, [pc |-> "ready", cli |-> cli]) /\ UNCHANGED <<installed, lock, schemaVars>>
    <2>1. Moved(p, "ready", run[p].todo, run[p].at, run[p].config, run[p].missed)
          /\ \A q \in Installers \ {p} : run'[q] = run[q]
      BY <1>2, GoesCli, GoesFields DEF SetupInv
    <2> QED
      BY <1>2, <2>1, BeforeResume DEF Moved, installed
  <1> QED
    BY <1>1, <1>2 DEF Preflight

\* The entry of a scope that passes is that of its recorded policy.
LEMMA AcceptedScope ==
  ASSUME SetupInv, NEW s \in Scopes, NEW operation \in {"install", "uninstall"}, NEW target,
         ScopeAccepted(operation, target, s, manifest[s], config[s]), manifest[s].intent = None
  PROVE  /\ config[s].entry # Absent =>
              manifest[s].plugin = config[s].entry /\ manifest[s].skill = config[s].entry
         /\ operation = "install" =>
              /\ payload[s][target] # "part"
              /\ manifest[s].skill # Absent => payload[s][manifest[s].skill] # "part"
  <1>1. /\ EffectivePlugin(manifest[s], config[s]) = manifest[s].plugin
        /\ EffectiveSkill(manifest[s], config[s]) = manifest[s].skill
    BY DEF EffectivePlugin, EffectiveSkill, Committed, Installing
  <1>2. PluginAccepted(manifest[s], config[s])
        /\ SkillAccepted(operation, target, s, manifest[s].skill)
    BY <1>1 DEF ScopeAccepted
  <1>3. ASSUME config[s].entry # Absent
        PROVE  manifest[s].plugin = config[s].entry /\ manifest[s].skill = config[s].entry
    <2>1. config[s].entry \in Versions
      BY <1>3 DEF SetupInv, FilesTyped, ConfigTexts
    <2>2. config[s].entry \in Discovered(s)
      BY <2>1 DEF SetupInv, PolicyPresent, Discovered
    <2>3. config[s].entry = manifest[s].skill
      BY <1>2, <2>2 DEF SkillAccepted
    <2> QED
      BY <1>1, <1>2, <1>3, <2>3 DEF PluginAccepted
  <1> QED
    BY <1>2, <1>3 DEF SkillAccepted

LEMMA LockManifestResume ==
  ASSUME SetupInv, ResumeInv, NEW p \in Installers, LockManifest(p)
  PROVE  ResumeInv'
  <1>1. CASE Fails(p)
    BY <1>1, FailsResume
  <1>2. CASE ~Fails(p)
    <2> DEFINE pc == IF run[p].operation = "install" THEN "intents" ELSE "next"
    <2>1. /\ LockedReadback(p) /\ UNCHANGED installed
          /\ Goes(p, [pc |-> pc, manifest |-> None, todo |-> run[p].scopes])
      BY <1>2 DEF LockManifest
    <2>2. Moved(p, pc, run[p].scopes, run[p].at, run[p].config, run[p].missed)
          /\ \A q \in Installers \ {p} : run'[q] = run[q]
      BY <2>1, GoesLocked, GoesFields DEF SetupInv
    <2>3. /\ run[p].scopes \subseteq Scopes /\ run[p].operation \in {"install", "uninstall"}
      BY DEF SetupInv, RunTyped, LockManifest
    <2>4. UNCHANGED <<manifest, config, payload>>
      BY <2>1 DEF installed
    <2>5. \A s \in run[p].scopes : run[p].config[s] = config[s]
      BY <2>1 DEF LockedReadback
    <2>6. ASSUME NEW s \in run[p].scopes PROVE Reviewed(p, s)'
      <3>1. ScopeAccepted(run[p].operation, run[p].target, s, manifest[s], config[s])
        BY <2>1, <2>5 DEF LockedReadback, Accepted
      <3>2. s \in Scopes
        BY <2>3
      <3> QED
        BY <2>2, <2>3, <2>4, <2>5, <3>1, <3>2, AcceptedScope DEF Reviewed, Moved
    <2>7. ASSUME NEW s \in run[p].scopes
          PROVE  /\ config[s].note \in Nat
                 /\ manifest[s].intent # None => manifest[s].intent.after.note <= config[s].note
      BY <2>3 DEF SetupInv, FilesTyped, ConfigTexts, ResumeInv, Pending
    <2>8. pc \notin ScopeSteps \cup SwitchedSteps
      BY DEF ScopeSteps, SwitchedSteps
    <2> HIDE DEF pc
    <2>9. Knows(p)'
      BY <2>2, <2>4, <2>5, <2>6, <2>7, <2>8 DEF Knows, Moved
    <2> QED
      BY <2>2, <2>4, <2>9, AllPending, AssembleResume
  <1> QED
    BY <1>1, <1>2

\* A step of a run with the lock that changes neither the records nor the
\* configuration.
LEMMA FurtherKnows ==
  ASSUME SetupInv, ResumeInv, NEW p \in Installers, run[p].pc \in LockedSteps,
         NEW pc, NEW todo, NEW at, NEW missed,
         Moved(p, pc, todo, at, run[p].config, missed),
         UNCHANGED <<manifest, config>>,
         pc # "intents", todo \subseteq run[p].todo \/ run[p].operation = "install",
         pc \in ScopeSteps => at \notin todo,
         pc \in SwitchedSteps /\ manifest[at].intent # None => ~Untouched(at)
  PROVE  Knows(p)'
  <1>1. Knows(p) /\ run[p].operation \in {"install", "uninstall"}
    BY LockHeld DEF ResumeInv, RunTyped
  <1>2. run[p].operation = "uninstall" => \A s \in todo : Reviewed(p, s)'
    BY <1>1 DEF Knows, Reviewed, Moved
  <1> QED
    BY <1>1, <1>2 DEF Knows, Moved, Untouched

LEMMA FurtherResume ==
  ASSUME SetupInv, ResumeInv, NEW p \in Installers, run[p].pc \in LockedSteps,
         NEW pc, NEW todo, NEW at, NEW missed,
         Moved(p, pc, todo, at, run[p].config, missed),
         \A q \in Installers \ {p} : run'[q] = run[q],
         UNCHANGED <<manifest, config, payload>>,
         pc # "intents", todo \subseteq run[p].todo \/ run[p].operation = "install",
         pc \in ScopeSteps => at \notin todo,
         pc \in SwitchedSteps /\ manifest[at].intent # None => ~Untouched(at)
  PROVE  ResumeInv'
  <1>1. Knows(p)'
    BY FurtherKnows
  <1> QED
    BY <1>1, AllPending, AssembleResume

\* An intent that the run has just formed from what it has read.
LEMMA FreshIntent ==
  ASSUME NEW s, NEW operation \in {"install", "uninstall"}, NEW target \in Versions,
         NEW r, RecordTyped(r), NEW text \in ConfigTexts,
         manifest'[s].intent = Intent(operation, target, r, text),
         manifest'[s].plugin = r.plugin, manifest'[s].skill = r.skill,
         UNCHANGED <<config, payload>>,
         text.note <= config[s].note, config[s].entry \in {text.entry, Absent},
         text.entry # Absent => r.plugin = text.entry /\ r.skill = text.entry,
         operation = "install" =>
           /\ payload[s][target] # "part"
           /\ r.skill # Absent => payload[s][r.skill] # "part"
  PROVE  Pending(s)' /\ manifest'[s].intent.after.note = text.note
  <1> DEFINE i == Intent(operation, target, r, text)
             entry == IF operation = "install" THEN target ELSE Absent
  <1>1. i.after = Managed(text, entry)
    BY DEF Intent
  <1>2. /\ i.after \in ConfigTexts /\ i.after.entry = entry /\ i.after.note = text.note
    BY <1>1 DEF Managed, ConfigTexts
  <1>3. /\ i.operation = operation /\ i.target = target /\ i.previousSkill = r.skill
        /\ i.previous = IF operation = "install" THEN text.entry ELSE r.plugin
    BY DEF Intent
  <1>4. IntentEntry(i) = entry
    BY <1>3 DEF IntentEntry
  <1>5. manifest'[s].intent = i
    OBVIOUS
  <1> HIDE DEF i
  <1>6. Managed(i.after, i.previous).entry = i.previous
    BY <1>2 DEF Managed, ConfigTexts
  <1>7. Untouched(s)' => config[s].entry = i.previous /\ i.previous # entry
    BY <1>4, <1>5, <1>6 DEF Untouched
  <1>8. Untouched(s)' /\ operation = "uninstall" => r.plugin = i.previous /\ r.skill = i.previous
    BY <1>3, <1>7
  <1> QED
    BY <1>2, <1>3, <1>4, <1>5, <1>8 DEF Pending, RecordTyped

\* A resumed intent whose file has been switched is not touched again.
LEMMA ResumedIntent ==
  ASSUME NEW s, Pending(s), manifest[s].intent # None, manifest[s].intent.operation = "install",
         manifest'[s].intent = manifest[s].intent,
         manifest'[s].plugin = manifest[s].plugin \/ config[s].entry # manifest[s].intent.previous
           \/ manifest[s].intent.previous = Absent \/ ~Untouched(s),
         UNCHANGED <<config, payload>>
  PROVE  Pending(s)'
  <1>1. Untouched(s)' = Untouched(s)
    BY DEF Untouched
  <1>2. Untouched(s) => config[s].entry = manifest[s].intent.previous
    BY DEF Untouched, Pending, Managed, ConfigTexts
  <1> QED
    BY <1>1, <1>2 DEF Pending

LEMMA PersistIntentResume ==
  ASSUME SetupInv, UpdateInv, ResumeInv, NEW p \in Installers, PersistIntent(p)
  PROVE  ResumeInv'
  <1>1. run[p].pc = "intents" /\ run[p].pc \in LockedSteps
    BY DEF PersistIntent, LockedSteps, InstallSteps
  <1>2. /\ lock = p /\ run[p].operation = "install" /\ run[p].target \in Versions
        /\ run[p].todo \subseteq run[p].scopes /\ run[p].scopes \subseteq Scopes
        /\ run[p].config \in [run[p].scopes -> ConfigTexts]
        /\ \A t \in run[p].scopes : Agrees(p, t)
    BY <1>1, LockHeld DEF Holds, RunTyped, InstallSteps
  <1>3. PICK s \in run[p].todo :
          /\ manifest' = [manifest EXCEPT ![s] =
               InstallRecord(s, manifest[s], run[p].config[s], run[p].target)]
          /\ Goes(p, [pc |-> IF run[p].todo \ {s} = {} THEN "cli" ELSE "intents",
                      todo |-> run[p].todo \ {s}])
    BY DEF PersistIntent
  <1> DEFINE pc == IF run[p].todo \ {s} = {} THEN "cli" ELSE "intents"
             r == manifest[s]
             text == run[p].config[s]
             record == InstallRecord(s, r, text, run[p].target)
             intent == Intent("install", run[p].target, r, text)
  <1>4. Moved(p, pc, run[p].todo \ {s}, run[p].at, run[p].config, run[p].missed)
        /\ \A q \in Installers \ {p} : run'[q] = run[q]
    BY <1>3, GoesTodo, GoesFields DEF SetupInv
  <1>5. UNCHANGED <<config, payload>>
    BY DEF PersistIntent
  <1>6. /\ s \in Scopes /\ DOMAIN r = {"plugin", "skill", "intent"} /\ DOMAIN manifest = Scopes
        /\ text \in ConfigTexts
        /\ RecordTyped(r)
    BY <1>2 DEF SetupInv, UpdateInv, FilesTyped, NoRecord
  <1>7. manifest'[s] = record /\ \A t \in Scopes \ {s} : manifest'[t] = manifest[t]
    BY <1>3, <1>6
  <1>8. /\ Knows(p) /\ Pending(s) /\ Reviewed(p, s) /\ Agrees(p, s)
        /\ text.note <= config[s].note
        /\ r.intent # None => r.intent.after.note <= text.note
    BY <1>1, <1>2, <1>6 DEF ResumeInv, Knows
  <1>9. Pending(s)' /\ (manifest'[s].intent # None => manifest'[s].intent.after.note <= text.note)
    <2>1. CASE r.intent # None
      <3>1. /\ record.intent = r.intent
            /\ record.plugin = r.plugin \/ Committed(r, text)
        BY <1>6, <2>1 DEF InstallRecord
      <3>2. Committed(r, text) => config[s].entry # r.intent.previous \/ r.intent.previous = Absent \/ ~Untouched(s)
        BY <1>8, <2>1 DEF Committed, Reviewed, Pending, Untouched
      <3>3. r.intent.operation = "install"
        BY <1>2, <1>8, <2>1 DEF Agrees
      <3> HIDE DEF record
      <3>4. Pending(s)'
        BY <1>5, <1>7, <1>8, <2>1, <3>1, <3>2, <3>3, ResumedIntent
      <3> QED
        BY <1>7, <1>8, <2>1, <3>1, <3>4
    <2>2. CASE r.intent = None /\ record = r
      <3>1. Pending(s)'
        BY <1>5, <1>7, <1>8, <2>2, PendingSame
      <3> QED
        BY <1>7, <2>2, <3>1
    <2>3. CASE r.intent = None /\ record = [r EXCEPT !.intent = intent]
      <3> HIDE DEF intent
      <3>1. record.intent = intent /\ record.plugin = r.plugin /\ record.skill = r.skill
        BY <1>6, <2>3
      <3> HIDE DEF record
      <3>2. /\ text.entry # Absent => r.plugin = text.entry /\ r.skill = text.entry
            /\ payload[s][run[p].target] # "part"
            /\ r.skill # Absent => payload[s][r.skill] # "part"
            /\ config[s].entry \in {text.entry, Absent}
        BY <1>2, <1>8, <2>3 DEF Reviewed
      <3>3. Pending(s)' /\ manifest'[s].intent.after.note = text.note
        BY <1>2, <1>5, <1>6, <1>7, <1>8, <3>1, <3>2, FreshIntent DEF intent
      <3> QED
        BY <1>6, <3>3 DEF ConfigTexts
    <2> QED
      BY <2>1, <2>2, <2>3 DEF InstallRecord
  <1> HIDE DEF record, intent
  <1>10. \A t \in Scopes : Pending(t)'
    BY <1>5, <1>7, <1>9, PendingSame DEF ResumeInv
  <1>11. \A t \in run[p].todo \ {s} : Reviewed(p, t)'
    BY <1>1, <1>2, <1>4, <1>5, <1>7, <1>8 DEF Knows, Reviewed, Moved
  <1>12. pc \notin ScopeSteps \cup SwitchedSteps
    BY DEF ScopeSteps, SwitchedSteps
  <1> HIDE DEF pc
  <1>13. \A t \in run[p].scopes : manifest'[t].intent # None => manifest'[t].intent.after.note <= run[p].config[t].note
    BY <1>1, <1>2, <1>7, <1>8, <1>9 DEF Knows
  <1>14. Knows(p)'
    BY <1>1, <1>4, <1>5, <1>8, <1>11, <1>12, <1>13 DEF Knows, Moved
  <1> QED
    BY <1>2, <1>4, <1>10, <1>14, AssembleResume

LEMMA InstallCLIResume ==
  ASSUME SetupInv, ResumeInv, NEW p \in Installers, InstallCLI(p)
  PROVE  ResumeInv'
  <1>1. CASE Fails(p)
    BY <1>1, FailsResume
  <1>2. CASE ~Fails(p)
    <2>1. run[p].pc = "cli" /\ run[p].pc \in LockedSteps
      BY DEF InstallCLI, LockedSteps, InstallSteps
    <2>2. run[p].operation = "install"
      BY <2>1, LockHeld DEF Holds, InstallSteps
    <2>3. Goes(p, [pc |-> "scope", cli |-> cli', todo |-> run[p].scopes])
          /\ UNCHANGED <<manifest, config, payload>>
      BY <1>2 DEF InstallCLI
    <2>4. Moved(p, "scope", run[p].scopes, run[p].at, run[p].config, run[p].missed)
          /\ \A q \in Installers \ {p} : run'[q] = run[q]
      BY <2>3, GoesCliTodo, GoesFields DEF SetupInv
    <2>5. "scope" \notin ScopeSteps \cup SwitchedSteps
      BY DEF ScopeSteps, SwitchedSteps
    <2> QED
      BY <2>1, <2>2, <2>3, <2>4, <2>5, FurtherResume
  <1> QED
    BY <1>1, <1>2


\* Payloads only get more complete, and the file and the record stay.
LEMMA PendingFuller ==
  ASSUME NEW s, Pending(s), manifest'[s] = manifest[s], config'[s] = config[s],
         \A v \in Versions : payload[s][v] # "part" => payload'[s][v] # "part"
  PROVE  Pending(s)'
  BY DEF Pending, Untouched

LEMMA InstallSkillResume ==
  ASSUME SetupInv, ResumeInv, NEW p \in Installers, InstallSkill(p)
  PROVE  ResumeInv'
  <1>1. CASE Fails(p)
    BY <1>1, FailsResume
  <1>2. CASE ~Fails(p)
    <2>1. run[p].pc = "scope" /\ run[p].pc \in LockedSteps
      BY DEF InstallSkill, LockedSteps, InstallSteps
    <2>2. /\ lock = p /\ run[p].operation = "install" /\ run[p].target \in Versions
          /\ run[p].scopes \subseteq Scopes /\ run[p].todo \subseteq run[p].scopes
      BY <2>1, LockHeld DEF Holds, RunTyped, InstallSteps
    <2>3. PICK s \in run[p].todo :
            /\ payload' = IF NeedsPolicy(p, s)
                          THEN [payload EXCEPT ![s][run[p].target] = "whole"] ELSE payload
            /\ Goes(p, [pc |-> "skill", at |-> s, todo |-> run[p].todo \ {s}])
      BY <1>2 DEF InstallSkill
    <2>4. UNCHANGED <<manifest, config>>
      BY <1>2 DEF InstallSkill
    <2>5. Moved(p, "skill", run[p].todo \ {s}, s, run[p].config, run[p].missed)
          /\ \A q \in Installers \ {p} : run'[q] = run[q]
      BY <2>3, GoesAtTodo, GoesFields DEF SetupInv
    <2>6. ASSUME NEW t \in Scopes, NEW v \in Versions PROVE payload'[t][v] \in {payload[t][v], "whole"}
      BY <2>2, <2>3 DEF SetupInv, FilesTyped
    <2>7. \A t \in Scopes : Pending(t)'
      BY <2>4, <2>6, PendingFuller DEF ResumeInv
    <2>8. "skill" \notin SwitchedSteps
      BY DEF SwitchedSteps
    <2>9. Knows(p)'
      BY <2>1, <2>2, <2>4, <2>5, <2>8 DEF ResumeInv, Knows, Moved
    <2> QED
      BY <2>2, <2>5, <2>7, <2>9, AssembleResume
  <1> QED
    BY <1>1, <1>2

\* A step of an install that saves a field of a record beside the intent.
LEMMA SavesResume ==
  ASSUME SetupInv, ResumeInv, NEW p \in Installers, run[p].pc \in LockedSteps, run[p].pc # "intents",
         run[p].operation = "install", NEW pc, pc # "intents",
         Moved(p, pc, run[p].todo, run[p].at, run[p].config, run[p].missed),
         \A q \in Installers \ {p} : run'[q] = run[q],
         run[p].pc \in ScopeSteps,
         pc \in SwitchedSteps /\ manifest[run[p].at].intent # None => ~Untouched(run[p].at),
         \A t \in Scopes : manifest'[t].intent = manifest[t].intent,
         \A t \in Scopes : Pending(t)',
         UNCHANGED <<config, payload>>
  PROVE  ResumeInv'
  <1>1. lock = p /\ Knows(p) /\ run[p].scopes \subseteq Scopes /\ run[p].at \in run[p].scopes
    BY LockHeld DEF ResumeInv, RunTyped, Holds
  <1>2. \A t \in Scopes : Untouched(t)' = Untouched(t)
    BY DEF Untouched
  <1>3. \A t \in run[p].scopes : manifest'[t].intent = manifest[t].intent
    BY <1>1
  <1>4. run'[p].pc = pc /\ run'[p].at = run[p].at /\ run'[p].todo = run[p].todo
        /\ run'[p].scopes = run[p].scopes /\ run'[p].config = run[p].config /\ run'[p].operation = "install"
    BY DEF Moved
  <1>5. Knows(p)'
    BY <1>1, <1>2, <1>3, <1>4 DEF Knows
  <1> QED
    BY <1>1, <1>4, <1>5, AssembleResume

LEMMA SaveSkillResume ==
  ASSUME SetupInv, ResumeInv, NEW p \in Installers, SaveSkill(p)
  PROVE  ResumeInv'
  <1>1. run[p].pc = "skill" /\ run[p].pc \in LockedSteps /\ run[p].pc \in ScopeSteps
    BY DEF SaveSkill, LockedSteps, ScopeSteps
  <1>2. /\ run[p].operation = "install" /\ run[p].at \in Scopes
        /\ Agrees(p, run[p].at) /\ run[p].at \notin run[p].todo
    BY <1>1, LockHeld DEF Holds, RunTyped, InstallSteps, ResumeInv, Knows
  <1>0. PICK s : s = run[p].at
    OBVIOUS
  <1>3. Moved(p, "config", run[p].todo, s, run[p].config, run[p].missed)
        /\ \A q \in Installers \ {p} : run'[q] = run[q]
    BY <1>0, GoesPc, GoesFields DEF SetupInv, SaveSkill
  <1>4. UNCHANGED <<config, payload>>
    BY <1>0 DEF SaveSkill
  <1>5. CASE manifest[s].intent = None
    <2>1. manifest' = manifest
      BY <1>0, <1>5 DEF SaveSkill
    <2>2. "config" \notin SwitchedSteps
      BY <1>0 DEF SwitchedSteps
    <2> QED
      BY <1>0, <1>1, <1>2, <1>3, <1>4, <2>1, <2>2, FurtherResume
  <1>6. CASE manifest[s].intent # None
    <2>1. manifest' = [manifest EXCEPT ![s].skill = run[p].target]
      BY <1>0, <1>6 DEF SaveSkill
    <2>2. /\ \A t \in Scopes : manifest'[t].intent = manifest[t].intent
          /\ \A t \in Scopes : manifest'[t].plugin = manifest[t].plugin
          /\ \A t \in Scopes \ {s} : manifest'[t] = manifest[t]
      BY <1>0, <1>2, <2>1 DEF SetupInv, FilesTyped, NoRecord
    <2>3. manifest[s].intent.operation = "install" /\ Pending(s)
      BY <1>0, <1>2, <1>6 DEF Agrees, ResumeInv
    <2>4. Pending(s)'
      BY <1>0, <1>2, <1>4, <1>6, <2>2, <2>3, ResumedIntent
    <2>5. \A t \in Scopes : Pending(t)'
      BY <1>0, <1>4, <2>2, <2>4, PendingSame DEF ResumeInv
    <2>6. "config" \notin SwitchedSteps
      BY <1>0 DEF SwitchedSteps
    <2> QED
      BY <1>0, <1>1, <1>2, <1>3, <1>4, <2>2, <2>5, <2>6, SavesResume
  <1> QED
    BY <1>0, <1>5, <1>6

LEMMA CompareConfigResume ==
  ASSUME SetupInv, ResumeInv, NEW p \in Installers, CompareConfig(p)
  PROVE  ResumeInv'
  <1>1. CASE Fails(p)
    BY <1>1, FailsResume
  <1>2. CASE ~Fails(p)
    <2>1. run[p].pc = "config" /\ run[p].pc \in LockedSteps /\ run[p].pc \in ScopeSteps
      BY DEF CompareConfig, LockedSteps, ScopeSteps
    <2>2. run[p].at \in Scopes /\ run[p].at \notin run[p].todo
      BY <2>1, LockHeld DEF Holds, RunTyped, ResumeInv, Knows
    <2>3. PICK pc \in {"plugin", "rename"} :
            Goes(p, [pc |-> pc]) /\ (pc = "plugin" => EntryAsIntended(p))
      BY <1>2 DEF CompareConfig
    <2>4. UNCHANGED <<manifest, config, payload>>
      BY <1>2 DEF CompareConfig, installed
    <2>5. Moved(p, pc, run[p].todo, run[p].at, run[p].config, run[p].missed)
          /\ \A q \in Installers \ {p} : run'[q] = run[q]
      BY <2>3, GoesPc, GoesFields DEF SetupInv
    <2>6. ASSUME pc \in SwitchedSteps, manifest[run[p].at].intent # None
          PROVE  ~Untouched(run[p].at)
      <3>1. config[run[p].at].entry = IntentEntry(manifest[run[p].at].intent)
        BY <2>3, <2>6 DEF EntryAsIntended, SwitchedSteps
      <3>2. manifest[run[p].at].intent.after \in ConfigTexts
        BY <2>2, <2>6 DEF ResumeInv, Pending
      <3> QED
        BY <3>1, <3>2 DEF Untouched, Managed, ConfigTexts
    <2>7. pc # "intents"
      BY <2>3
    <2> QED
      BY <2>1, <2>2, <2>4, <2>5, <2>6, <2>7, FurtherResume
  <1> QED
    BY <1>1, <1>2

\* The file of the scope is switched: its entry is the intended one.
LEMMA SwitchedEntry ==
  ASSUME SetupInv, NEW p \in Installers, run[p].pc \in {"rename", "renamed"}
  PROVE  /\ run[p].config[run[p].at] \in ConfigTexts
         /\ Switched(p).entry = IntentEntry(manifest[run[p].at].intent)
         /\ Switched(p).note = run[p].config[run[p].at].note
  <1>1. run[p].pc \in LockedSteps /\ run[p].pc \in ScopeSteps
    BY DEF LockedSteps, ScopeSteps
  <1>2. run[p].config[run[p].at] \in ConfigTexts
    BY <1>1, LockHeld DEF Holds, RunTyped
  <1> QED
    BY <1>2 DEF Switched, Managed, ConfigTexts

LEMMA RenameConfigResume ==
  ASSUME SetupInv, ResumeInv, NEW p \in Installers, RenameConfig(p)
  PROVE  ResumeInv'
  <1>1. run[p].pc = "rename" /\ run[p].pc \in LockedSteps /\ run[p].pc \in ScopeSteps
    BY DEF RenameConfig, LockedSteps, ScopeSteps
  <1>0. PICK s : s = run[p].at
    OBVIOUS
  <1>2. /\ lock = p /\ run[p].scopes \subseteq Scopes /\ s \in run[p].scopes
        /\ manifest[s].intent # None /\ run[p].operation \in {"install", "uninstall"}
        /\ run[p].todo \subseteq run[p].scopes
        /\ \A t \in run[p].scopes : run[p].config[t] \in ConfigTexts
    BY <1>0, <1>1, LockHeld DEF Holds, RunTyped
  <1>3. Knows(p) /\ Pending(s) /\ s \notin run[p].todo
    BY <1>0, <1>1, <1>2 DEF ResumeInv, Knows
  <1>4. Moved(p, "renamed", run[p].todo, s, run[p].config, FALSE)
        /\ \A q \in Installers \ {p} : run'[q] = run[q]
    BY <1>0, GoesMissed, GoesFields DEF SetupInv, RenameConfig
  <1>5. /\ config'[s] = Switched(p) /\ \A t \in Scopes \ {s} : config'[t] = config[t]
        /\ UNCHANGED <<manifest, payload>>
    BY <1>0, <1>2 DEF SetupInv, FilesTyped, RenameConfig
  <1>6. /\ config'[s].entry = IntentEntry(manifest[s].intent)
        /\ config'[s].note = run[p].config[s].note
    BY <1>0, <1>1, <1>5, SwitchedEntry
  <1>7. ~Untouched(s)'
    <2>1. Managed(manifest[s].intent.after, manifest[s].intent.previous).entry = manifest[s].intent.previous
      BY <1>0, <1>2, <1>3 DEF Pending, Managed, ConfigTexts
    <2> QED
      BY <1>0, <1>5, <1>6, <2>1 DEF Untouched
  <1>8. manifest[s].intent.after.note <= config'[s].note
    BY <1>0, <1>1, <1>2, <1>3, <1>6 DEF Knows
  <1>9. Pending(s)'
    BY <1>0, <1>3, <1>5, <1>7, <1>8 DEF Pending
  <1>10. \A t \in Scopes : Pending(t)'
    BY <1>0, <1>5, <1>9, PendingSame DEF ResumeInv
  <1>11. \A t \in run[p].scopes : run[p].config[t].note <= config'[t].note
    BY <1>0, <1>1, <1>2, <1>3, <1>5, <1>6 DEF Knows, ConfigTexts
  <1>12. run[p].operation = "uninstall" => \A t \in run[p].todo : Reviewed(p, t)'
    <2>1. \A t \in run[p].todo : config'[t] = config[t]
      BY <1>0, <1>2, <1>3, <1>5
    <2> QED
      BY <1>0, <1>1, <1>3, <1>4, <1>5, <2>1 DEF Knows, Reviewed, Moved
  <1>13. /\ run'[p].pc = "renamed" /\ run'[p].at = s /\ run'[p].todo = run[p].todo
         /\ run'[p].scopes = run[p].scopes /\ run'[p].config = run[p].config
         /\ run'[p].operation = run[p].operation
    BY <1>0, <1>4 DEF Moved
  <1>14. Knows(p)'
    BY <1>0, <1>1, <1>3, <1>5, <1>7, <1>11, <1>12, <1>13 DEF Knows
  <1> QED
    BY <1>0, <1>2, <1>4, <1>10, <1>14, AssembleResume

LEMMA ReadConfigResume ==
  ASSUME SetupInv, ResumeInv, NEW p \in Installers, ReadConfig(p)
  PROVE  ResumeInv'
  <1>1. CASE Fails(p)
    BY <1>1, FailsResume
  <1>2. CASE ~Fails(p)
    <2> DEFINE texts == [run[p].config EXCEPT ![run[p].at] = Switched(p)]
    <2>1. run[p].pc = "renamed" /\ run[p].pc \in LockedSteps /\ run[p].pc \in ScopeSteps
          /\ run[p].pc \in SwitchedSteps
      BY DEF ReadConfig, LockedSteps, ScopeSteps, SwitchedSteps
    <2>2. /\ lock = p /\ run[p].scopes \subseteq Scopes /\ run[p].at \in run[p].scopes
          /\ run[p].config \in [run[p].scopes -> ConfigTexts]
          /\ run[p].todo \subseteq run[p].scopes
      BY <2>1, LockHeld DEF Holds, RunTyped
    <2>3. /\ config[run[p].at] = Switched(p) /\ Goes(p, [pc |-> "plugin", config |-> texts])
          /\ UNCHANGED <<manifest, config, payload>>
      BY <1>2 DEF ReadConfig, installed
    <2>4. Moved(p, "plugin", run[p].todo, run[p].at, texts, run[p].missed)
          /\ \A q \in Installers \ {p} : run'[q] = run[q]
      BY <2>3, GoesConfig, GoesFields DEF SetupInv
    <2>5. Knows(p) /\ run[p].at \notin run[p].todo
          /\ (manifest[run[p].at].intent # None => ~Untouched(run[p].at))
      BY <2>1 DEF ResumeInv, Knows
    <2>6. /\ texts[run[p].at] = config[run[p].at]
          /\ \A t \in run[p].scopes \ {run[p].at} : texts[t] = run[p].config[t]
      BY <2>2, <2>3
    <2>7. manifest[run[p].at].intent # None => manifest[run[p].at].intent.after.note <= config[run[p].at].note
      BY <2>2 DEF ResumeInv, Pending
    <2>8. config[run[p].at].note \in Nat
      BY <2>2 DEF SetupInv, FilesTyped, ConfigTexts
    <2> HIDE DEF texts
    <2>9. \A t \in run[p].scopes :
            /\ texts[t].note <= config[t].note
            /\ manifest[t].intent # None => manifest[t].intent.after.note <= texts[t].note
      BY <2>1, <2>5, <2>6, <2>7, <2>8 DEF Knows
    <2>10. run[p].operation = "uninstall" => \A t \in run[p].todo : Reviewed(p, t)'
      <3>1. \A t \in run[p].todo : texts[t] = run[p].config[t]
        BY <2>2, <2>5, <2>6
      <3> QED
        BY <2>1, <2>3, <2>4, <2>5, <3>1 DEF Knows, Reviewed, Moved
    <2>11. /\ run'[p].pc = "plugin" /\ run'[p].at = run[p].at /\ run'[p].todo = run[p].todo
           /\ run'[p].scopes = run[p].scopes /\ run'[p].config = texts
           /\ run'[p].operation = run[p].operation
      BY <2>4 DEF Moved
    <2>12. \A t : Untouched(t)' = Untouched(t)
      BY <2>3 DEF Untouched
    <2>13. Knows(p)'
      BY <2>3, <2>5, <2>9, <2>10, <2>11, <2>12 DEF Knows
    <2> QED
      BY <2>2, <2>3, <2>4, <2>13, AllPending, AssembleResume
  <1> QED
    BY <1>1, <1>2

LEMMA SavePluginResume ==
  ASSUME SetupInv, ResumeInv, NEW p \in Installers, SavePlugin(p)
  PROVE  ResumeInv'
  <1>0. PICK s : s = run[p].at
    OBVIOUS
  <1>1. run[p].pc = "plugin" /\ run[p].pc \in LockedSteps /\ run[p].pc \in ScopeSteps
        /\ run[p].pc \in SwitchedSteps
    BY DEF SavePlugin, LockedSteps, ScopeSteps, SwitchedSteps
  <1>2. /\ s \in Scopes /\ Agrees(p, s) /\ s \notin run[p].todo
        /\ manifest[s].intent # None => ~Untouched(s)
    BY <1>0, <1>1, LockHeld DEF Holds, RunTyped, ResumeInv, Knows
  <1>3. Moved(p, "retire", run[p].todo, s, run[p].config, run[p].missed)
        /\ \A q \in Installers \ {p} : run'[q] = run[q]
    BY <1>0, GoesPc, GoesFields DEF SetupInv, SavePlugin
  <1>4. UNCHANGED <<config, payload>>
    BY DEF SavePlugin
  <1>5. CASE ~Installing(manifest[s])
    <2>1. manifest' = manifest
      BY <1>0, <1>5 DEF SavePlugin
    <2> QED
      BY <1>0, <1>1, <1>2, <1>3, <1>4, <2>1, FurtherResume
  <1>6. CASE Installing(manifest[s])
    <2>1. manifest' = [manifest EXCEPT ![s].plugin = run[p].target]
      BY <1>0, <1>6 DEF SavePlugin
    <2>2. /\ \A t \in Scopes : manifest'[t].intent = manifest[t].intent
          /\ \A t \in Scopes \ {s} : manifest'[t] = manifest[t]
      BY <1>2, <2>1 DEF SetupInv, FilesTyped, NoRecord
    <2>3. /\ manifest[s].intent # None /\ manifest[s].intent.operation = "install" /\ Pending(s)
          /\ run[p].operation = "install"
      BY <1>2, <1>6 DEF Installing, Agrees, ResumeInv
    <2>4. Pending(s)'
      BY <1>2, <1>4, <2>2, <2>3, ResumedIntent
    <2>5. \A t \in Scopes : Pending(t)'
      BY <1>4, <2>2, <2>4, PendingSame DEF ResumeInv
    <2> QED
      BY <1>0, <1>1, <1>2, <1>3, <1>4, <2>2, <2>3, <2>5, SavesResume
  <1> QED
    BY <1>5, <1>6

\* Neither the target nor, before the switch, the previous policy of an install
\* is removed.
LEMMA RemovedResume ==
  ASSUME SetupInv, UpdateInv, ResumeInv, NEW p \in Installers, run[p].pc = "retire",
         Retired(p) # Absent, NEW state,
         payload' = [payload EXCEPT ![run[p].at][Retired(p)] = state],
         UNCHANGED <<manifest, config>>
  PROVE  \A t \in Scopes : Pending(t)'
  <1>0. PICK s, v : s = run[p].at /\ v = Retired(p)
    OBVIOUS
  <1>1. run[p].pc \in LockedSteps \ {"unlock"} /\ run[p].pc \in ScopeSteps
        /\ run[p].pc \in SwitchedSteps /\ run[p].pc \in CLISteps
    BY DEF LockedSteps, ScopeSteps, SwitchedSteps, CLISteps
  <1>2. /\ s \in run[p].scopes /\ s \in Scopes /\ Agrees(p, s) /\ s \notin run[p].todo
        /\ manifest[s].intent # None => ~Untouched(s)
        /\ run[p].operation \in {"install", "uninstall"}
    BY <1>0, <1>1, LockHeld DEF Holds, RunTyped, ResumeInv, Knows
  <1>3. /\ \A t \in Scopes \ {s} : payload'[t] = payload[t]
        /\ \A w \in Versions \ {v} : payload'[s][w] = payload[s][w]
    BY <1>0, <1>2 DEF SetupInv, FilesTyped
  <1>4. run[p].operation = "install" => manifest[s].skill = run[p].target
    BY <1>1, <1>2 DEF UpdateInv, Updates
  <1>5. run[p].operation = "install" => v # run[p].target
    BY <1>0, <1>4 DEF Retired
  <1>6. Pending(s)'
    <2>1. ~Untouched(s)' \/ manifest'[s].intent = None
      BY <1>2 DEF Untouched
    <2> QED
      BY <1>2, <1>3, <1>5, <2>1 DEF ResumeInv, Pending, Agrees
  <1> QED
    BY <1>3, <1>6, PendingSame DEF ResumeInv

LEMMA AfterRemovalKnows ==
  ASSUME SetupInv, ResumeInv, NEW p \in Installers, run[p].pc \in {"retire", "removing"},
         Goes(p, AfterRemoval(p)), UNCHANGED <<manifest, config>>
  PROVE  Knows(p)' /\ \A q \in Installers \ {p} : run'[q] = run[q]
  <1>1. run[p].pc \in LockedSteps /\ run[p].pc \in ScopeSteps
    BY DEF LockedSteps, ScopeSteps
  <1>2. run[p].operation \in {"install", "uninstall"} /\ run[p].at \notin run[p].todo
    BY <1>1, LockHeld DEF RunTyped, ResumeInv, Knows
  <1>3. \A q \in Installers \ {p} : run'[q] = run[q]
    BY GoesFields DEF SetupInv
  <1>4. CASE run[p].operation = "uninstall"
    <2>1. Goes(p, [pc |-> "delete"])
      BY <1>4 DEF AfterRemoval
    <2>2. Moved(p, "delete", run[p].todo, run[p].at, run[p].config, run[p].missed)
      BY <2>1, GoesPc DEF SetupInv
    <2>3. "delete" \notin SwitchedSteps
      BY DEF SwitchedSteps
    <2> QED
      BY <1>1, <1>2, <1>3, <2>2, <2>3, FurtherKnows
  <1>5. CASE run[p].operation = "install"
    <2> DEFINE pc == IF run[p].todo = {} THEN "backend" ELSE "scope"
    <2>1. Goes(p, [pc |-> pc, at |-> None])
      BY <1>5 DEF AfterRemoval
    <2>2. Moved(p, pc, run[p].todo, None, run[p].config, run[p].missed)
      BY <2>1, GoesAt DEF SetupInv
    <2>3. pc \notin ScopeSteps \cup SwitchedSteps /\ pc # "intents"
      BY DEF ScopeSteps, SwitchedSteps
    <2> HIDE DEF pc
    <2> QED
      BY <1>1, <1>3, <2>2, <2>3, FurtherKnows
  <1> QED
    BY <1>2, <1>4, <1>5

LEMMA BeginRemovalResume ==
  ASSUME SetupInv, UpdateInv, ResumeInv, NEW p \in Installers, BeginRemoval(p)
  PROVE  ResumeInv'
  <1>1. /\ run[p].pc = "retire" /\ run[p].pc \in LockedSteps /\ run[p].pc \in ScopeSteps
        /\ UNCHANGED <<manifest, config>>
    BY DEF BeginRemoval, LockedSteps, ScopeSteps
  <1>2. lock = p /\ run[p].at \notin run[p].todo
    BY <1>1, LockHeld DEF Holds, ResumeInv, Knows
  <1>3. CASE /\ Removable(p) /\ payload' = [payload EXCEPT ![run[p].at][Retired(p)] = "part"]
             /\ Goes(p, [pc |-> "removing"])
    <2>1. Moved(p, "removing", run[p].todo, run[p].at, run[p].config, run[p].missed)
          /\ \A q \in Installers \ {p} : run'[q] = run[q]
      BY <1>3, GoesPc, GoesFields DEF SetupInv
    <2>2. "removing" \notin SwitchedSteps
      BY DEF SwitchedSteps
    <2>3. Knows(p)'
      BY <1>1, <1>2, <2>1, <2>2, FurtherKnows
    <2>4. \A s \in Scopes : Pending(s)'
      BY <1>1, <1>3, RemovedResume DEF Removable
    <2> QED
      BY <1>2, <2>1, <2>3, <2>4, AssembleResume
  <1>4. CASE ~Removable(p) /\ Goes(p, AfterRemoval(p)) /\ UNCHANGED payload
    <2>1. Knows(p)' /\ \A q \in Installers \ {p} : run'[q] = run[q]
      BY <1>1, <1>4, AfterRemovalKnows
    <2> QED
      BY <1>1, <1>2, <1>4, <2>1, AllPending, AssembleResume
  <1> QED
    BY <1>3, <1>4 DEF BeginRemoval

LEMMA EndRemovalResume ==
  ASSUME SetupInv, ResumeInv, NEW p \in Installers, EndRemoval(p)
  PROVE  ResumeInv'
  <1>1. run[p].pc = "removing" /\ run[p].pc \in LockedSteps /\ UNCHANGED <<manifest, config>>
    BY DEF EndRemoval, LockedSteps, ScopeSteps
  <1>2. Knows(p)' /\ \A q \in Installers \ {p} : run'[q] = run[q]
    BY <1>1, AfterRemovalKnows DEF EndRemoval
  <1>3. ASSUME NEW s \in Scopes, NEW v \in Versions PROVE payload'[s][v] \in {payload[s][v], "none"}
    BY DEF EndRemoval, SetupInv, FilesTyped
  <1>4. \A s \in Scopes : Pending(s)'
    BY <1>1, <1>3, PendingFuller DEF ResumeInv
  <1> QED
    BY <1>1, <1>2, <1>4, LockHeld, AssembleResume

LEMMA BackendResume ==
  ASSUME SetupInv, ResumeInv, NEW p \in Installers, PrepareBackend(p) \/ BackendReadback(p)
  PROVE  ResumeInv'
  <1>1. CASE Fails(p)
    BY <1>1, FailsResume
  <1>2. CASE ~Fails(p)
    <2>1. PICK pc \in {"clear", "preparing"} : Goes(p, [pc |-> pc])
      BY <1>2 DEF PrepareBackend, BackendReadback
    <2>2. Moved(p, pc, run[p].todo, run[p].at, run[p].config, run[p].missed)
          /\ \A q \in Installers \ {p} : run'[q] = run[q]
      BY <2>1, GoesPc, GoesFields DEF SetupInv
    <2>3. run[p].pc \in LockedSteps /\ UNCHANGED <<manifest, config, payload>>
      BY <1>2 DEF PrepareBackend, BackendReadback, LockedSteps, InstallSteps, installed
    <2>4. pc \notin ScopeSteps \cup SwitchedSteps /\ pc # "intents"
      BY <2>1 DEF ScopeSteps, SwitchedSteps
    <2> QED
      BY <2>2, <2>3, <2>4, FurtherResume
  <1> QED
    BY <1>1, <1>2

LEMMA ClearIntentsResume ==
  ASSUME SetupInv, ResumeInv, NEW p \in Installers, ClearIntents(p)
  PROVE  ResumeInv'
  <1>1. run[p].pc = "clear" /\ run[p].pc \in LockedSteps
    BY DEF ClearIntents, LockedSteps, InstallSteps
  <1>2. lock = p /\ run[p].operation = "install" /\ run[p].scopes \subseteq Scopes /\ Knows(p)
    BY <1>1, LockHeld DEF Holds, RunTyped, InstallSteps, ResumeInv
  <1>3. Moved(p, "unlock", run[p].todo, run[p].at, run[p].config, run[p].missed)
        /\ \A q \in Installers \ {p} : run'[q] = run[q]
    BY GoesPc, GoesFields DEF SetupInv, ClearIntents
  <1>4. /\ \A s \in run[p].scopes : manifest'[s].intent = None
        /\ \A s \in Scopes \ run[p].scopes : manifest'[s] = manifest[s]
        /\ UNCHANGED <<config, payload>>
    BY <1>2 DEF ClearIntents, SetupInv, FilesTyped, NoRecord
  <1>5. ASSUME NEW s \in Scopes PROVE Pending(s)'
    <2>1. CASE s \in run[p].scopes
      BY <1>4, <2>1 DEF Pending
    <2>2. CASE s \notin run[p].scopes
      BY <1>4, <2>2, PendingSame DEF ResumeInv
    <2> QED
      BY <2>1, <2>2
  <1>6. "unlock" \notin ScopeSteps \cup SwitchedSteps
    BY DEF ScopeSteps, SwitchedSteps
  <1>7. Knows(p)'
    BY <1>1, <1>2, <1>3, <1>4, <1>6 DEF Knows, Moved
  <1> QED
    BY <1>2, <1>3, <1>5, <1>7, AssembleResume

LEMMA UninstallScopeResume ==
  ASSUME SetupInv, UpdateInv, ResumeInv, NEW p \in Installers, UninstallScope(p)
  PROVE  ResumeInv'
  <1>1. run[p].pc = "next" /\ run[p].pc \in LockedSteps
    BY DEF UninstallScope, LockedSteps, UninstallSteps
  <1>2. /\ lock = p /\ run[p].operation = "uninstall" /\ run[p].target \in Versions
        /\ run[p].scopes \subseteq Scopes /\ run[p].todo \subseteq run[p].scopes
        /\ run[p].config \in [run[p].scopes -> ConfigTexts] /\ Knows(p)
    BY <1>1, LockHeld DEF Holds, RunTyped, UninstallSteps, ResumeInv
  <1>3. PICK s \in run[p].todo :
          /\ manifest' = IF manifest[s].intent # None THEN manifest
                         ELSE [manifest EXCEPT ![s].intent =
                                 Intent("uninstall", run[p].target, manifest[s], run[p].config[s])]
          /\ Goes(p, [pc |-> "config", at |-> s, todo |-> run[p].todo \ {s}])
    BY DEF UninstallScope
  <1>4. Moved(p, "config", run[p].todo \ {s}, s, run[p].config, run[p].missed)
        /\ \A q \in Installers \ {p} : run'[q] = run[q]
    BY <1>3, GoesAtTodo, GoesFields DEF SetupInv
  <1>5. UNCHANGED <<config, payload>> /\ "config" \notin SwitchedSteps
    BY DEF UninstallScope, SwitchedSteps
  <1>6. CASE manifest[s].intent # None
    <2>1. UNCHANGED <<manifest, config, payload>>
      BY <1>3, <1>5, <1>6
    <2>2. run[p].todo \ {s} \subseteq run[p].todo /\ s \notin run[p].todo \ {s}
      OBVIOUS
    <2>3. Knows(p)'
      BY <1>1, <1>4, <1>5, <2>1, <2>2, FurtherKnows
    <2> QED
      BY <1>4, <2>1, <2>3, AllPending, AssembleResume
  <1>7. CASE manifest[s].intent = None
    <2> DEFINE text == run[p].config[s]
               intent == Intent("uninstall", run[p].target, manifest[s], text)
    <2>1. manifest' = [manifest EXCEPT ![s].intent = intent]
      BY <1>3, <1>7
    <2>2. s \in Scopes /\ text \in ConfigTexts /\ RecordTyped(manifest[s])
      BY <1>2 DEF UpdateInv
    <2> HIDE DEF intent
    <2>3. /\ manifest'[s].intent = intent /\ manifest'[s].plugin = manifest[s].plugin
          /\ manifest'[s].skill = manifest[s].skill
          /\ \A t \in Scopes \ {s} : manifest'[t] = manifest[t]
      BY <2>1, <2>2 DEF SetupInv, FilesTyped, NoRecord
    <2>4. Reviewed(p, s) /\ text.note <= config[s].note
      BY <1>1, <1>2 DEF Knows
    <2>5. /\ text.entry # Absent => manifest[s].plugin = text.entry /\ manifest[s].skill = text.entry
          /\ config[s].entry \in {text.entry, Absent}
      BY <1>7, <2>4 DEF Reviewed
    <2>6. Pending(s)' /\ manifest'[s].intent.after.note = text.note
      BY <1>2, <1>5, <2>2, <2>3, <2>4, <2>5, FreshIntent DEF intent
    <2>7. \A t \in Scopes : Pending(t)'
      BY <1>5, <2>3, <2>6, PendingSame DEF ResumeInv
    <2>8. \A t \in run[p].todo \ {s} : Reviewed(p, t)'
      BY <1>1, <1>2, <1>4, <1>5, <2>3 DEF Knows, Reviewed, Moved
    <2>9. \A t \in run[p].scopes :
            manifest'[t].intent # None => manifest'[t].intent.after.note <= run[p].config[t].note
      <3>1. text.note <= text.note
        BY <2>2 DEF ConfigTexts
      <3> QED
        BY <1>1, <1>2, <2>3, <2>6, <3>1 DEF Knows
    <2>10. Knows(p)'
      BY <1>1, <1>2, <1>4, <1>5, <2>8, <2>9 DEF Knows, Moved
    <2> QED
      BY <1>2, <1>4, <2>7, <2>10, AssembleResume
  <1> QED
    BY <1>6, <1>7

LEMMA DeleteRecordResume ==
  ASSUME SetupInv, ResumeInv, NEW p \in Installers, DeleteRecord(p)
  PROVE  ResumeInv'
  <1>0. PICK s : s = run[p].at
    OBVIOUS
  <1>1. run[p].pc = "delete" /\ run[p].pc \in LockedSteps /\ run[p].pc \in ScopeSteps
    BY DEF DeleteRecord, LockedSteps, UninstallSteps, ScopeSteps
  <1>2. /\ lock = p /\ s \in Scopes /\ s \notin run[p].todo /\ Knows(p)
        /\ run[p].scopes \subseteq Scopes /\ run[p].todo \subseteq run[p].scopes
    BY <1>0, <1>1, LockHeld DEF Holds, RunTyped, ResumeInv, Knows
  <1>3. Moved(p, "next", run[p].todo, None, run[p].config, run[p].missed)
        /\ \A q \in Installers \ {p} : run'[q] = run[q]
    BY GoesAt, GoesFields DEF SetupInv, DeleteRecord
  <1>4. /\ manifest'[s].intent = None /\ \A t \in Scopes \ {s} : manifest'[t] = manifest[t]
        /\ UNCHANGED <<config, payload>>
    BY <1>0, <1>2 DEF DeleteRecord, NoRecord, SetupInv, FilesTyped
  <1>5. Pending(s)'
    BY <1>4 DEF Pending
  <1>6. \A t \in Scopes : Pending(t)'
    BY <1>4, <1>5, PendingSame DEF ResumeInv
  <1>7. run[p].operation = "uninstall" => \A t \in run[p].todo : Reviewed(p, t)'
    BY <1>1, <1>2, <1>3, <1>4 DEF Knows, Reviewed, Moved
  <1>8. "next" \notin ScopeSteps \cup SwitchedSteps
    BY DEF ScopeSteps, SwitchedSteps
  <1>9. Knows(p)'
    BY <1>1, <1>2, <1>3, <1>4, <1>7, <1>8 DEF Knows, Moved
  <1> QED
    BY <1>2, <1>3, <1>6, <1>9, AssembleResume

LEMMA RemoveCLIResume ==
  ASSUME SetupInv, ResumeInv, NEW p \in Installers, RemoveCLI(p)
  PROVE  ResumeInv'
  <1>1. CASE Fails(p)
    BY <1>1, FailsResume
  <1>2. CASE ~Fails(p)
    <2>1. run[p].pc \in LockedSteps /\ "unlock" \notin ScopeSteps \cup SwitchedSteps
      BY DEF RemoveCLI, LockedSteps, UninstallSteps, ScopeSteps, SwitchedSteps
    <2>2. Moved(p, "unlock", run[p].todo, run[p].at, run[p].config, run[p].missed)
          /\ \A q \in Installers \ {p} : run'[q] = run[q]
      BY <1>2, GoesPc, GoesFields DEF SetupInv, RemoveCLI
    <2>3. UNCHANGED <<manifest, config, payload>>
      BY <1>2 DEF RemoveCLI
    <2> QED
      BY <2>1, <2>2, <2>3, FurtherResume
  <1> QED
    BY <1>1, <1>2

\* An edit is newer than any text that an intent was formed from.
LEMMA EditConfigResume ==
  ASSUME SetupInv, ResumeInv, NEW s \in Scopes, NEW entry \in Versions \cup {Absent}, EditConfig(s, entry)
  PROVE  ResumeInv'
  <1>1. /\ config'[s].entry \in {config[s].entry, Absent} /\ config'[s].note = config[s].note + 1
        /\ \A t \in Scopes \ {s} : config'[t] = config[t]
        /\ UNCHANGED <<manifest, payload>>
    BY DEF EditConfig, Text, SetupInv, FilesTyped
  <1>2. config[s].note \in Nat
    BY DEF SetupInv, FilesTyped, ConfigTexts
  <1>3. /\ manifest[s].intent # None => ~Untouched(s)'
        /\ Pending(s)'
    <2>1. CASE manifest[s].intent = None
      BY <1>1, <2>1 DEF Pending
    <2>2. CASE manifest[s].intent # None
      <3>1. Pending(s) /\ manifest[s].intent.after \in ConfigTexts
        BY <2>2 DEF ResumeInv, Pending
      <3>2. Managed(manifest[s].intent.after, manifest[s].intent.previous).note = manifest[s].intent.after.note
        BY <3>1 DEF Managed, ConfigTexts
      <3>3. manifest[s].intent.after.note < config'[s].note /\ manifest[s].intent.after.note \in Nat
        BY <1>1, <1>2, <2>2, <3>1 DEF Pending, ConfigTexts
      <3>4. ~Untouched(s)'
        BY <1>1, <3>2, <3>3 DEF Untouched
      <3>5. manifest[s].intent.after.note <= config'[s].note
        BY <1>1, <1>2, <3>3
      <3> QED
        BY <1>1, <3>1, <3>4, <3>5 DEF Pending
    <2> QED
      BY <2>1, <2>2
  <1>4. \A t \in Scopes : Pending(t)'
    BY <1>1, <1>3, PendingSame DEF ResumeInv
  <1>5. ASSUME NEW p \in Installers PROVE Knows(p)'
    <2>1. run'[p] = IF run[p].pc = "rename" /\ run[p].at = s
                    THEN [run[p] EXCEPT !.missed = TRUE] ELSE run[p]
      BY DEF EditConfig
    <2>2. /\ run'[p].pc = run[p].pc /\ run'[p].operation = run[p].operation
          /\ run'[p].target = run[p].target /\ run'[p].scopes = run[p].scopes
          /\ run'[p].todo = run[p].todo /\ run'[p].at = run[p].at /\ run'[p].config = run[p].config
      BY <2>1 DEF SetupInv, RunTyped, Idle
    <2>3. SUFFICES ASSUME run[p].pc \in LockedSteps PROVE Knows(p)'
      BY <2>2 DEF Knows
    <2>4. /\ Knows(p) /\ run[p].scopes \subseteq Scopes /\ run[p].todo \subseteq run[p].scopes
          /\ run[p].config \in [run[p].scopes -> ConfigTexts]
          /\ run[p].pc \in ScopeSteps => run[p].at \in Scopes
      BY <2>3, LockHeld DEF ResumeInv, RunTyped, Holds
    <2>5. \A t \in run[p].scopes : run[p].config[t].note <= config'[t].note
      <3>1. \A t \in run[p].scopes : run[p].config[t].note \in Nat
        BY <2>4 DEF ConfigTexts
      <3> QED
        BY <1>1, <1>2, <2>3, <2>4, <3>1 DEF Knows
    <2>6. ASSUME NEW t \in run[p].todo, Reviewed(p, t) PROVE Reviewed(p, t)'
      BY <1>1, <2>2, <2>4, <2>6 DEF Reviewed
    <2>7. ASSUME NEW t \in Scopes, manifest[t].intent # None, ~Untouched(t) PROVE ~Untouched(t)'
      BY <1>1, <1>3, <2>7 DEF Untouched
    <2>8. run[p].pc \in SwitchedSteps => run[p].at \in Scopes
      BY <2>4 DEF SwitchedSteps, ScopeSteps
    <2> QED
      BY <1>1, <2>2, <2>3, <2>4, <2>5, <2>6, <2>7, <2>8 DEF Knows
  <1> QED
    BY <1>4, <1>5 DEF ResumeInv

LEMMA UnchangedResume ==
  ASSUME ResumeInv, UNCHANGED <<manifest, config, payload, run>>
  PROVE  ResumeInv'
  BY DEF ResumeInv, Pending, Untouched, Knows, Reviewed

LEMMA InstallerResume ==
  ASSUME SetupInv, UpdateInv, ResumeInv, NEW p \in Installers, Installer(p)
  PROVE  ResumeInv'
  <1>1. CASE \E q \in Requests : Begin(p, q)
    BY <1>1, BeginResume
  <1>2. CASE Preflight(p) \/ LockManifest(p) \/ PersistIntent(p) \/ InstallCLI(p)
    BY <1>2, PreflightResume, LockManifestResume, PersistIntentResume, InstallCLIResume
  <1>3. CASE InstallSkill(p) \/ SaveSkill(p) \/ CompareConfig(p) \/ RenameConfig(p) \/ ReadConfig(p)
    BY <1>3, InstallSkillResume, SaveSkillResume, CompareConfigResume, RenameConfigResume, ReadConfigResume
  <1>4. CASE SavePlugin(p) \/ BeginRemoval(p) \/ EndRemoval(p) \/ PrepareBackend(p) \/ BackendReadback(p)
    BY <1>4, SavePluginResume, BeginRemovalResume, EndRemovalResume, BackendResume
  <1>5. CASE ClearIntents(p) \/ UninstallScope(p) \/ DeleteRecord(p) \/ RemoveCLI(p)
    BY <1>5, ClearIntentsResume, UninstallScopeResume, DeleteRecordResume, RemoveCLIResume
  <1>6. CASE Unlock(p) \/ Die(p)
    BY <1>6, LeavesResume DEF Unlock, Leaves, Die, installed
  <1> QED
    BY <1>1, <1>2, <1>3, <1>4, <1>5, <1>6 DEF Installer

LEMMA ResumeStep == SetupInv /\ UpdateInv /\ ResumeInv /\ [SetupNext]_setupVars => ResumeInv'
  <1> SUFFICES ASSUME SetupInv, UpdateInv, ResumeInv, [SetupNext]_setupVars PROVE ResumeInv'
    OBVIOUS
  <1>1. CASE \E p \in Installers : Installer(p)
    BY <1>1, InstallerResume
  <1>2. CASE \E s \in Scopes, entry \in Versions \cup {Absent} : EditConfig(s, entry)
    BY <1>2, EditConfigResume
  <1>3. CASE RemoveStaleLock \/ (\E o \in Openers : Opens(o) \/ Opening(o)) \/ UNCHANGED setupVars
    BY <1>3, UnchangedResume DEF RemoveStaleLock, Opens, Opening, installed, setupVars
  <1> QED
    BY <1>1, <1>2, <1>3 DEF SetupNext

LEMMA ResumeInit == SetupInit => ResumeInv
  <1> SUFFICES ASSUME SetupInit PROVE ResumeInv
    OBVIOUS
  <1>1. \A s \in Scopes : manifest[s].intent = None
    BY DEF SetupInit, NoRecord
  <1>2. \A p \in Installers : run[p].pc = "idle"
    BY DEF SetupInit, Idle
  <1>3. \A p \in Installers : Knows(p)
    BY <1>2 DEF Knows, LockedSteps, InstallSteps, UninstallSteps, ScopeSteps
  <1> QED
    BY <1>1, <1>3 DEF ResumeInv, Pending

\* What preflight asks of a scope, it finds in a file as the intent found it
\* or would leave it.
LEMMA PendingAccepted ==
  ASSUME SetupInv, NEW s \in Scopes, Pending(s), manifest[s].intent # None,
         config[s] \in {manifest[s].intent.after,
                        Managed(manifest[s].intent.after, manifest[s].intent.previous)}
  PROVE  ScopeAccepted(manifest[s].intent.operation, manifest[s].intent.target, s, manifest[s], config[s])
  <1> DEFINE r == manifest[s]
             i == r.intent
             text == config[s]
  <1>1. /\ text \in ConfigTexts /\ r # NoRecord
    BY DEF SetupInv, FilesTyped, NoRecord
  <1>2. /\ i.operation \in {"install", "uninstall"} /\ i.target \in Versions /\ i.after.entry = IntentEntry(i)
        /\ i.previousSkill \in Versions \cup {Absent} /\ i.after \in ConfigTexts
    BY DEF Pending
  <1>3. Discovered(s) \subseteq {text.entry} \ {Absent}
    BY AbsentIsNoVersion DEF Discovered
  <1>4. SUFFICES PluginAccepted(r, text) /\ SkillAccepted(i.operation, i.target, s, EffectiveSkill(r, text))
    BY <1>1 DEF ScopeAccepted
  <1>5. CASE text = i.after /\ i.operation = "install"
    <2>1. EffectivePlugin(r, text) = i.target /\ EffectiveSkill(r, text) = i.target /\ text.entry = i.target
      BY <1>2, <1>5 DEF EffectivePlugin, EffectiveSkill, Committed, Installing, IntentEntry
    <2>2. payload[s][i.target] # "part"
      BY <1>5 DEF Pending
    <2> QED
      BY <1>3, <2>1, <2>2 DEF PluginAccepted, SkillAccepted
  <1>6. CASE text = i.after /\ i.operation = "uninstall"
    <2>1. text.entry = Absent
      BY <1>2, <1>6 DEF IntentEntry
    <2> QED
      BY <1>3, <1>6, <2>1 DEF PluginAccepted, SkillAccepted
  <1>7. CASE text # i.after
    <2>1. text = Managed(i.after, i.previous) /\ text.entry = i.previous
      BY <1>2, <1>7 DEF Managed, ConfigTexts
    <2>2. i.previous # IntentEntry(i)
      BY <1>2, <1>7, <2>1 DEF Managed, ConfigTexts
    <2>3. Untouched(s) /\ ~Committed(r, text)
      BY <1>7, <2>1, <2>2 DEF Untouched, Committed
    <2>4. CASE i.operation = "install"
      <3>1. /\ EffectiveSkill(r, text) = i.previousSkill
            /\ EffectivePlugin(r, text) = IF r.plugin = Absent THEN i.previous ELSE r.plugin
        BY <2>3, <2>4 DEF EffectivePlugin, EffectiveSkill, Installing
      <3>2. i.previous # Absent => r.plugin \in {Absent, i.previous} /\ i.previousSkill = i.previous
        BY <2>3, <2>4 DEF Pending
      <3>3. /\ i.previousSkill # Absent => payload[s][i.previousSkill] # "part"
            /\ payload[s][i.target] # "part"
        BY <2>3, <2>4 DEF Pending
      <3> QED
        BY <1>3, <2>1, <2>4, <3>1, <3>2, <3>3 DEF PluginAccepted, SkillAccepted
    <2>5. CASE i.operation = "uninstall"
      <3>1. EffectiveSkill(r, text) = r.skill /\ EffectivePlugin(r, text) = r.plugin
        BY <2>3, <2>5 DEF EffectivePlugin, EffectiveSkill, Installing
      <3>2. r.plugin = i.previous /\ r.skill = i.previous
        BY <2>3, <2>5 DEF Pending
      <3> QED
        BY <1>3, <2>1, <2>5, <3>1, <3>2 DEF PluginAccepted, SkillAccepted
    <2> QED
      BY <1>2, <2>4, <2>5
  <1> QED
    BY <1>2, <1>5, <1>6, <1>7

\* Wherever an operation stopped, starting it again passes preflight on a file
\* that is as the intent found it or would leave it: the effective plugin and
\* policy of a pending record follow the file, and no payload that preflight
\* reads is half removed (docs/INSTALL.md:192, lifecycle.mjs:66).
THEOREM SetupResumable == SetupSpec => []Resumable
  <1>1. SetupSpec => []ResumeInv
    BY SetupInvariant, SetupUpdates, ResumeInit, ResumeStep, PTL DEF SetupSpec
  <1>2. SetupInv /\ ResumeInv => Resumable
    BY PendingAccepted DEF ResumeInv, Resumable, Recorded
  <1> QED
    BY SetupInvariant, <1>1, <1>2, PTL
-----------------------------------------------------------------------------
(* The database under SetupSpec.                                           *)

LEMMA SetupInitSchema == SetupInit => SchemaInv
  <1> SUFFICES ASSUME SetupInit PROVE SchemaInv
    OBVIOUS
  <1>1. opener \in [Openers -> {"idle", "gone"}]
    BY DEF SetupInit
  <1> QED
    BY <1>1, DatabasesAssumption DEF SetupInit, SchemaInv, InTransaction, Stages

LEMMA SchemaUnchanged == SchemaInv /\ UNCHANGED schemaVars => SchemaInv'
  BY DEF SchemaInv, schemaVars, InTransaction

\* Of a setup run only the start of its child is a step about the database.
LEMMA InstallerSchema ==
  ASSUME NEW p \in Installers, Installer(p)
  PROVE  UNCHANGED schemaVars \/ (Reaches(p, "idle") /\ UNCHANGED database)
  <1>1. CASE PrepareBackend(p)
    BY <1>1 DEF PrepareBackend, Fails
  <1>2. CASE ~PrepareBackend(p)
    BY <1>2 DEF Installer, Begin, Preflight, LockManifest, PersistIntent, InstallCLI, InstallSkill,
          SaveSkill, CompareConfig, RenameConfig, ReadConfig, SavePlugin, BeginRemoval, EndRemoval,
          BackendReadback, ClearIntents, Unlock, UninstallScope, DeleteRecord, RemoveCLI, Die, Fails
  <1> QED
    BY <1>1, <1>2

LEMMA SetupStepSchema == SchemaInv /\ [SetupNext]_setupVars => SchemaInv'
  <1> SUFFICES ASSUME SchemaInv, [SetupNext]_setupVars PROVE SchemaInv'
    OBVIOUS
  <1>1. CASE \E p \in Installers : Installer(p)
    BY <1>1, InstallerSchema, SchemaUnchanged, SchemaGiveUp, InstallersAssumption
  <1>2. CASE \E o \in Openers : Opens(o)
    BY <1>2, SchemaOpenFile DEF Opens
  <1>3. CASE \E o \in Openers : Opening(o)
    BY <1>3, SchemaBeginPrepare, SchemaEndPrepare, SchemaGiveUp DEF Opening, GiveUp
  <1>4. CASE \/ RemoveStaleLock \/ UNCHANGED setupVars
             \/ \E s \in Scopes, entry \in Versions \cup {Absent} : EditConfig(s, entry)
    BY <1>4, SchemaUnchanged DEF RemoveStaleLock, EditConfig, setupVars
  <1> QED
    BY <1>1, <1>2, <1>3, <1>4 DEF SetupNext

\* What a process found in its transaction is still so when it ends it.
THEOREM OpenersInvariant == SetupSpec => []SchemaInv
  BY SetupInitSchema, SetupStepSchema, PTL DEF SetupSpec

Agreement ==
  /\ database' # database => <<database, database'>> \in Forward
  /\ \A o \in Openers :
       opener'[o] = "refused" /\ opener[o] # "refused" => database # Empty /\ ~Validated(database)

LEMMA AgreementOpenFile ==
  ASSUME SchemaInv, NEW o \in Openers, OpenFile(o)
  PROVE  Agreement
  <1>1. opener'[o] = "opened" /\ \A p \in Openers \ {o} : opener'[p] = opener[p]
    BY ReachesStage DEF OpenFile, Stages
  <1>2. database' # database => <<database, database'>> = <<Missing, Empty>>
    BY DEF OpenFile
  <1> QED
    BY <1>1, <1>2 DEF Agreement, Forward

LEMMA AgreementEndPrepare ==
  ASSUME SchemaInv, NEW o \in Openers, EndPrepare(o)
  PROVE  Agreement
  <1>1. \A p \in Openers \ {o} : opener'[p] = opener[p]
    BY DEF EndPrepare, Reaches, SchemaInv
  <1>2. CASE Succeeds(o) /\ Reaches(o, Outcome(o))
    <2>1. opener'[o] # "refused"
      BY <1>2 DEF SchemaInv, Reaches, Outcome, EndPrepare, InTransaction, Succeeds
    <2> QED
      BY <1>1, <2>1, EndPrepareForward DEF Agreement
  <1>3. CASE ~Succeeds(o) /\ UNCHANGED database
    <2>1. opener[o] = Lifecycle(database) /\ InTransaction(o)
      BY DEF SchemaInv, EndPrepare
    <2>2. Lifecycle(database) = "refusing"
      BY <1>3, <2>1 DEF Succeeds, Lifecycle, InTransaction
    <2>3. database # Empty /\ ~Validated(database)
      BY <2>2 DEF Lifecycle
    <2> QED
      BY <1>1, <1>3, <2>3 DEF Agreement
  <1> QED
    BY <1>2, <1>3 DEF EndPrepare

LEMMA AgreementStill ==
  ASSUME SchemaInv, NEW o \in Openers, NEW stage \in Stages \ {"refused"}, Reaches(o, stage), UNCHANGED database
  PROVE  Agreement
  BY ReachesStage DEF Agreement

LEMMA AgreementStep == SchemaInv /\ [SetupNext]_setupVars => [Agreement]_schemaVars
  <1> SUFFICES ASSUME SchemaInv, [SetupNext]_setupVars, ~UNCHANGED schemaVars PROVE Agreement
    OBVIOUS
  <1>1. CASE \E p \in Installers : Installer(p)
    <2>1. "idle" \in Stages \ {"refused"}
      BY DEF Stages
    <2> QED
      BY <1>1, <2>1, InstallerSchema, AgreementStill, InstallersAssumption
  <1>2. CASE \E o \in Openers : Opens(o)
    BY <1>2, AgreementOpenFile DEF Opens
  <1>3. CASE \E o \in Openers : Opening(o)
    <2>1. PICK o \in Openers : Opening(o)
      BY <1>3
    <2>2. CASE BeginPrepare(o)
      <3>1. Lifecycle(database) \in Stages \ {"refused"}
        BY LifecycleStages DEF Stages
      <3> QED
        BY <2>2, <3>1, AgreementStill DEF BeginPrepare
    <2>3. CASE EndPrepare(o)
      BY <2>3, AgreementEndPrepare
    <2>4. CASE GiveUp(o)
      BY <2>4, AgreementStill DEF GiveUp, Stages
    <2> QED
      BY <2>1, <2>2, <2>3, <2>4 DEF Opening
  <1>4. CASE \/ RemoveStaleLock \/ UNCHANGED setupVars
             \/ \E s \in Scopes, entry \in Versions \cup {Absent} : EditConfig(s, entry)
    BY <1>4 DEF RemoveStaleLock, EditConfig, setupVars
  <1> QED
    BY <1>1, <1>2, <1>3, <1>4 DEF SetupNext

\* Processes that open the same file at once, setup's children among them,
\* refuse it only when nobody could use it, and change it only by creating or
\* upgrading it (schema.rs:81-105).
THEOREM SetupOpenersAgree == SetupSpec => OpenersAgree
  <1>1. SchemaInv /\ [SetupNext]_setupVars =>
          [/\ database' # database => <<database, database'>> \in Forward
           /\ \A o \in Openers :
                opener'[o] = "refused" /\ opener[o] # "refused" =>
                  database # Empty /\ ~Validated(database)]_schemaVars
    BY AgreementStep DEF Agreement
  <1> QED
    BY <1>1, OpenersInvariant, PTL DEF SetupSpec, OpenersAgree
=============================================================================
