-------------------------- MODULE RepositoryScope ---------------------------
(***************************************************************************)
(* Which repository a command is about (src/src/scope.rs): the identity    *)
(* stored in the repository's Git configuration, else one derived from its *)
(* only remote or its common directory and then stored, else that of a     *)
(* directory outside Git.  Every look at the repository is a git process   *)
(* of its own, so several commands, the user's own git commands and the    *)
(* death of a command come between any two of them.                        *)
(*                                                                         *)
(* Abstractions: an identity is the pair that is hashed; the repository is *)
(* one clone with its directories (or worktrees), which the user may move; *)
(* a URL is its parsed parts, with a scheme "scp" for host:path.           *)
(***************************************************************************)
EXTENDS Naturals

CONSTANTS
  Runs,          \* commands that resolve the repository
  Directories,   \* directories of the repository they run in
  Places,        \* where the user may have the repository
  RemoteNames,
  Urls,          \* records [scheme, host, port, path, suffix, project]; what
                 \* project is there only the properties know
  Lower,         \* function: the host in lower case
  Unsupported,   \* paths that are empty or have an empty, "." or ".." segment
  NoUrl,      \* no URL, no identity, no port
  InitialIds,    \* what the configuration may hold when a run starts
  Unset, Malformed,
  MaxChanges     \* bound: what the user does to the repository

VARIABLES
  git,      \* whether the directories belong to a Git repository
  place,    \* where they are
  remotes,  \* the URL of each configured remote
  config,   \* memocap.repository-id and memocap.scope-id
  runs,     \* the commands
  changes,  \* bound: the user's commands so far
  crossed   \* history: the user changed the repository while a run that
            \* found no identity had not yet stored one, and some such run is left

scopeVars == <<git, place, remotes, config, runs, changes, crossed>>

-----------------------------------------------------------------------------
(* Identities.                                                             *)

DefaultPort == [http |-> 80, https |-> 443, ssh |-> 22, git |-> 9418, scp |-> NoUrl]

\* Fault: a port that is written out counts.
CanonicalPort(url) ==
  IF url = NoUrl \/ url.scheme \notin DOMAIN DefaultPort \/ url.path \in Unsupported THEN NoUrl
  ELSE [host |-> Lower[url.host], path |-> url.path, port |-> url.port]

\* canonicalize_remote: scheme, user, default port and .git do not count.
Canonical(url) ==
  IF url = NoUrl \/ url.scheme \notin DOMAIN DefaultPort \/ url.path \in Unsupported THEN NoUrl
  ELSE [host |-> Lower[url.host], path |-> url.path,
        port |-> IF url.port = DefaultPort[url.scheme] THEN NoUrl ELSE url.port]

\* Only is the URL of the only remote there is, if it is the only one.
Only ==
  LET named == {n \in RemoteNames : remotes[n] # NoUrl}
  IN IF \E n \in RemoteNames : named = {n}
     THEN remotes[CHOOSE n \in RemoteNames : named = {n}] ELSE NoUrl

\* remote_identity.
SoleRemote == Canonical(Only)

DirectoryId(p, d) == <<"directory", p, d>>

\* Without its directory, git does not start, and no remote is found.
Found(r) == git /\ place = runs[r].place

Derived(r) ==
  IF Found(r) /\ SoleRemote # NoUrl THEN <<"remote", SoleRemote>>
  ELSE <<"git-common-dir", runs[r].place>>

DerivedIds ==
  {<<"remote", c>> : c \in {Canonical(url) : url \in Urls} \ {NoUrl}}
    \cup {<<"git-common-dir", p>> : p \in Places}

ASSUME UnsetAssumption ==
  Unset # Malformed /\ Unset \notin InitialIds \cup DerivedIds /\ Malformed \notin DerivedIds

-----------------------------------------------------------------------------
(* Runs.                                                                   *)

NoRun == [pc |-> "idle", writes |-> FALSE, place |-> NoUrl, directory |-> NoUrl,
          id |-> Unset, legacy |-> FALSE, name |-> Unset, calm |-> FALSE]

Over == {"idle", "done"}

\* A run that may yet store the identity it derives.
Undecided(run) ==
  /\ run.writes
  /\ run.pc \in {"legacy", "derive", "persist"}
  /\ run.pc = "legacy" => run.id = Unset

Become(r, run) ==
  /\ runs' = [runs EXCEPT ![r] = run]
  /\ crossed' = (crossed /\ \E q \in Runs : Undecided(runs'[q]))
  /\ UNCHANGED <<git, place, remotes, changes>>

Enter(r, pc) == Become(r, [runs[r] EXCEPT !.pc = pc])
Fail(r) == Become(r, NoRun)
Resolved(r, id) == Become(r, [runs[r] EXCEPT !.pc = "describe", !.id = id, !.legacy = FALSE])
Outside(r) == Resolved(r, DirectoryId(runs[r].place, runs[r].directory))

\* A command starts in a directory; only those for the current directory
\* that are not themselves inspections store anything.
StartRun(r, d, writes) ==
  /\ runs[r].pc \in Over
  /\ Become(r, [NoRun EXCEPT !.pc = "locate", !.writes = writes, !.place = place, !.directory = d,
                           !.calm = ~crossed])
  /\ UNCHANGED config

\* git rev-parse --git-common-dir.
Locate(r) ==
  /\ runs[r].pc = "locate"
  /\ IF Found(r) THEN Enter(r, "config") ELSE Outside(r)
  /\ UNCHANGED config

\* Fault: an identity that cannot be parsed is none.
ReadIdLeniently(r) ==
  /\ runs[r].pc = "config"
  /\ IF ~Found(r) THEN Outside(r)
     ELSE Become(r, [runs[r] EXCEPT !.pc = "legacy",
                                  !.id = IF config.id = Malformed THEN Unset ELSE config.id])
  /\ UNCHANGED config

\* git config --get memocap.repository-id.
ReadId(r) ==
  /\ runs[r].pc = "config"
  /\ IF ~Found(r) THEN Outside(r)
     ELSE IF config.id = Malformed THEN Fail(r)
     ELSE Become(r, [runs[r] EXCEPT !.pc = "legacy", !.id = config.id])
  /\ UNCHANGED config

\* Fault: a stored identity is enough, the old key stays.
KeepingLegacy(run, exact) == IF run.id = Unset THEN "derive" ELSE "describe"

\* Fault: an old key means that there is no identity yet.
TrustingLegacy(run, exact) ==
  IF run.id = Unset \/ exact THEN "derive" ELSE "describe"

\* Where a run goes from what it has read.
AfterLegacy(run, exact) ==
  IF run.id = Unset THEN "derive" ELSE IF exact /\ run.writes THEN "clean" ELSE "describe"

\* git config --get memocap.scope-id, of which only an exact old key counts.
ReadLegacy(r) ==
  LET run == runs[r]
      exact == config.legacy = "exact"
  IN /\ run.pc = "legacy"
     /\ IF ~Found(r) THEN Outside(r)
        ELSE Become(r, [run EXCEPT !.pc = AfterLegacy(run, exact), !.legacy = exact /\ run.id = Unset])
     /\ UNCHANGED config

\* derived_repository: git config --get-regexp of the remotes.
Derive(r) ==
  /\ runs[r].pc = "derive"
  /\ IF runs[r].writes THEN Become(r, [runs[r] EXCEPT !.pc = "persist", !.id = Derived(r)])
     ELSE Resolved(r, Derived(r))
  /\ UNCHANGED config

\* git config memocap.repository-id <id>.
Persist(r) ==
  /\ runs[r].pc = "persist"
  /\ IF ~Found(r) THEN Fail(r) /\ UNCHANGED config
     ELSE /\ Enter(r, "verify")
          /\ config' = [config EXCEPT !.id = runs[r].id]

\* It is read back.
Verify(r) ==
  LET run == runs[r] IN
  /\ run.pc = "verify"
  /\ IF ~Found(r) \/ config.id # run.id THEN Fail(r)
     ELSE IF run.legacy THEN Enter(r, "clean")
     ELSE Resolved(r, run.id)
  /\ UNCHANGED config

\* git config --unset-all memocap.scope-id, which fails if it is gone.
Clean(r) ==
  /\ runs[r].pc = "clean"
  /\ IF Found(r) /\ config.legacy # "unset"
     THEN Resolved(r, runs[r].id) /\ config' = [config EXCEPT !.legacy = "unset"]
     ELSE Fail(r) /\ UNCHANGED config

\* descriptor: the name of the repository, looked up once more.
Describe(r) ==
  /\ runs[r].pc = "describe"
  /\ IF Found(r) THEN Enter(r, "name")
     ELSE Become(r, [runs[r] EXCEPT !.pc = "done",
                                  !.name = DirectoryId(runs[r].place, runs[r].directory)])
  /\ UNCHANGED config

Name(r) ==
  /\ runs[r].pc = "name"
  /\ Become(r, [runs[r] EXCEPT !.pc = "done", !.name = Derived(r)])
  /\ UNCHANGED config

\* Any git command may fail, and the command may be killed.
Interrupted(r) == runs[r].pc \notin Over /\ Fail(r) /\ UNCHANGED config

-----------------------------------------------------------------------------
(* The user.                                                               *)

Change ==
  /\ changes < MaxChanges /\ changes' = changes + 1
  /\ runs' = [r \in Runs |-> [runs[r] EXCEPT !.calm = FALSE]]
  /\ crossed' = \E r \in Runs : Undecided(runs[r])
  /\ UNCHANGED config

Initialize == ~git /\ git' = TRUE /\ Change /\ UNCHANGED <<place, remotes>>
SetRemote(n, url) ==
  git /\ remotes[n] # url /\ remotes' = [remotes EXCEPT ![n] = url] /\ Change /\ UNCHANGED <<git, place>>
Move(p) == place # p /\ place' = p /\ Change /\ UNCHANGED <<git, remotes>>

ScopeInit ==
  /\ git \in BOOLEAN /\ place \in Places
  /\ remotes \in [RemoteNames -> {NoUrl} \cup Urls]
  /\ config \in [id : {Unset} \cup InitialIds, legacy : {"unset", "exact", "other"}]
  /\ ~git => config = [id |-> Unset, legacy |-> "unset"] /\ \A n \in RemoteNames : remotes[n] = NoUrl
  /\ runs = [r \in Runs |-> NoRun]
  /\ changes = 0 /\ crossed = FALSE

ScopeNext ==
  \/ \E r \in Runs :
       \/ Locate(r) \/ ReadId(r) \/ ReadLegacy(r) \/ Derive(r) \/ Persist(r) \/ Verify(r) \/ Clean(r)
       \/ Describe(r) \/ Name(r) \/ Interrupted(r)
       \/ \E d \in Directories, writes \in BOOLEAN : StartRun(r, d, writes)
  \/ Initialize
  \/ \E n \in RemoteNames, url \in {NoUrl} \cup Urls : SetRemote(n, url)
  \/ \E p \in Places : Move(p)

ScopeSpec == ScopeInit /\ [][ScopeNext]_scopeVars

-----------------------------------------------------------------------------
(* Properties.                                                             *)

\* A run during which the user left the repository alone answers what the
\* repository says now, however many others resolved it at the same time and
\* whether it stores anything or not, and its description is of the same
\* moment (src/src/scope.rs:316, src/src/commands/targets.rs:39).
RunsAgree ==
  \A r \in Runs :
    LET run == runs[r]
        present == IF git THEN Derived(r) ELSE DirectoryId(place, run.directory)
    IN run.pc = "done" /\ run.calm =>
         run.name = present /\ run.id = IF config.id = Unset THEN present ELSE config.id

\* An answer that a storing run found in or for the repository stays behind
\* in its configuration, without the old key, whatever died or failed before
\* (src/src/scope.rs:328).
MigrationFinished ==
  \A r \in Runs :
    LET run == runs[r] IN
    run.pc = "done" /\ run.writes /\ run.id[1] # "directory" =>
      config.id \notin {Unset, Malformed} /\ config.legacy # "exact"

\* A stored identity is only ever replaced by a run that derived another one
\* while the user changed the repository, and one that cannot be read never.
StoredOnce ==
  [][config.id # Unset /\ config'.id # config.id => crossed /\ config.id # Malformed]_scopeVars

\* The old key goes only once an identity is stored, and only an old key.
OldKeyLast ==
  [][config'.legacy # config.legacy =>
       config.legacy = "exact" /\ config.id \notin {Unset, Malformed}]_scopeVars

\* Writing the only remote in another way keeps the derived identity, and no
\* other project gets it (src/src/scope.rs:484).
SpellingIrrelevant ==
  [][SoleRemote # NoUrl /\ SoleRemote' # NoUrl =>
       (SoleRemote' = SoleRemote <=> Only'.project = Only.project)]_scopeVars
=============================================================================
