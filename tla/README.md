# Formal models of memocap

memocap is a local-first memory store for coding agents: a SQLite database, a
Rust command line over it, an optional HTTP server with one token, an OpenCode
plugin that calls the command line, an npm launcher and a setup program. This
directory keeps TLA+ models of its core, the TLC configurations that check them
and machine-checked proofs about them. Every definition is translated from the
source; `PROJECT.json` names the lines each one stands for.

Run from this directory: `tlc -config MCMemoryStore.cfg MCMemoryStore.tla`
checks a model, `tlapm MemoryStoreProofs.tla` checks its proofs.

## The system

| Component | State it keeps | Operations | Interacts through |
|---|---|---|---|
| Memory records (`src/store.rs`) | `memories` with placement (repository, domain, universal), `organized_at` | remember (insert or overwrite by id), forget, recall, list | one SQLite file, many processes; writes are `BEGIN IMMEDIATE` or one statement |
| Domains (`src/store/domains.rs`) | `domains`, `repository_domain_attachments` with positions | create, delete, attach (last or before another), detach | foreign keys from records and attachments |
| Copy and move (`src/store/transfers*`) | `memory_provenance`, `operation_ledger` | copy, move, replay, status | operation identity, supplied or derived from the request |
| Repository identity (`src/repository.rs`) | `repository_identities`, `repository_locations` | recorded with a write; locations observed after it | same transaction as the write, or best effort after it |
| Operations and receipts (`src/operation*`, `src/receipt*`) | none | one request to one receipt: validate, call the store, read back, observe, record activity | local calls and the server's `/v1/receipt` |
| HTTP server (`src/server*`) | none | one request at a time | opens the database for each request |
| Remote client (`src/remote*`) | none | version check, send, recover by ledger status | HTTP; a three second timeout for version checks and receipts, none for status queries and the library's transfers |
| Organization (`src/organization*`) | `organized_at`; snapshots held by agents | page, read, apply one confirmed group | a connection of its own |
| Activity (`src/activity*`) | `activity_events`, pruned | record, list, show, prepare | after the commit, best effort |
| Schema lifecycle (`src/store/schema*`) | schema version | create, upgrade, validate, refuse | every open, competing processes |
| Visible stack (`src/store/visible*`) | none | ordered sources, shadowing by topic, limits | several SELECTs for one answer |
| Repository scope (`src/scope*`, `commands/targets.rs`) | two keys in the repository's Git configuration | resolve, store and describe the identity of a directory; migrate the old key | git processes, one for each look or write; other commands and the user's git |
| Command line, TUI, configuration | config file | parse, route, render | the operations above |
| Plugin (`plugin/`) | sessions with generation, abort controller, cache; approvals | capture, transform, tools, compact, dispose | child processes of the command line |
| Launcher (`bin/`) | cache directory, lease files | install a binary once, elect an owner | file system, other launchers |
| Setup (`scripts/setup/`) | manifest with intents, lock file | install, update, uninstall, rerun | config files, skills, package managers |

What is hard here, and what makes each part correct:

- **Several processes write one database.** A call validates outside the
  transaction that writes. Correct: references never dangle, a search for
  similar records still holds at the insert, a domain was attached during the
  call.
- **Rowids are reused.** The newest record's id is taken again after a forget,
  while provenance, ledger entries and agents' snapshots still name it.
  Correct: no history passes to the new record, no stale snapshot applies to it.
- **Positions under a unique constraint.** SQLite checks `UNIQUE` at each row an
  UPDATE visits, in an order of its own. Correct: a shift never collides,
  positions stay dense, the order is the one asked for.
- **Answers get lost.** A client gives up while the server commits, resends,
  asks the ledger. Correct: one effect, no false answer, every call ends that
  is not waiting for an answer nobody times.
- **Agents act on what they read minutes ago.** Correct: a confirmed change
  applies only to what was reviewed and no edit or merge is lost.
- **Best effort after the commit.** A record is read back by rowid, a location
  noted and an event recorded after the transaction, each on its own. Correct:
  the receipt says committed exactly when it is, and events tell of what
  committed.
- **One answer, many SELECTs.** A recall reads attachments, topics and rows
  without a transaction. Correct: what it answers lies between the states it saw.
- **An identity is resolved by half a dozen git processes.** Correct: commands
  that run at once agree, the one they answer with stays stored, and a migration
  that stopped is finished.
- **Plugin sessions overtaken while they await.** Correct: no reference for
  another message or repository, no hook that ends silently unless its session
  moved on, no write that was not approved or whose approval is out of date, no
  false outcome.
- **Competing openers of one database, setup that dies and is run again.**
  Correct: openers agree, a configuration never selects a policy that is not
  there, stopped work can be resumed, edits of the user survive.
- **Launcher leases.** Not modelled, see below.

`PROJECT.json` lists each hazard at its line with the properties that cover it.

## Modules

| Module | What it models | Composed of |
|---|---|---|
| `MemoryStore` | The tables and every transaction that changes them | |
| `DomainStack` | Abstract: a stack of distinct domains per repository | |
| `DomainAttachments` | The integer positions, row by row | refines `DomainStack` |
| `StoreClients` | Processes whose calls take several steps and may die | extends `MemoryStore`, implements it |
| `Execution` | What follows a commit: read-back, location, activity, context | extends `MemoryStore`, changes it only by its transactions |
| `VisibleStack` | One recall or list, SELECT by SELECT, while others commit | extends `MemoryStore` |
| `TransferRecovery` | Copy and move over a connection that may break | extends `MemoryStore`, implements it |
| `Organization` | Agents with snapshots, apply and its preconditions | extends `MemoryStore` |
| `RepositoryScope` | Commands that resolve the identity of a repository, git process by git process | |
| `PluginBridge` | A request of the plugin to the command line, its deadline and kill | |
| `PluginSessions` | Hooks, tools and commands of the plugin at every await | extends `PluginBridge` |
| `SchemaLifecycle` | Processes that open one database file at once | |
| `SetupInstaller` | Setup runs with manifest, lock and intents, crashes and edits | extends `SchemaLifecycle` |
| `MemoryStoreProofs` | Theorems about the store, on which those below rest | extends `MemoryStore` |
| `DomainAttachmentsProofs`, `ExecutionProofs`, `PluginSessionsProofs`, `SetupInstallerProofs` | Theorems about the module of that name | |
| `CommandsProofs` | Theorems about `StoreClients` and `RepositoryScope` | |
| `ReadersProofs` | Theorems about `Organization`, `VisibleStack` and `TransferRecovery` | |
| `PluginRecallProofs` | What hooks of `PluginSessions` add to a message | extends `PluginSessionsProofs` |
| `MC*` | Values and bounds for TLC | |

Some modules hold operators whose comment begins with "Fault:". They are
plausible mistakes in the definition that follows them; nothing uses them. Each
property is known to fail when the definition named in `PROJECT.json`
("mutants") is replaced by its fault.

### MemoryStore

One action is one committed transaction: `Remember`, `Overwrite`, `ForgetAt`,
`CreateDomain`, `AttachDomain`, `DetachDomain`, `DeleteDomain`, `CopyMove`. A
call that fails is rolled back and a replay writes nothing; both are stuttering
steps. A table is a function from the keys present to rows. `Fresh` is SQLite's
choice of a rowid without AUTOINCREMENT. `DerivedId(q) == q` says that the
identity derived from a request is as good as the request, that is, SHA-256 has
no collisions here.

What a record says is one value, because content, kind, tags and topic are
written together; `Similar` is what full text search would find. The search's
default limit does not matter, since only "no hit" is asked. Contents that the
code refuses (empty ones) are not inputs.

Properties: `ReferentialIntegrity` (nothing dangles), `ProvenanceLedgered` (the
provenance of a live record is that of a committed transfer with that record as
its result), `ProvenanceImmutable`, `HistoryStartsFresh`
(a reused rowid starts without history), `TransferAtomic` (what a transfer does to
the row, the provenance and the ledger is what its entry says; that these
statements commit together or not at all is SQLite's transaction, which the model
takes as given: `CopyMove` is one action), `IdentityStable` (a recorded
name stays, a known remote is never replaced; checked in the run `execution`,
whose calls bring different descriptors).

### DomainStack and DomainAttachments

The detailed module takes a transaction row by row: `BeginAttach` or
`BeginDetach`, `RaiseRow` for each row of the first UPDATE, `BeginLower`,
`LowerRow`, `EndShift`, `Insert`, `Commit`, and `Rollback` anywhere. The rows of
an UPDATE are visited in any order. `rows` is what the transaction sees,
`position` what is committed. `RowsAdmissible` says that no row update ever hits
`UNIQUE (repository_id, position)` or `CHECK (position >= 0)`; `PositionsDense`
that committed positions are 0..n-1; `ImplementsStack` that ordering the domains
by position refines `DomainStack`, whose `pending` is the call that has the open
transaction: an insertion goes exactly before the domain the caller named, a
removal disturbs no other domain, and an open or rolled back transaction shows
nothing.

### StoreClients

A call goes through the stages of `operation/writes.rs`: two SELECTs that check
the domain (`CheckExists`, `CheckAttached`), `BeginRemember`, `CheckSimilar`,
`InsertRemembered`; `forget` and `remember --id` change in one step
(`ChangeInPlace`). `writer` is SQLite's write lock. `Crash` is possible
anywhere. `Elsewhere` is any other transaction. `held` is a history variable:
whether the call's domain was attached at some moment of it, and at its commit.

`CheckedStillHolds` and `AttachedDuring` are what the code gives.
`RequiresAttachedDomain` is what README.md:78-79 reads as, "`--domain` requires
an attached domain", taken at the commit; the run `detached_domain` shows a
remember that commits after another process detached the domain. Copy and move
check inside their transaction and do not have this gap. The foreign key keeps
the record from naming a deleted domain, so what is left is a record in a
registered domain that the repository no longer sees.

### Execution

A call of a local process goes `Begin`, `Core` (the store's transaction, or the
refusal or replay), `Materialize`, `Observe`, `Record`, `Answer`, in the order of
`operation/execution.rs`; a write the server serves first runs `Prepare` (the
event is decided before the transaction, `server/committed.rs`), answers its
context before it records, and the server takes one request at a time
(`ServerFree`). Each step is a transaction or SELECT of its own; `Die` is possible
between any two, and observing, reading back and recording may fail.
`PrepareActivity` is the plugin's `activity prepare`, which prunes; `Tick` moves
the one clock that `started_at`, `observed_at` and the retention read. `effects`,
`recorded` and `sightings` are history variables.

`CommittedReported`: a finished receipt says committed exactly when its call
committed. `EventsTruthful`: a write event tells of something that committed and
an operation has one event of a phase, also when a replay was decided from what
was read before the transfer ran. `KeepsNewest`: an event that is
gone was a read past its retention, or older than everything kept of its category
while that was full. `LocationLatest`:
the stored time of a location is that of its newest sighting.

One thing met while modelling, without a run: `Receipt::activity(Failed)`
replaces the warnings collected before, the one for a failed location observation
among them, while docs/adr/0001:16 and REPOSITORY-IDENTITY-PROPOSAL.md:87 say that
failure reports a warning.

### VisibleStack

`Resolve` is one SELECT of a target's attached domains, `ReadTopics` and
`ReadRows` read one source each, `Finish` merges and cuts; `Commit` is another
connection's transaction between any two. `past` remembers the stores that
existed since the call began. bm25 may order the rows of one source in any way.

`AnswerBetween`: before the cut, every record found was there and not shadowed
all along in the stores that existed during the call, and a record that stayed
put, matched and could not be shadowed is found, by itself or, in a list, by the
least record of what it stands for. Without a commit during the call
this is the exact meaning of shadowing. It states what the
code can promise without a transaction, and what it does not promise shows in
its conditions: a record that is moved during the read may appear twice or not at
all; a topic that moves atomically from a domain to the repository may leave the
universal record of that topic unshadowed; a list reports the placements of one
SELECT and searches those of another. `AnswerCut`: one cut by count and
characters after the targets are merged, whose first record escapes the character
budget, and which says `truncated` exactly when it left something out.

### TransferRecovery

A client checks the server's version (`Start`, `Verified`), sends the transfer, and
on an ambiguous result asks the operation ledger. There are two clients in the code:
every command uses the receipt client, which sends once, waits three seconds and
afterwards only asks; `remote::copy_move`, a function of the library that no command
calls, sends a second time when the ledger has no entry. The three seconds are those
of `receipts::send`, which carries the version check of both clients and the
transfer of the receipt client (`TimesOut`). Every status query and the transfer of
the library client go through `post` (`remote.rs:105`), which waits until it is
answered or sees the connection break. The server takes any message at any time, so
a transfer may arrive after its client has given up, and after its second sending.
`LoseMessage` covers refused connections and a server that dies or answers 500
before it commits; `LoseReply` and `Disconnect` cover broken connections and
proxies, and `Disconnect` is the only way out of a `post` whose answer is lost.

`CommittedTruthful`: what a client reports as committed is, with its request.
`OneEffect`: sending twice, late arrivals and a second client with the same
identity commit at most once between them. `HandleFinds`: the recovery handle
finds whatever a message of its client committed. `ReceiptFailureFinal`: a command
that reports a failed transfer is right, then and later. Of the library client the
last is not so, after an ambiguous first send: an unambiguous error of the status
query or of the second send is returned as a plain failure without a handle,
although the first send may commit. The model has that step. `OnlySilenceHangs`:
whatever is lost and however often, a call ends unless it waits for ever in `post`
for an answer that does not come.

### Organization

`TakeSnapshot` is what `page` and `read` give of one record; paging is reading
record by record. `Apply` is one transaction with `check_preconditions`; the four
groups of a request are one record that is kept, rewritten or only marked, and
records that are dropped. A text is the stamp of the write that made it: the
model assumes that two writes of content differ in `updated_at` or in content,
as the code does. `covers` and `rewritten` are history variables.

`ReferentialIntegrity` is checked here too, because apply deletes records over a
connection of its own, whose `foreign_keys` PRAGMA it must set itself.

`AppliesAsReviewed`: no group applies to a record that was rewritten, or
replaced under its rowid, after the agent read it. `MergesLoseNothing`: keeping,
refining and merging lose no write that the live records carried.

### RepositoryScope

A command resolves its repository by git processes: `Locate` (`rev-parse`),
`ReadId`, `ReadLegacy`, `Derive`, `Persist`, `Verify` (the read-back), `Clean` (the
old key), and then describes it by two more, `Describe` and `Name`. A command that
only inspects, or that names another directory, stores nothing (`writes`).
`Interrupted` is a git command that fails, or the death of the command. The user
initializes the repository, sets or removes remotes and moves it (`Change`), between
any two of them. A URL is its parsed parts and an identity the pair that is
hashed, so that equal identities are equal pairs. `crossed` and `calm` are history
variables: whether the repository was changed while a command was between finding
no identity and storing one, and whether it was left alone during a run.

`RunsAgree`: a command during which the user left the repository alone answers what
the repository says now, stored or derived, with the description of the same
moment, however many others resolve it at once. `MigrationFinished`: what a storing
command answers with is backed by a stored identity and the old key is gone,
whatever died before. `StoredOnce`: a stored identity is replaced only by a command that
derived another while the user changed the repository, and one that cannot be read
never. `OldKeyLast` (proved, without a run of its own): the old key goes only once
an identity is stored.
`SpellingIrrelevant`: another spelling of the only remote keeps the identity and no
other project gets it.

The condition of `StoredOnce` is what the code leaves open: `derive_scope` stores
what it derived without looking again (scope.rs:337), so of two first commands with a
change of the remote between them the second replaces the identity that the first
has already answered with. And of two commands that migrate the same old key at
once the second fails in `Clean`, because git reports an error when there is
nothing to unset; the next command succeeds.

### PluginBridge and PluginSessions

`PluginBridge` is `bridge.js`: a handshake process and then the command, under one
deadline and one abort signal. A killed command may have committed before the
kill arrives (`Commits` while stopped).

`PluginSessions` is everything above it. JavaScript runs to completion, so a step
is a function from one `World` to the next, from an await of something outside (a
process, the host, the user) to the next such await: `Automatic`, `Recalled`,
`Located`, `Transform`, `Unlocated`, `Transforming` are the pieces of the
transform hook, `Targeted`, `Agreed`, `Searched`, `Written`, `Applied`, `Calling`
those of a tool or command, and `StateFor`, `Capture`, `Invalidate`, `Clear` those of the
session map. `Become` turns a piece into the step. The host's and the user's steps are
`NewMessage`, `QuietCommand`, `InspectCommand`, `Compact`, `Dispose`,
`UserAborts`, `UserAgrees`, `UserDenies`, and eviction of the least recently used
session happens inside the steps that add one. `asked`, `chosen`, `superseded`,
`outdated`, `granted` and `writes` are history variables. `automatic` is the plugin's
option: without it a hook that finds no recall cached does not look for one and adds
nothing (`recall.js:183`, `tests/plugin-recall.test.cjs:92`), which the model reports
as "off" and not as a silent end.

`InjectedFresh`: a reference added to a message was recalled for terms the session
has asked for since its last message came, by a tool or by a hook for its own
message, and for the repository in force, by a hook whose session was not changed,
dropped or disposed of meanwhile. `NeverSilent`: a hook that looks for a recall ends
without a part, a reference or a visible failure, only when the plugin was disposed
of or when, since it captured its message, its session was given another one,
changed, dropped, or taken over by a hook that captured its own. A hook takes a
session over when the session has another message than the hook's (`Overtaken`); one
that finds its own message there does not, and a hook that had finished before is no
excuse. `superseded` holds the hooks to which one of these happened; both properties
read it. `WritesGranted`: what a call commits was granted by the user in that call,
to that repository, at most once. `ApprovalsHold`: a tool that asked the user goes
on with the approved targets only if nothing of this happened to its session since
they were put to the user, which is what `approved` compares (`operations.js:35`),
also after the call has waited for `session.get` once more. Targets are put to the
user again by a call that shares them, and this renews the approval of both
(`AskedAnew`). `OutcomeTruthful`: a call that reports it did not start, was denied
or rejected has written nothing, and one that reports a write has made it.

What the model assumes: a transform is given the session's latest message; the
generation counter is kept only as current or stale; tasks woken by a settled
request run before any outside event.

`TurnsInvalidate` is what `tests/plugin-recall.test.cjs:63` says, "new real user
turns invalidate": no reference added to a message was recalled for an earlier one.
The run `late_hooks` shows one. The hook of the first message waits for
`session.get` while the second message comes, and then captures its own, so that
the session has the terms of the first again; a hook of the second message fails, by
its `session.get`, and its failure labels the session with the second message
(`recall.js:190-191`); the next hook of that message finds the label equal, captures
nothing and adds what was recalled for the first one's terms. `InjectedFresh` holds
all the same: the first hook asked for these terms since the second message came.

What the conditions of the properties leave open, met while modelling and all
harmless to the written data: a hook that waited for `session.get` captures its
old message after a newer one and takes the session over; a command that is not
quiet sets the message id without invalidating, so that a following hook captures
again or drops a running one, a part may carry the command's message id, and the
recall a `/memory recall` leaves is lost at the next transform; after a failed
`session.get` on a fresh session later hooks of that message fail until the next
one; a new message that awaits a shared resolution already aborted fails as
cancelled; the approval of a shared array of targets is overwritten by a later
call's; the chosen scope is lost on compaction and eviction; `failure()` maps a
missing outcome to not started.

### SchemaLifecycle and SetupInstaller

`SchemaLifecycle` is `store/schema.rs`: `OpenFile` creates the file, `BeginPrepare`
takes the write lock and decides what the file needs, `EndPrepare` creates,
upgrades, accepts or refuses, `GiveUp` is a death or a busy timeout. `Inspected`
is the strict reader of `status --read-only`. `OpenersAgree`: a competing opener
is refused only if the file was unusable, the schema only goes forward, and a
refusal changes nothing.

`SetupInstaller` takes a run of `scripts/setup` step by step: inspection and
`Preflight` without the lock, `LockManifest` with the read-back, `PersistIntent`,
`InstallCLI`, then per scope `InstallSkill`, `SaveSkill`, `CompareConfig`,
`RenameConfig`, `ReadConfig`, `SavePlugin`, `BeginRemoval`, `EndRemoval`, then
`PrepareBackend` (a child process, an opener of the database), `BackendReadback`,
`ClearIntents`, `Unlock`; `UninstallScope`, `DeleteRecord` and `RemoveCLI` are the
other operation. `Die` leaves the lock behind, `RemoveStaleLock` is the user's
repair, `EditConfig` an edit of the configuration at any moment.

`PolicyPresent`: a configuration that selects a policy finds it whole, at every
step of every run and wherever one dies. `ScopesMatchCLI`: a scope without a
pending operation was set up for the CLI that is installed. `Resumable`: an
operation that stopped anywhere passes preflight when started again, if the file
is as the intent found it or would leave it. `EditsRetained`: a user's edit is
overwritten only if it was made between the last comparison of the file and its
rename.

What the conditions leave open: an unrelated edit of a configuration between a
crash and the rerun makes a rerun over several scopes refuse at the second one,
and an edit between the switch and the end makes every rerun refuse
(`plugin_modified`), although docs/INSTALL.md:192 says to resume with the same
`--to`; an edit between `atomicWrite`'s comparison and its rename is lost
(docs/INSTALL.md:65); a child that dies after creating the file leaves an empty
database, which the strict reader reports as an error, so that setup refuses
until another command has prepared it; a crash inside `rmSync` leaves part of a
payload and a reinstallation is refused (`policy_collision`); the lock of a dead
run stays until it is removed.

## Runs and bounds

| Run | Config | Bounds | States |
|---|---|---|---|
| `store` | `MCMemoryStore.cfg` | two repositories, one domain, two texts, one key, two rowids, two committed transfers, symmetry | 515,000 |
| `attachments` | `MCDomainAttachments.cfg` | two repositories, three domains | 10,712 |
| `clients` | `MCStoreClients.cfg` | two processes, two repositories, one domain, one text, two rowids, symmetry; a transfer ends a behaviour (`MaxLedger` 0) | 528,000 |
| `detached_domain` | `MCDetachedDomain.cfg` | one process | violation |
| `execution` | `MCExecution.cfg` | two calls out of fifteen, one repository and location, three rowids, caps of one event, no retention, clock to 2 | 792,400 |
| `stack` | `MCVisibleStack.cfg` | one of seven calls, two repositories, two domains, three texts (two on one topic), two rowids, one commit during the call | 2,832,448 |
| `organization` | `MCOrganization.cfg` | two agents, one domain, one key, two rowids, two transfers, four stamps, symmetry | 49,682 |
| `recovery` | `MCTransferRecovery.cfg` | two clients, two repositories, one key, one domain; others only write record 1 as a universal one and forget; one pair of calls of each interchangeable kind | 455,662 |
| `plugin` | `MCPluginSessions.cfg` | two sessions of which one works and one is kept in the map, two messages, two hooks and one call, three under way, the option `automatic` on or off, one outside event | 530,157 |
| `late_hooks` | `MCLateHooks.cfg` | three hooks, two messages, no calls, two outside events | violation |
| `scope` | `MCRepositoryScope.cfg` | two commands, two directories, two places, two remote names, three URLs of supported and one of unsupported form, one change by the user, symmetry | 1,465,582 |
| `installation` | `MCInstallation.cfg` | two scopes, versions 1 and 2, two setups and one other opener, three runs, one edit per file, symmetry | 1,321,257 |

Why these bounds reach the interesting cases. Two rowids are enough for a copy
beside its source and for the reuse of the newest rowid; two committed transfers for
a record that is copied and then moved, and for one operation identity used by two
requests; two repositories for a foreign placement. Two processes make every race
between a check and a write; two clients with one supplied identity make conflicts,
and with derived identities equal requests. A cap of one event makes every insertion
prune, and a clock of three times makes arrivals out of order. One commit during a
read is what splits any two of its SELECTs; a commit may be any transaction of the
store. Two agents and four stamps give a merge over a merge; a domain or a transfer
is combined with at most one earlier write and one agent with snapshots (`MaxEarly`,
`MaxReaders`). A map of one session makes every other session an eviction; one
outside event may fall between any two steps, and one call with two hooks gives
every pair that shares a resolution. Two commands that resolve one repository and
one change by the user between any two of their git processes make every stale read.
Three runs are a crash, a rerun and a competitor; the database is competed for
(missing, 2.1 with an addition, a refused 2.1) with files nobody edits, or the files
are edited with a 2.2 database, because neither reads the other.

`MaxId`, `MaxLedger`, `MaxStamp`, `MaxEarly`, `MaxReaders`, `MaxClock`,
`MaxCommits`, `Stacks`, `MaxMessages`, `MaxPending`, `MaxEvents`, `Working`,
`Objects`, `MaxRuns`, `MaxNotes`, `MaxChanges` and `FewWrites` are the bounds that
are not in the code. `ReadCap`, `WriteCap`, `Retention` and `MaxSessions` are in the
code, with larger values. Deadlock is not checked where the bounds themselves stop
the system (rowids, stamps, calls that have ended).

## Fairness

Only `RecoverySpec` assumes any, and only of the client's own steps: it goes on when
it can, reads an answer that has come, and stops waiting after three seconds where it
has a timeout (`verify_version` and `receipts::send`). The server and the network
are assumed to do nothing: a message may stay under way for ever, and a lost answer
need never be noticed, because `post` sets no read timeout (`remote.rs:105`). So not
every call ends. `OnlySilenceHangs` says which do: all, except one that waits for ever
in `post` for an answer that does not come, which is a transfer of the library client
or a status query of either client. In particular the receipt client leaves its
version check and its transfer, and no client resends or asks without end. The run uses no
symmetry set, which liveness does not allow; `OneOfEach` drops initial states that
differ from another only in the names of clients, repositories or identities.

## What is proved

For every number of repositories, domains, texts, keys, processes, clients,
agents, installers, openers and scopes:

- `MemoryStoreProofs`. The invariant `StoreInv` is `TypeOK`, `ReferentialIntegrity`
  and `ProvenanceLedgered`: every step preserves it, `ProvenanceLedgered` because
  the identity of a committed entry is never taken again. The action properties need
  it in the state before the step: that provenance names live records only makes a
  freshly inserted rowid free of it (`HistoryStartsFresh`, `TransferAtomic`), and
  that every provenance has its ledger entry makes the one of a new transfer
  recognizable as new. `LedgerDurable`, `ProvenanceImmutable` and `IdentityStable`
  follow from the guards of the step.
- `DomainAttachmentsProofs`. `AttachInv` adds to the properties what each phase
  of a transaction knows: which rows have been raised, that the raised and the
  untouched rows lie in disjoint ranges, and that the rows without the gap are
  dense. From it: `TypeOK`, `PositionsDense`, `RowsAdmissible`. `ServedInv` says
  where in the abstract stack the open transaction will put or remove its domain;
  with it every step maps to a step of `DomainStack` or a stutter
  (`AttachmentsImplementStack`, `ImplementsStack` for every number of domains).
- `CommandsProofs`. `ClientsInv` says what each stage of a call knows (the
  lock is held exactly in `check` and `insert`, the search still holds, the
  domain was attached). `ClientsImplementStore` proves `ClientsSpec => Spec`:
  each step is a transaction of the store or a stuttering step. So every
  theorem about the store carries over, as `ClientsReferences` shows.
  `ScopeInv` says what a resolving command has found out at each of its git
  processes and what of it may be out of date: only a change by the user, or a
  store of another command that derived the same while nothing changed. From it
  `RunsAgree`, `MigrationFinished`, `StoredOnce` and `OldKeyLast`.
- `ExecutionProofs`. `ExecutionInv` says what a receipt knows at each stage (a
  committed one has the effect of its own process, a replayed one that of its
  operation), that every ledger entry has its effect, that the stored location
  is the newest sighting, and that events are truthful. `EventsTruthful`,
  `CommittedReported` and `LocationLatest` follow. `HistoryInv` adds that events
  are finitely many, of different sequence numbers below a bound and no later than
  the clock, so that the newest exists; pruning with one new event then keeps the
  newest of all that was ever recorded (`PruneKeeps`), for every cap, which is
  `KeepsNewest`. `ExecutionStore` shows that
  every step is a transaction of the store or leaves it alone, so `StoreInv` and
  `IdentityStable` carry over.
- `ReadersProofs`. `OrganizationInv`: stamps do not run ahead of the clock,
  a snapshot was true when it was taken, and a row that was rewritten since
  differs from it, by a newer stamp or by the provenance of a later transfer. So
  the preconditions refuse it (`AppliesAsReviewed`). `covers` only grows along
  the groups that keep, refine or merge (`MergesLoseNothing`). `ReadInv`, of a
  recall or list: each attachment resolved, each topic read and each record held is
  that of a store that existed during the call, and every record that stayed put
  in a source already read is held. At the end that is `AnswerBetween`, for any
  number of records, domains, targets and commits during the call; in a list
  the least visible record of what a record stands for is found instead of it.
  `CutInv` adds the order: every list of sources names a placement once, an entry is
  at the source its target's list has it at and was passed, and of two entries the
  first has no later target and source and, at the same source, another record.
  With it merging one target changes nothing (`SingleTarget`), merging several keeps
  the order (`MergedInOrder`), and `AnswerCut` is left to what the two budgets
  compute of any sequence (`BudgetCut`, `LibraryCut`): the longest prefix that
  fits, because running totals only grow (`TotalsGrow`).
  `RecoveryInv`, of copies and moves over a connection: a committed reply, a reported
  success and a counted commit each have their ledger entry with their request, an
  operation has one effect, and the receipt client sends once, so that its
  refusal is the end of its transfer. From it `CommittedTruthful`, `OneEffect`,
  `HandleFinds` and `ReceiptFailureFinal`. `RecoveryImplementsStore` proves
  `RecoverySpec => Spec`, so that theorems about the store hold behind such a
  connection too, as `RecoveryTransferAtomic` shows.
- `PluginSessionsProofs`. `PluginInv` ties every call to what the user granted
  it: the targets a call goes on with were chosen or agreed to by that call, its
  request carries them, a command is started at most once for a call and its
  outcome is that of the process. From it `WritesGranted` and `OutcomeTruthful`,
  for any number of sessions, hooks, calls and messages. `PlaceInv` says where the
  objects, tasks and hooks are: the map lists objects of different sessions, no more
  than it may; a task under way holds an object of its session; and each hook
  is out of date or holds a listed object in the generation it found.
  The invariant is about the last of these, and it needs the others, since a step of one
  task gives a new generation only to an object of its own session (`Steady`), and
  only steps that make the session's hooks out of date do so (`StepPlaces`). The
  sweep keeps what a task holds and leaves an object to be made (`SomeSpare`, by
  counting). From it `NeverSilent`.
- `PluginRecallProofs`. `AskInv`: what an object has cached or has in flight, what a
  hook or call waits for and what a finished one holds are terms that the session
  asked for since its last message, unless the hook was superseded or the object is
  stale. It needs `PlaceInv`, because only an object of the session's own can hand
  its cache to a hook, and it is stated of a world and a history (`Sound`): a step
  first records what it asks for and then runs handlers and woken tasks in sequence,
  each of which keeps a world sound for the same history. From it `InjectedAsked`, two
  of the three promises of `InjectedFresh`, for any number of sessions, hooks, calls
  and messages.
- `SetupInstallerProofs`. `SetupInv`: one run holds the lock, the intents it finds
  are those of its own operation and target, the target's policy is whole before the
  switch, an edit it has not seen is marked as missed, and nothing selects a payload
  that is being removed. From it `PolicyPresent` and `EditsRetained`. `UpdateInv`
  adds what an intent has left at every step it may have stopped at, in the
  manifest, the policy and the configuration, and that another scope cannot begin in
  between. From it `ScopesMatchCLI` and `Resumable`. `SchemaInv` says that what an
  opener found in its transaction still holds there; from it `OpenersAgree`.

Assumptions: those named in the modules. Bounds and caps are natural numbers
(`MaxIdAssumption`, `StampAssumption`, `ClockAssumption`, `CapsAssumption`,
`SessionsAssumption`, `MessagesAssumption`, `NotesAssumption`), a database has
finitely many domains (`DomainsAssumption`), values that stand for nothing differ
from what they replace (`NothingAssumption`, `NoRemoteAssumption`,
`NoReferenceAssumption`, `KeyAssumption`, `NoCallAssumption`,
`NoPlacementAssumption`, `NoneAssumption`, `UnsetAssumption`, `FilesAssumption`, and
so on), and requests are well formed (`CallsAssumption`, `RequestsAssumption`,
`SimilarAssumption`, `TopicAssumption`, `TasksAssumption`, `SlotsAssumption`,
`ToolsAssumption`, `WidthAssumption`, `WorkingAssumption`, `VersionsAssumption`).
That the plugin can always make an object is `ObjectsAssumption`: the map, the tasks
and the approvals they wait for hold fewer than there are.

Only model-checked:

- `OnlySilenceHangs` is liveness, which, like `ENABLED`, is out of the prover's reach.
- `ApprovalsHold`: its proof would need the approvals of shared targets and what puts
  them to the user again. In the run one call waits for the user at a time, so that
  this renewal is modelled and not reached.
- `SpellingIrrelevant` depends on which URLs there are: it says something of the
  instance's data.
- Of `InjectedFresh`, that the recall was for the repository in force and that the
  hook was not superseded. `InjectedAsked` proves the rest. The first needs what `AskInv`
  says of terms said again of the shared resolution, its requests and the approvals
  that rewrite an object's targets; the second, that a step which supersedes a hook
  gives its object a new generation or unlists it, in the same step.

The induction theorems of the library take an operator as parameter, which the
provers cannot instantiate. What `AnswerCut` needs of running totals is proved by
induction over a set instead (`InductionUpTo`: a set of numbers that lacks one lacks
a least one), which also gives the functions defined by recursion up to a number
(`RecursionUpTo`).

The type invariants of `DomainAttachments`, `StoreClients` and `Execution`, and
`LedgerDurable` and `OldKeyLast`, are proved and not checked by a run as well.

## Not modelled

- Argument parsing, configuration, rendering, the TUI, help and
  policy texts and the release checks are parsing, layout and file reading
  without a state the properties could relate.
- The launcher's cache lock decides by the age of lease files and by time read
  before a file is written. What it guarantees rests on how long a process may be
  suspended and how far clocks of the file system are apart, and the code states
  no bound for either: without one the lock gives nothing to check, with an
  invented one the model would show the invention.
- Of the server: parsing of requests, the token and how long a client waits for
  the one before it, which nothing promises.
- Of operations: status, inventory and activity listings, each a SELECT whose
  answer nothing depends on; sequences of pages in organization, since each page
  is a snapshot and nothing is promised across them.
- Of the plugin: argument schemas, toasts, the policy text, `organize` page and
  read.
- Of setup: inherited owners and shared configuration, adoption of earlier
  installations, policies the user modified, `doctor` and `check`, the worker
  it delegates to.
- SQLite, tiny_http, ureq, Node and the host are modelled only by how the code
  uses them: transactions, one writer at a time, foreign keys, messages that are
  taken or lost, steps between awaits. Timestamps matter only by their order. The
  text of the schema, full text search and its ranking are not modelled.

## Plan

Done: the store, attachments, clients, execution, visible stack, recovery,
organization, scope, plugin, schema and setup, with proofs about all of them. In
this order next:

1. The repository of `InjectedFresh`: what a generation of an object says of its
   targets and of the requests that wait for them, next to `AskInv`; with the
   approvals it would also give `ApprovalsHold`.
2. Inherited owners and adoption in `SetupInstaller`.
3. The cache lock under an explicit bound on suspension, once the code states one.
