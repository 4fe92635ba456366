----------------------------- MODULE Execution ------------------------------
(***************************************************************************)
(* What happens around the core transaction of an operation: a process     *)
(* (src/operation/execution.rs) or the server (src/server/routes.rs)       *)
(* commits, reads the record back, notes where the repository was seen,    *)
(* and records the operation in the activity history, each in a            *)
(* transaction or SELECT of its own, and may die between any two.          *)
(*                                                                         *)
(* Abstractions: one repository location; an event's JSON is who recorded  *)
(* what and when; the checks of StoreClients (attachment, similarity) are  *)
(* left to that module; time is a small clock that started_at, observed_at *)
(* and the retention cutoff read.                                          *)
(***************************************************************************)
EXTENDS MemoryStore, FiniteSetsExt

CONSTANTS
  Processes,  \* calls, each made by a process or served by the server
  Calls,      \* the requests they may make
  NoKey,      \* a transfer without a key of its own
  NoCall,     \* a process that has not called yet
  Never,      \* a location that was not seen
  ReadCap,    \* 10000 read events
  WriteCap,   \* 1000 write events
  Retention,  \* 30 days
  MaxClock    \* bound: the last time

ASSUME CapsAssumption == ReadCap \in Nat /\ WriteCap \in Nat /\ Retention \in Nat
ASSUME ClockAssumption == MaxClock \in Nat /\ Never \notin Nat
ASSUME KeyAssumption == NoKey \notin Keys
ASSUME RecordAssumption == 1 \in MemoryIds

VARIABLES
  calls,     \* per process, its request and receipt
  location,  \* repository_locations.observed_at of the repository
  events,    \* table activity_events
  clock,     \* the time
  effects,   \* history: what committed, by whom
  recorded,  \* history: every event ever inserted
  sightings  \* history: the observations that did not fail

executionVars == <<storeVars, calls, location, events, clock, effects, recorded, sightings>>

-----------------------------------------------------------------------------
(* Requests and receipts.                                                  *)

Transfers == {"copy", "move"}
Writes == {"remember", "overwrite", "forget"} \cup Transfers

ASSUME CallsAssumption ==
  /\ Calls \subseteq
       [route : {"local", "server"}, kind : Writes \cup {"recall", "sink"},
        repository : Repositories, id : MemoryIds, from : Placements, to : Placements,
        text : Texts, key : Keys \cup {NoKey}, seen : BOOLEAN, descriptor : Descriptors]
  /\ \A q \in Calls : q.kind = "sink" => q.key \in Keys

\* The operation identity of a receipt: the transfer's, the one a plugin
\* event carries, or a new one.
TransferRequest(q) ==
  [repository |-> q.repository, action |-> q.kind, id |-> q.id, from |-> q.from, to |-> q.to]

OperationOf(p, q) ==
  IF q.kind \in Transfers
  THEN IF q.key = NoKey THEN DerivedId(TransferRequest(q)) ELSE q.key
  ELSE IF q.kind = "sink" THEN q.key ELSE p

Start(p, q) ==
  [pc |-> IF q.route = "server" /\ q.kind \in Writes THEN "prepare" ELSE "core",
   request |-> q, op |-> OperationOf(p, q), started |-> clock, pending |-> TRUE,
   status |-> "running", ids |-> {}, activity |-> "not_requested", warnings |-> {},
   context |-> Never]

Idle == calls = [p \in Processes |-> NoCall]

Active(p) == calls[p] # NoCall /\ calls[p].pc \notin {"done", "dead"}

\* The sequential server takes one request at a time.
ServerFree == \A p \in Processes : Active(p) => calls[p].request.route # "server"

Begin(p, q) ==
  /\ calls[p] = NoCall
  /\ q.route = "server" => ServerFree
  /\ calls' = [calls EXCEPT ![p] = Start(p, q)]
  /\ UNCHANGED <<storeVars, location, events, clock, effects, recorded, sightings>>

Reply(p, c) == calls' = [calls EXCEPT ![p] = c]

-----------------------------------------------------------------------------
(* The core transaction.                                                   *)

\* committed::prepare: no event for a transfer that is already in the ledger
\* (a conflict there is an error and leaves none either).
Prepare(p) ==
  /\ calls[p] # NoCall /\ calls[p].pc = "prepare"
  /\ LET c == calls[p] IN
     Reply(p, [c EXCEPT !.pc = "core",
                 !.pending = c.request.kind \in Transfers => c.op \notin DOMAIN ledger])
  /\ UNCHANGED <<storeVars, location, events, clock, effects, recorded, sightings>>

\* A receipt (of a local call, or of the recall a server runs as one) is
\* recorded and then told the context; the answer of a server's write gets
\* the context first.
Receipted(q) == q.route = "local" \/ q.kind \notin Writes

AfterObserve(q) == IF Receipted(q) THEN "record" ELSE "context"
AfterRecord(q) == IF Receipted(q) THEN "context" ELSE "done"
AfterContext(q) == IF Receipted(q) THEN "done" ELSE "record"

\* After the commit a local process reads its record back, except a forget;
\* the server goes on to the location.
AfterCore(q) ==
  IF q.kind = "forget" THEN AfterObserve(q)
  ELSE IF q.route = "local" THEN "materialize" ELSE "observe"

Committing(p, c, ids) ==
  /\ Reply(p, [c EXCEPT !.pc = AfterCore(c.request), !.status = "committed", !.ids = ids])
  /\ effects' = effects \cup
       {[by |-> p, op |-> c.op, action |-> c.request.kind, id |-> i] : i \in ids}
  /\ UNCHANGED <<location, events, clock, recorded, sightings>>

\* A statement that changed nothing: rejected, not there, or a conflict.
Ending(p, c, status, pc) ==
  /\ Reply(p, [c EXCEPT !.pc = pc, !.status = status])
  /\ UNCHANGED <<storeVars, location, events, clock, effects, recorded, sightings>>

Saves(p, c) ==
  /\ c.request.kind = "remember"
  /\ Remember(c.request.to, c.request.text, TRUE, c.request.descriptor)
  /\ Committing(p, c, Live' \ Live)

Overwrites(p, c) ==
  /\ c.request.kind = "overwrite"
  /\ IF AtPlacement(c.request.id, c.request.to)
     THEN /\ Overwrite(c.request.to, c.request.id, c.request.text, c.request.descriptor)
          /\ Committing(p, c, {c.request.id})
     ELSE Ending(p, c, "failed", "done")

\* writes::execute has no event for an empty forget; the server has one
\* pending and looks at what it answered.
Forgets(p, c) ==
  /\ c.request.kind = "forget"
  /\ IF AtPlacement(c.request.id, c.request.from)
     THEN /\ ForgetAt(c.request.from, c.request.id)
          /\ Committing(p, c, {c.request.id})
     ELSE Ending(p, c, "empty", "context")

Transferring(p, c) ==
  /\ c.request.kind \in Transfers
  /\ CopyMove(c.op, TransferRequest(c.request), c.request.descriptor)
  /\ Committing(p, c, {ledger'[c.op].result})

\* A replay answers from the ledger: no observation, and locally no event.
Replays(p, c) ==
  /\ c.request.kind \in Transfers
  /\ c.op \in DOMAIN ledger
  /\ ledger[c.op].request = TransferRequest(c.request)
  /\ Reply(p, [c EXCEPT !.pc = IF c.request.route = "local" THEN "materialize" ELSE "context",
                        !.status = "replayed", !.ids = {ledger[c.op].result}])
  /\ UNCHANGED <<storeVars, location, events, clock, effects, recorded, sightings>>

Refuses(p, c) ==
  /\ c.request.kind \in Transfers
  /\ \/ c.op \in DOMAIN ledger /\ ledger[c.op].request # TransferRequest(c.request)
     \/ c.op \notin DOMAIN ledger /\ ~AtPlacement(c.request.id, c.request.from)
  /\ Ending(p, c, "failed", "done")

\* A recall or a plugin event writes nothing here.
Reads(p, c) ==
  /\ c.request.kind \in {"recall", "sink"}
  /\ Ending(p, c, "answered", "record")

Core(p) ==
  /\ calls[p] # NoCall /\ calls[p].pc = "core"
  /\ LET c == calls[p] IN
     \/ Saves(p, c)
     \/ Overwrites(p, c)
     \/ Forgets(p, c)
     \/ Transferring(p, c)
     \/ Replays(p, c)
     \/ Refuses(p, c)
     \/ Reads(p, c)
     \/ Ending(p, c, "failed", "done")  \* a busy or unreadable database

-----------------------------------------------------------------------------
(* After the commit.                                                       *)

\* writes::materialize: the row that has the identity now, or a warning.
Materialize(p) ==
  /\ calls[p] # NoCall /\ calls[p].pc = "materialize"
  /\ LET c == calls[p] IN
     IF c.status = "replayed"
     THEN Reply(p, [c EXCEPT !.pc = "context", !.warnings = {"replay"}])
     ELSE \E unreadable \in BOOLEAN :
            Reply(p, [c EXCEPT !.pc = "observe",
                        !.warnings = IF unreadable \/ c.ids \cap Live = {} THEN {"record"} ELSE {}])
  /\ UNCHANGED <<storeVars, location, events, clock, effects, recorded, sightings>>

\* Fault: the last observation to arrive wins.
LatestArrival(at) == at

\* The WHERE of the upsert in repository::observe.
Sighted(at) == IF location = Never \/ at >= location THEN at ELSE location

ObservedAt(p) ==
  /\ location' = Sighted(calls[p].started)
  /\ sightings' = sightings \cup {calls[p].started}
  /\ Reply(p, [calls[p] EXCEPT !.pc = AfterObserve(calls[p].request)])

\* A target without path or time is not noted; a failure is a warning.
Unobserved(p, warnings) ==
  /\ Reply(p, [calls[p] EXCEPT !.pc = AfterObserve(calls[p].request), !.warnings = @ \cup warnings])
  /\ UNCHANGED <<location, sightings>>

Observe(p) ==
  /\ calls[p] # NoCall /\ calls[p].pc = "observe"
  /\ IF calls[p].request.seen
     THEN ObservedAt(p) \/ Unobserved(p, {"location"})
     ELSE Unobserved(p, {})
  /\ UNCHANGED <<storeVars, events, clock, effects, recorded>>

-----------------------------------------------------------------------------
(* The activity history.                                                   *)

PhaseOf(kind) ==
  CASE kind = "recall" -> "recall" [] kind = "sink" -> "injection_prepared" [] OTHER -> "write"

CategoryOf(kind) == IF kind \in Writes THEN "write" ELSE "read"

EventOf(c, sequence) ==
  [sequence |-> sequence, op |-> c.op, phase |-> PhaseOf(c.request.kind),
   category |-> CategoryOf(c.request.kind), started |-> c.started,
   action |-> c.request.kind, ids |-> c.ids,
   by |-> IF c.request.kind = "sink" THEN "plugin" ELSE c.request.route]

Later(e, f) == e.started > f.started \/ (e.started = f.started /\ e.sequence > f.sequence)

Newest(S, cap) == {e \in S : Cardinality({f \in S : Later(f, e)}) < cap}

OfCategory(S, category) == {e \in S : e.category = category}

Expired(e) == e.category = "read" /\ e.started + Retention < clock

\* Fault: one limit for the whole table.
PruneTogether(S) == Newest({e \in S : ~Expired(e)}, ReadCap + WriteCap)

\* activity::schema::prune: reads by age, then each category by count.
Prune(S) ==
  Newest({e \in OfCategory(S, "read") : ~Expired(e)}, ReadCap)
    \cup Newest(OfCategory(S, "write"), WriteCap)

NextSequence == IF events = {} THEN 1 ELSE Max({e.sequence : e \in events}) + 1

Previous(c) == {e \in events : e.op = c.op /\ e.phase = PhaseOf(c.request.kind)}

\* record_after_commit: what ActivityStore::record returns, and Failed also
\* when the database is busy for 100 ms, or cannot be opened.
Inserted(c) ==
  LET e == EventOf(c, NextSequence) IN
  /\ Previous(c) = {}
  /\ events' = Prune(events \cup {e})
  /\ recorded' = recorded \cup {e}

Recorded(c, outcome) ==
  CASE outcome = "recorded" -> Inserted(c)
    [] outcome = "duplicate" ->
         /\ \E e \in Previous(c) : e = EventOf(c, e.sequence)
         /\ UNCHANGED <<events, recorded>>
    [] outcome = "failed" -> UNCHANGED <<events, recorded>>

\* Fault: a failed activity fails the receipt.
FailReceipt(c, outcome) ==
  [c EXCEPT !.pc = AfterRecord(c.request), !.activity = outcome,
            !.status = IF outcome = "failed" THEN "failed" ELSE @,
            !.warnings = IF outcome = "failed" THEN {"activity"} ELSE @]

\* Receipt::activity: a failure takes the place of the warnings so far (that
\* of a location too); only a plugin's own event fails its receipt.  The
\* server keeps a failure of a write to its log.
ActivityReceipt(c, outcome) ==
  IF ~Receipted(c.request) THEN [c EXCEPT !.pc = "done"]
  ELSE [c EXCEPT !.pc = "context", !.activity = outcome,
          !.status = IF outcome = "failed" /\ c.request.kind = "sink" THEN "failed" ELSE @,
          !.warnings = IF outcome = "failed" THEN {"activity"} ELSE @]

\* Fault: the server records an empty forget too.
RecordsEmptyForget(c) == c.pending

\* committed::record leaves out a forget that deleted nothing.
RecordsEvent(c) == c.pending /\ c.status # "empty"

Record(p) ==
  /\ calls[p] # NoCall /\ calls[p].pc = "record"
  /\ LET c == calls[p] IN
     IF RecordsEvent(c)
     THEN \E outcome \in {"recorded", "duplicate", "failed"} :
            Recorded(c, outcome) /\ Reply(p, ActivityReceipt(c, outcome))
     ELSE Reply(p, [c EXCEPT !.pc = AfterRecord(c.request)]) /\ UNCHANGED <<events, recorded>>
  /\ UNCHANGED <<storeVars, location, clock, effects, sightings>>

\* load_repository_context, or context::attach: what is known of the
\* repository now, or a warning.
Answer(p) ==
  /\ calls[p] # NoCall /\ calls[p].pc = "context"
  /\ LET next == [calls[p] EXCEPT !.pc = AfterContext(calls[p].request)] IN
     \/ Reply(p, [next EXCEPT !.context = location])
     \/ Reply(p, [next EXCEPT !.warnings = @ \cup {"context"}])
  /\ UNCHANGED <<storeVars, location, events, clock, effects, recorded, sightings>>

\* ActivityStore::prepare, by an administrator.
PrepareActivity ==
  /\ events' = Prune(events)
  /\ UNCHANGED <<storeVars, calls, location, clock, effects, recorded, sightings>>

\* A process dies after its core transaction.
Die(p) ==
  /\ Active(p)
  /\ calls[p].pc \in {"materialize", "observe", "record", "context"}
  /\ Reply(p, [calls[p] EXCEPT !.pc = "dead"])
  /\ UNCHANGED <<storeVars, location, events, clock, effects, recorded, sightings>>

Tick ==
  /\ clock < MaxClock
  /\ clock' = clock + 1
  /\ UNCHANGED <<storeVars, calls, location, events, effects, recorded, sightings>>

-----------------------------------------------------------------------------
\* The calls find a store with one record, at the repository.
ExecutionInit ==
  /\ domains = {} /\ attached = [r \in Repositories |-> {}]
  /\ \E r \in Repositories, text \in Texts :
       memories = [i \in {1} |-> [text |-> text, placement |-> RepositoryAt(r), organized |-> FALSE]]
  /\ provenance = EmptyTable /\ ledger = EmptyTable /\ identities = EmptyTable
  /\ Idle
  /\ location = Never
  /\ events = {} /\ recorded = {}
  /\ clock = 1
  /\ effects = {}
  /\ sightings = {}

ExecutionNext ==
  \/ \E p \in Processes :
       \/ \E q \in Calls : Begin(p, q)
       \/ Prepare(p)
       \/ Core(p)
       \/ Materialize(p)
       \/ Observe(p)
       \/ Record(p)
       \/ Answer(p)
       \/ Die(p)
  \/ PrepareActivity
  \/ Tick

ExecutionSpec == ExecutionInit /\ [][ExecutionNext]_executionVars
-----------------------------------------------------------------------------
Stages == {"prepare", "core", "materialize", "observe", "record", "context", "done", "dead"}
Statuses == {"running", "committed", "replayed", "empty", "failed", "answered"}

Receipts ==
  [pc : Stages, request : Calls, op : OperationIds \cup Processes, started : Nat,
   pending : BOOLEAN, status : Statuses, ids : SUBSET MemoryIds,
   activity : {"not_requested", "recorded", "duplicate", "failed"},
   warnings : SUBSET {"replay", "record", "location", "activity", "context"},
   context : Nat \cup {Never}]

ASSUME NoCallAssumption == NoCall \notin Receipts

(* A receipt, an event and a location are of the form their consumers      *)
(* expect: no more identities than one, times that have been.              *)
ExecutionTypeOK ==
  /\ TypeOK
  /\ location \in {Never} \cup 1..clock
  /\ events \subseteq recorded
  /\ \A e \in events : e.started \in 1..clock /\ e.ids \subseteq MemoryIds
  /\ calls \in [Processes -> Receipts \cup {NoCall}]
  /\ \A p \in Processes : calls[p] # NoCall =>
       Cardinality(calls[p].ids) = IF calls[p].status \in {"committed", "replayed"} THEN 1 ELSE 0

(* The history never tells of a write that did not happen: every write     *)
(* event names an operation that committed, what it did and to which       *)
(* record, although the server prepares its event before the write and     *)
(* another process may commit the same transfer in between; and an         *)
(* operation has one event of a phase, however it was retried.             *)
EventsTruthful ==
  /\ \A e \in OfCategory(events, "write") :
       \E x \in effects : x.op = e.op /\ x.action = e.action /\ e.ids = {x.id}
  /\ \A e, f \in events : e.op = f.op /\ e.phase = f.phase => e = f

(* The history is the newest of what was recorded: an event that is gone   *)
(* was a read past its retention, or older than everything kept of its     *)
(* category while that category was full.  Reads never push out writes,    *)
(* and an event that arrives late may be gone at once.                     *)
KeepsNewest ==
  \A category \in {"read", "write"} :
    LET kept == OfCategory(events, category)
        cap == IF category = "read" THEN ReadCap ELSE WriteCap
    IN  /\ Cardinality(kept) <= cap
        /\ \A e \in OfCategory(recorded, category) \ kept :
             Expired(e) \/ (Cardinality(kept) = cap /\ \A f \in kept : ~Later(e, f))

(* A finished receipt says committed exactly when its call committed,      *)
(* whatever failed after that (reading back, location, activity, context), *)
(* and a replayed one names the record of the operation that did.  Without *)
(* a warning, the context it gives includes its own sighting.              *)
CommittedReported ==
  \A p \in Processes : calls[p] # NoCall /\ calls[p].pc = "done" =>
    LET c == calls[p] IN
    /\ c.status = "committed" <=> \E x \in effects : x.by = p
    /\ c.status \in {"committed", "replayed"} =>
         \E x \in effects : x.op = c.op /\ c.ids = {x.id}
    /\ c.status = "committed" /\ c.request.kind # "forget" /\ c.request.seen /\ c.warnings = {} =>
         c.context # Never /\ c.context >= c.started

(* The stored time of a location is that of the newest sighting, in        *)
(* whatever order clients and their retries deliver them.                  *)
LocationLatest ==
  location = IF sightings = {} THEN Never ELSE Max(sightings)
=============================================================================
