-------------------------- MODULE ExecutionProofs --------------------------
(***************************************************************************)
(* Proofs about what follows a commit: the receipt, the activity history   *)
(* and the location, for every number of processes and every set of calls. *)
(***************************************************************************)
EXTENDS Execution, MemoryStoreProofs, FiniteSetTheorems

-----------------------------------------------------------------------------
(* What a receipt in progress knows.                                       *)

AfterCommit == {"materialize", "observe", "record", "context"}

Seen(c) ==
  c.status = "committed" /\ c.request.kind # "forget" /\ c.request.seen /\ c.warnings = {}

\* Its sighting is stored, and what it read of the location is no older.
CallOK(p, c) ==
  /\ c.op = OperationOf(p, c.request)
  /\ c.pc \in {"prepare", "core"} => c.status = "running"
  /\ c.pc \in AfterCommit /\ c.request.kind \in Writes =>
       c.status \in {"committed", "replayed", "empty"}
  /\ c.request.kind \notin Writes => c.status \in {"running", "answered", "failed"}
  /\ c.status \in {"committed", "replayed"} =>
       \E x \in effects : x.op = c.op /\ x.action = c.request.kind /\ c.ids = {x.id}
  /\ c.status = "committed" <=> \E x \in effects : x.by = p
  /\ Seen(c) /\ c.pc \in {"record", "context", "done"} =>
       location \in Nat /\ location >= c.started
  /\ Seen(c) /\ (c.pc = "done" \/ (c.pc = "record" /\ ~Receipted(c.request))) =>
       c.context \in Nat /\ c.context >= c.started

CallInv(p) ==
  /\ calls[p] = NoCall => \A x \in effects : x.by # p
  /\ calls[p] # NoCall => CallOK(p, calls[p])

\* The ledger tells of effects, with what they did.
LedgerTold ==
  \A op \in DOMAIN ledger :
    \E x \in effects : /\ x.op = op /\ x.action = ledger[op].request.action
                       /\ x.id = ledger[op].result

SightedLatest ==
  /\ sightings \subseteq Nat
  /\ sightings = {} => location = Never
  /\ sightings # {} => location \in sightings /\ \A t \in sightings : location >= t

ExecutionInv ==
  /\ clock \in Nat
  /\ calls \in [Processes -> Receipts \cup {NoCall}]
  /\ \A x \in effects : x.id \in MemoryIds
  /\ LedgerTold
  /\ SightedLatest
  /\ EventsTruthful
  /\ \A p \in Processes : CallInv(p)

LEMMA LocationTime ==
  ASSUME SightedLatest
  PROVE  location \in Nat \cup {Never}
  BY DEF SightedLatest

LEMMA PruneSubset == \A S : Prune(S) \subseteq S
  BY DEF Prune, Newest, OfCategory

LEMMA InitExecutionInv == ExecutionInit => ExecutionInv
  <1> SUFFICES ASSUME ExecutionInit PROVE ExecutionInv
    OBVIOUS
  <1>1. clock \in Nat /\ effects = {} /\ events = {} /\ sightings = {} /\ location = Never
        /\ calls = [p \in Processes |-> NoCall] /\ DOMAIN ledger = {}
    BY DEF ExecutionInit, Idle, EmptyTable
  <1> QED
    BY <1>1 DEF ExecutionInv, LedgerTold, SightedLatest, EventsTruthful, OfCategory, CallInv

-----------------------------------------------------------------------------
(* Steps of one process leave the others' receipts as they are.            *)

LEMMA ReplyCalls ==
  ASSUME ExecutionInv, NEW p \in Processes, NEW c \in Receipts, Reply(p, c)
  PROVE  /\ calls' \in [Processes -> Receipts \cup {NoCall}]
         /\ calls'[p] = c /\ c # NoCall
         /\ \A q \in Processes \ {p} : calls'[q] = calls[q]
  BY NoCallAssumption DEF ExecutionInv, Reply

\* What a step may do to the location and to the effects.
Forwards(p) ==
  /\ \/ location' = location
     \/ location' \in Nat /\ (location \in Nat => location' >= location)
  /\ effects \subseteq effects'
  /\ \A x \in effects' \ effects : x.by = p

LEMMA OthersCalls ==
  ASSUME ExecutionInv, NEW p \in Processes, Forwards(p), NEW q \in Processes \ {p},
         calls'[q] = calls[q]
  PROVE  CallInv(q)'
  <1>1. calls[q] \in Receipts \cup {NoCall} /\ CallInv(q)
    BY DEF ExecutionInv
  <1>2. (\E x \in effects' : x.by = q) <=> (\E x \in effects : x.by = q)
    BY DEF Forwards
  <1>3. CASE calls[q] = NoCall
    BY <1>1, <1>2, <1>3 DEF CallInv
  <1>4. CASE calls[q] # NoCall
    <2> DEFINE c == calls[q]
    <2>1. CallOK(q, c) /\ c.started \in Nat
      BY <1>1, <1>4 DEF CallInv, Receipts
    <2>2. location \in Nat /\ location >= c.started => location' \in Nat /\ location' >= c.started
      BY <2>1 DEF Forwards
    <2>3. c.status \in {"committed", "replayed"} =>
            \E x \in effects' : x.op = c.op /\ x.action = c.request.kind /\ c.ids = {x.id}
      BY <2>1 DEF CallOK, Forwards
    <2> HIDE DEF c
    <2>4. CallOK(q, c)'
      BY <1>2, <2>1, <2>2, <2>3 DEF CallOK, Seen, c
    <2> QED
      BY <1>4, <2>4 DEF CallInv, c
  <1> QED
    BY <1>3, <1>4

\* A step of p with a receipt c, put together.
LEMMA StepOf ==
  ASSUME ExecutionInv, NEW p \in Processes, NEW c \in Receipts, Reply(p, c), Forwards(p),
         CallOK(p, c)', clock' = clock, \A x \in effects' : x.id \in MemoryIds,
         LedgerTold', SightedLatest', EventsTruthful'
  PROVE  ExecutionInv'
  <1>1. /\ calls' \in [Processes -> Receipts \cup {NoCall}]
        /\ calls'[p] = c /\ c # NoCall
        /\ \A q \in Processes \ {p} : calls'[q] = calls[q]
    BY ReplyCalls
  <1>2. CallOK(p, calls[p])'
    BY <1>1
  <1>3. CallInv(p)'
    BY <1>1, <1>2 DEF CallInv
  <1>4. \A q \in Processes \ {p} : CallInv(q)'
    BY <1>1, OthersCalls
  <1> QED
    BY <1>1, <1>3, <1>4 DEF ExecutionInv

\* A step of p that leaves the store, the location and the history alone.
LEMMA QuietStepOf ==
  ASSUME ExecutionInv, NEW p \in Processes, NEW c \in Receipts, Reply(p, c), CallOK(p, c),
         UNCHANGED <<ledger, location, events, clock, effects, sightings>>
  PROVE  ExecutionInv'
  <1>1. Forwards(p)
    BY DEF Forwards
  <1>2. CallOK(p, c)'
    BY DEF CallOK, Seen
  <1>3. LedgerTold' /\ SightedLatest' /\ EventsTruthful'
    BY DEF ExecutionInv, LedgerTold, SightedLatest, EventsTruthful, OfCategory
  <1> QED
    BY <1>1, <1>2, <1>3, StepOf DEF ExecutionInv

LEMMA CallTyped ==
  ASSUME ExecutionInv, NEW p \in Processes, calls[p] # NoCall
  PROVE  /\ calls[p] \in Receipts /\ CallOK(p, calls[p])
         /\ calls[p].request \in Calls /\ calls[p].started \in Nat
  BY DEF ExecutionInv, CallInv, Receipts

LEMMA BeginInv ==
  ASSUME ExecutionInv, NEW p \in Processes, NEW q \in Calls, Begin(p, q)
  PROVE  ExecutionInv'
  <1>1. /\ calls[p] = NoCall /\ Reply(p, Start(p, q))
        /\ UNCHANGED <<ledger, location, events, clock, effects, sightings>>
    BY DEF Begin, Reply, storeVars
  <1>2. OperationOf(p, q) \in OperationIds \cup Processes
    <2>1. q.kind \in Transfers => TransferRequest(q) \in Requests
      BY CallsAssumption DEF TransferRequest, Requests, Transfers
    <2>2. q.key \in Keys \cup {NoKey} /\ (q.kind = "sink" => q.key \in Keys)
      BY CallsAssumption
    <2> QED
      BY <2>1, <2>2 DEF OperationOf, OperationIds, DerivedId
  <1>3. Start(p, q) \in Receipts
    BY <1>2 DEF Start, Receipts, Stages, Statuses, ExecutionInv
  <1>4. CallOK(p, Start(p, q))
    <2>1. \A x \in effects : x.by # p
      BY <1>1 DEF ExecutionInv, CallInv
    <2>2. /\ Start(p, q).pc \in {"prepare", "core"} /\ Start(p, q).status = "running"
          /\ Start(p, q).op = OperationOf(p, Start(p, q).request)
      BY DEF Start
    <2> QED
      BY <2>1, <2>2 DEF CallOK, Seen, AfterCommit
  <1> QED
    BY <1>1, <1>3, <1>4, QuietStepOf

LEMMA PrepareInv ==
  ASSUME ExecutionInv, NEW p \in Processes, Prepare(p)
  PROVE  ExecutionInv'
  <1> DEFINE c == calls[p]
             d == [c EXCEPT !.pc = "core",
                     !.pending = c.request.kind \in Transfers => c.op \notin DOMAIN ledger]
  <1>1. c \in Receipts /\ CallOK(p, c) /\ c.pc = "prepare"
    BY CallTyped DEF Prepare
  <1>2. /\ d \in Receipts /\ d.pc = "core" /\ d.status = c.status /\ d.op = c.op
        /\ d.request = c.request /\ d.ids = c.ids /\ d.warnings = c.warnings
    BY <1>1 DEF Receipts, Stages
  <1>3. Reply(p, d) /\ UNCHANGED <<ledger, location, events, clock, effects, sightings>>
    BY DEF Prepare, storeVars
  <1> HIDE DEF d
  <1>4. CallOK(p, d)
    BY <1>1, <1>2 DEF CallOK, Seen, AfterCommit
  <1> QED
    BY <1>2, <1>3, <1>4, QuietStepOf

-----------------------------------------------------------------------------
(* The core transaction.                                                   *)

\* A commit adds one effect, told by the receipt.
LEMMA CommittingInv ==
  ASSUME ExecutionInv, NEW p \in Processes, calls[p] # NoCall, calls[p].pc = "core",
         calls[p].request.kind \in Writes, NEW id \in MemoryIds,
         Committing(p, calls[p], {id}),
         \A op \in DOMAIN ledger' \ DOMAIN ledger :
           /\ op = calls[p].op /\ ledger'[op].request.action = calls[p].request.kind
           /\ ledger'[op].result = id,
         \A op \in DOMAIN ledger : ledger'[op] = ledger[op]
  PROVE  ExecutionInv'
  <1> DEFINE c == calls[p]
             x == [by |-> p, op |-> c.op, action |-> c.request.kind, id |-> id]
  <1>1. c \in Receipts /\ CallOK(p, c)
    BY CallTyped
  <1>2. AfterCore(c.request) \in AfterCommit
    BY DEF AfterCore, AfterObserve, AfterCommit
  <1>3. PICK d \in Receipts :
          d = [c EXCEPT !.pc = AfterCore(c.request), !.status = "committed", !.ids = {id}]
    BY <1>1, <1>2 DEF Receipts, Stages, Statuses, AfterCommit
  <1>3a. /\ d.pc = AfterCore(c.request) /\ d.status = "committed"
         /\ d.ids = {id} /\ d.op = c.op /\ d.request = c.request
    BY <1>1, <1>3 DEF Receipts
  <1>4. Reply(p, d) /\ UNCHANGED <<location, events, clock, sightings>>
    BY <1>3 DEF Committing
  <1>5. effects' = effects \cup {x}
    BY DEF Committing
  <1>6. x.by = p /\ x.op = c.op /\ x.action = c.request.kind /\ x.id = id
    OBVIOUS
  <1> HIDE DEF x
  <1>7. Forwards(p)
    BY <1>4, <1>5, <1>6 DEF Forwards
  <1>8. CallOK(p, d)'
    <2>1. d.pc \in AfterCommit /\ d.request.kind \in Writes
      BY <1>2, <1>3a
    <2>2. Seen(d) => d.pc \in {"materialize", "observe"}
      BY <1>3a DEF Seen, AfterCore
    <2>3. \E y \in effects' : y.op = d.op /\ y.action = d.request.kind /\ d.ids = {y.id}
      BY <1>3a, <1>5, <1>6
    <2>4. \E y \in effects' : y.by = p
      BY <1>5, <1>6
    <2>5. d.op = OperationOf(p, d.request)
      BY <1>1, <1>3a DEF CallOK
    <2> QED
      BY <1>3a, <2>1, <2>2, <2>3, <2>4, <2>5 DEF CallOK, Seen, AfterCommit
  <1>9. LedgerTold'
    BY <1>5, <1>6 DEF ExecutionInv, LedgerTold
  <1>10. SightedLatest' /\ EventsTruthful'
    BY <1>4, <1>5 DEF ExecutionInv, SightedLatest, EventsTruthful, OfCategory
  <1>11. \A y \in effects' : y.id \in MemoryIds
    BY <1>5, <1>6 DEF ExecutionInv
  <1> QED
    BY <1>4, <1>7, <1>8, <1>9, <1>10, <1>11, StepOf

\* A statement that changed nothing.
LEMMA EndingInv ==
  ASSUME ExecutionInv, NEW p \in Processes, calls[p] # NoCall, calls[p].pc = "core",
         NEW status \in {"empty", "failed", "answered"}, NEW pc \in {"done", "context", "record"},
         Ending(p, calls[p], status, pc),
         status = "failed" => pc = "done",
         status = "empty" => calls[p].request.kind \in Writes,
         status = "answered" => calls[p].request.kind \notin Writes
  PROVE  ExecutionInv'
  <1> DEFINE c == calls[p]
             d == [c EXCEPT !.pc = pc, !.status = status]
  <1>1. c \in Receipts /\ CallOK(p, c) /\ c.pc = "core"
    BY CallTyped
  <1>2. /\ d \in Receipts /\ d.pc = pc /\ d.status = status /\ d.op = c.op
        /\ d.request = c.request
    BY <1>1 DEF Receipts, Stages, Statuses
  <1>3. Reply(p, d) /\ UNCHANGED <<ledger, location, events, clock, effects, sightings>>
    BY DEF Ending, storeVars
  <1> HIDE DEF d
  <1>4. CallOK(p, d)
    BY <1>1, <1>2 DEF CallOK, Seen, AfterCommit
  <1> QED
    BY <1>2, <1>3, <1>4, QuietStepOf

LEMMA SavesInv ==
  ASSUME ExecutionInv, NEW p \in Processes, calls[p] # NoCall, calls[p].pc = "core",
         Saves(p, calls[p])
  PROVE  ExecutionInv'
  <1> DEFINE c == calls[p]
  <1>1. PICK id \in MemoryIds :
          /\ Fresh(id)
          /\ memories' = Put(memories, id,
               [text |-> c.request.text, placement |-> c.request.to, organized |-> FALSE])
    BY DEF Saves, Remember, InsertMemory
  <1>2. Live' \ Live = {id}
    BY <1>1 DEF Put, Fresh, Live
  <1>3. Committing(p, c, {id}) /\ c.request.kind \in Writes
    BY <1>2 DEF Saves, Writes
  <1>4. ledger' = ledger
    BY DEF Saves, Remember
  <1> QED
    BY <1>3, <1>4, CommittingInv

LEMMA OverwritesInv ==
  ASSUME ExecutionInv, NEW p \in Processes, calls[p] # NoCall, calls[p].pc = "core",
         Overwrites(p, calls[p])
  PROVE  ExecutionInv'
  <1> DEFINE c == calls[p]
  <1>1. c.request.id \in MemoryIds /\ c.request.kind \in Writes
    BY CallTyped, CallsAssumption DEF Overwrites, Writes
  <1>2. CASE AtPlacement(c.request.id, c.request.to)
    <2>1. Committing(p, c, {c.request.id}) /\ ledger' = ledger
      BY <1>2 DEF Overwrites, Overwrite
    <2> QED
      BY <1>1, <2>1, CommittingInv
  <1>3. CASE ~AtPlacement(c.request.id, c.request.to)
    BY <1>3, EndingInv DEF Overwrites
  <1> QED
    BY <1>2, <1>3

LEMMA ForgetsInv ==
  ASSUME ExecutionInv, NEW p \in Processes, calls[p] # NoCall, calls[p].pc = "core",
         Forgets(p, calls[p])
  PROVE  ExecutionInv'
  <1> DEFINE c == calls[p]
  <1>1. c.request.id \in MemoryIds /\ c.request.kind \in Writes
    BY CallTyped, CallsAssumption DEF Forgets, Writes
  <1>2. CASE AtPlacement(c.request.id, c.request.from)
    <2>1. Committing(p, c, {c.request.id}) /\ ledger' = ledger
      BY <1>2 DEF Forgets, ForgetAt
    <2> QED
      BY <1>1, <2>1, CommittingInv
  <1>3. CASE ~AtPlacement(c.request.id, c.request.from)
    BY <1>1, <1>3, EndingInv DEF Forgets
  <1> QED
    BY <1>2, <1>3

LEMMA TransferringInv ==
  ASSUME ExecutionInv, NEW p \in Processes, calls[p] # NoCall, calls[p].pc = "core",
         Transferring(p, calls[p])
  PROVE  ExecutionInv'
  <1> DEFINE c == calls[p]
             q == TransferRequest(c.request)
  <1>1. PICK id \in MemoryIds : ledger' = Put(ledger, c.op, [request |-> q, result |-> id])
    BY DEF Transferring, CopyMove
  <1>2. c.op \notin DOMAIN ledger
    BY DEF Transferring, CopyMove, NotCommitted
  <1>3. q.action = c.request.kind
    BY DEF TransferRequest
  <1> HIDE DEF q
  <1>4. /\ ledger'[c.op].result = id /\ ledger'[c.op].request = q
        /\ DOMAIN ledger' \ DOMAIN ledger = {c.op}
        /\ \A op \in DOMAIN ledger : ledger'[op] = ledger[op]
    BY <1>1, <1>2 DEF Put
  <1>5. Committing(p, c, {id}) /\ c.request.kind \in Writes
    BY <1>4 DEF Transferring, Writes
  <1> QED
    BY <1>3, <1>4, <1>5, CommittingInv

LEMMA ReplaysInv ==
  ASSUME ExecutionInv, NEW p \in Processes, calls[p] # NoCall, calls[p].pc = "core",
         Replays(p, calls[p])
  PROVE  ExecutionInv'
  <1> DEFINE c == calls[p]
             result == ledger[c.op].result
             pc == IF c.request.route = "local" THEN "materialize" ELSE "context"
             d == [c EXCEPT !.pc = pc, !.status = "replayed", !.ids = {result}]
  <1>1. c \in Receipts /\ CallOK(p, c) /\ c.pc = "core" /\ c.request.kind \in Writes
    BY CallTyped DEF Replays, Writes
  <1>2. PICK x \in effects : x.op = c.op /\ x.action = c.request.kind /\ x.id = result
    BY DEF Replays, ExecutionInv, LedgerTold, TransferRequest
  <1>3. result \in MemoryIds /\ pc \in {"materialize", "context"}
    BY <1>2 DEF ExecutionInv
  <1>4. Reply(p, d) /\ UNCHANGED <<ledger, location, events, clock, effects, sightings>>
    BY DEF Replays, storeVars
  <1> HIDE DEF pc, result
  <1>5. /\ d \in Receipts /\ d.pc = pc /\ d.status = "replayed" /\ d.op = c.op
        /\ d.request = c.request /\ d.ids = {result}
    BY <1>1, <1>3 DEF Receipts, Stages, Statuses
  <1> HIDE DEF d
  <1>6. CallOK(p, d)
    BY <1>1, <1>2, <1>3, <1>5 DEF CallOK, Seen, AfterCommit
  <1> QED
    BY <1>4, <1>5, <1>6, QuietStepOf

LEMMA CoreInv ==
  ASSUME ExecutionInv, NEW p \in Processes, Core(p)
  PROVE  ExecutionInv'
  <1> DEFINE c == calls[p]
  <1>1. c # NoCall /\ c.pc = "core"
    BY DEF Core
  <1>2. CASE Ending(p, c, "failed", "done")
    BY <1>1, <1>2, EndingInv
  <1>3. CASE Refuses(p, c)
    BY <1>1, <1>3, <1>2 DEF Refuses
  <1>4. CASE Reads(p, c)
    BY <1>1, <1>4, EndingInv DEF Reads, Writes, Transfers
  <1> QED
    BY <1>1, <1>2, <1>3, <1>4, SavesInv, OverwritesInv, ForgetsInv, TransferringInv,
       ReplaysInv DEF Core

-----------------------------------------------------------------------------
(* After the commit.                                                       *)

LEMMA MaterializeInv ==
  ASSUME ExecutionInv, NEW p \in Processes, Materialize(p)
  PROVE  ExecutionInv'
  <1> DEFINE c == calls[p]
  <1>1. c \in Receipts /\ CallOK(p, c) /\ c.pc = "materialize"
    BY CallTyped DEF Materialize
  <1>2. PICK pc \in {"context", "observe"},
             warnings \in SUBSET {"replay", "record"} :
          /\ Reply(p, [c EXCEPT !.pc = pc, !.warnings = warnings])
          /\ pc = "context" => c.status = "replayed"
    <2>1. CASE c.status = "replayed"
      <3>1. Reply(p, [c EXCEPT !.pc = "context", !.warnings = {"replay"}])
        BY <2>1 DEF Materialize
      <3> QED
        BY <2>1, <3>1
    <2>2. CASE c.status # "replayed"
      <3>1. PICK unreadable \in BOOLEAN :
              Reply(p, [c EXCEPT !.pc = "observe",
                !.warnings = IF unreadable \/ c.ids \cap Live = {} THEN {"record"} ELSE {}])
        BY <2>2 DEF Materialize
      <3> DEFINE warnings == IF unreadable \/ c.ids \cap Live = {} THEN {"record"} ELSE {}
      <3>2. warnings \in SUBSET {"replay", "record"}
        OBVIOUS
      <3>3. Reply(p, [c EXCEPT !.pc = "observe", !.warnings = warnings])
        BY <3>1
      <3> HIDE DEF warnings
      <3> QED
        BY <3>2, <3>3
    <2> QED
      BY <2>1, <2>2
  <1> DEFINE d == [c EXCEPT !.pc = pc, !.warnings = warnings]
  <1>3. /\ d \in Receipts /\ d.pc = pc /\ d.status = c.status /\ d.op = c.op
        /\ d.request = c.request /\ d.ids = c.ids
    BY <1>1 DEF Receipts, Stages
  <1>4. Reply(p, d) /\ UNCHANGED <<ledger, location, events, clock, effects, sightings>>
    BY <1>2 DEF Materialize, storeVars
  <1> HIDE DEF d
  <1>5. CallOK(p, d)
    BY <1>1, <1>2, <1>3 DEF CallOK, Seen, AfterCommit
  <1> QED
    BY <1>3, <1>4, <1>5, QuietStepOf

LEMMA SightedForward ==
  ASSUME SightedLatest, NEW at \in Nat
  PROVE  /\ Sighted(at) \in Nat /\ Sighted(at) >= at
         /\ location \in Nat => Sighted(at) >= location
         /\ Sighted(at) \in {location, at}
         /\ location = Never => Sighted(at) = at
  BY LocationTime, ClockAssumption DEF Sighted

LEMMA ObserveInv ==
  ASSUME ExecutionInv, NEW p \in Processes, Observe(p)
  PROVE  ExecutionInv'
  <1> DEFINE c == calls[p]
             pc == AfterObserve(c.request)
  <1>1. c \in Receipts /\ CallOK(p, c) /\ c.pc = "observe" /\ c.started \in Nat
    BY CallTyped DEF Observe
  <1>2. pc \in AfterCommit /\ (pc = "record" => Receipted(c.request)) /\ pc \in {"record", "context"}
    BY DEF AfterObserve, AfterCommit
  <1>3. UNCHANGED <<ledger, events, clock, effects>>
    BY DEF Observe, storeVars
  <1>4. CASE ObservedAt(p)
    <2>1. PICK d \in Receipts : d = [c EXCEPT !.pc = pc]
      BY <1>1, <1>2 DEF Receipts, Stages
    <2>2. /\ d.pc = pc /\ d.status = c.status /\ d.op = c.op /\ d.warnings = c.warnings
          /\ d.request = c.request /\ d.ids = c.ids /\ d.started = c.started
      BY <1>1, <2>1 DEF Receipts
    <2>3. /\ Reply(p, d) /\ location' = Sighted(c.started)
          /\ sightings' = sightings \cup {c.started}
      BY <1>4, <2>1 DEF ObservedAt
    <2>4. SightedLatest
      BY DEF ExecutionInv
    <2>5. /\ location' \in Nat /\ location' >= c.started
          /\ location \in Nat => location' >= location
          /\ location' \in {location, c.started}
          /\ location = Never => location' = c.started
      BY <1>1, <2>3, <2>4, SightedForward
    <2>6. Forwards(p)
      BY <1>3, <2>5 DEF Forwards
    <2>7. SightedLatest'
      <3>1. CASE sightings = {}
        BY <1>1, <2>3, <2>4, <2>5, <3>1 DEF SightedLatest
      <3>2. CASE sightings # {}
        <4>1. location \in sightings /\ sightings \subseteq Nat /\ \A t \in sightings : location >= t
          BY <2>4, <3>2 DEF SightedLatest
        <4>2. location' \in sightings' /\ sightings' \subseteq Nat /\ sightings' # {}
          BY <1>1, <2>3, <2>5, <4>1
        <4>3. \A t \in sightings : location' >= t
          BY <2>5, <4>1
        <4> QED
          BY <2>3, <2>5, <4>2, <4>3 DEF SightedLatest
      <3> QED
        BY <3>1, <3>2
    <2>8. CallOK(p, d)'
      <3>1. d.pc = "record" => Receipted(d.request)
        BY <1>2, <2>2
      <3> QED
        BY <1>1, <1>2, <1>3, <2>2, <2>5, <3>1 DEF CallOK, Seen, AfterCommit
    <2>9. LedgerTold' /\ EventsTruthful'
      BY <1>3 DEF ExecutionInv, LedgerTold, EventsTruthful, OfCategory
    <2> QED
      BY <1>3, <2>3, <2>6, <2>7, <2>8, <2>9, StepOf DEF ExecutionInv
  <1>5. CASE \E warnings \in SUBSET {"location"} :
               /\ Unobserved(p, warnings)
               /\ c.request.seen => warnings # {}
    <2>1. PICK warnings \in SUBSET {"location"} :
            Unobserved(p, warnings) /\ (c.request.seen => warnings # {})
      BY <1>5
    <2> DEFINE d == [c EXCEPT !.pc = pc, !.warnings = @ \cup warnings]
    <2>2. /\ d \in Receipts /\ d.pc = pc /\ d.status = c.status /\ d.op = c.op
          /\ d.warnings = c.warnings \cup warnings
          /\ d.request = c.request /\ d.ids = c.ids
      BY <1>1, <1>2 DEF Receipts, Stages
    <2>3. Reply(p, d) /\ UNCHANGED <<location, sightings>>
      BY <2>1 DEF Unobserved
    <2> HIDE DEF d, pc
    <2>4. CallOK(p, d)
      <3>1. ~Seen(d)
        BY <2>1, <2>2 DEF Seen
      <3> QED
        BY <1>1, <1>2, <2>2, <3>1 DEF CallOK, AfterCommit
    <2> QED
      BY <1>3, <2>2, <2>3, <2>4, QuietStepOf
  <1> QED
    BY <1>4, <1>5 DEF Observe

-----------------------------------------------------------------------------
(* The activity history.                                                   *)

LEMMA RecordedEvents ==
  ASSUME ExecutionInv, NEW p \in Processes, calls[p] # NoCall, calls[p].pc = "record",
         RecordsEvent(calls[p]),
         NEW outcome \in {"recorded", "duplicate", "failed"}, Recorded(calls[p], outcome),
         UNCHANGED effects
  PROVE  EventsTruthful'
  <1> DEFINE c == calls[p]
             e == EventOf(c, NextSequence)
  <1>1. c \in Receipts /\ CallOK(p, c)
    BY CallTyped
  <1>2. CASE events' = events
    BY <1>2 DEF ExecutionInv, EventsTruthful, OfCategory
  <1>3. CASE Inserted(c)
    <2>1. events' \subseteq events \cup {e}
      BY <1>3, PruneSubset DEF Inserted
    <2>2. /\ e.op = c.op /\ e.phase = PhaseOf(c.request.kind) /\ e.ids = c.ids
          /\ e.action = c.request.kind /\ e.category = CategoryOf(c.request.kind)
      BY DEF EventOf
    <2>3. \A f \in events : ~(f.op = c.op /\ f.phase = PhaseOf(c.request.kind))
      BY <1>3 DEF Inserted, Previous
    <2>4. e.category = "write" =>
            \E x \in effects : x.op = e.op /\ x.action = e.action /\ e.ids = {x.id}
      <3>1. e.category = "write" => c.request.kind \in Writes
        BY <2>2 DEF CategoryOf
      <3>2. c.request.kind \in Writes => c.status \in {"committed", "replayed"}
        BY <1>1 DEF CallOK, AfterCommit, RecordsEvent
      <3> QED
        BY <1>1, <2>2, <3>1, <3>2 DEF CallOK
    <2> HIDE DEF e
    <2>5. \A f \in OfCategory(events, "write") :
            \E x \in effects : x.op = f.op /\ x.action = f.action /\ f.ids = {x.id}
      BY DEF ExecutionInv, EventsTruthful
    <2>6. \A f \in events' : f = e \/ f \in events
      BY <2>1
    <2>7. \A f \in OfCategory(events', "write") :
            \E x \in effects' : x.op = f.op /\ x.action = f.action /\ f.ids = {x.id}
      BY <2>4, <2>5, <2>6 DEF OfCategory
    <2>8. \A f, g \in events' : f.op = g.op /\ f.phase = g.phase => f = g
      BY <2>2, <2>3, <2>6 DEF ExecutionInv, EventsTruthful
    <2> QED
      BY <2>7, <2>8 DEF EventsTruthful, OfCategory
  <1> QED
    BY <1>2, <1>3 DEF Recorded

LEMMA RecordInv ==
  ASSUME ExecutionInv, NEW p \in Processes, Record(p)
  PROVE  ExecutionInv'
  <1> DEFINE c == calls[p]
  <1>1. c \in Receipts /\ CallOK(p, c) /\ c.pc = "record" /\ c # NoCall
    BY CallTyped DEF Record
  <1>2. UNCHANGED <<ledger, location, clock, effects, sightings>>
    BY DEF Record, storeVars
  <1>3. Forwards(p) /\ LedgerTold' /\ SightedLatest' /\ \A x \in effects' : x.id \in MemoryIds
    BY <1>2 DEF Forwards, ExecutionInv, LedgerTold, SightedLatest
  <1>4. CASE RecordsEvent(c)
    <2>1. PICK outcome \in {"recorded", "duplicate", "failed"} :
            Recorded(c, outcome) /\ Reply(p, ActivityReceipt(c, outcome))
      BY <1>4 DEF Record
    <2>2. EventsTruthful'
      BY <1>1, <1>2, <1>4, <2>1, RecordedEvents
    <2>3. CASE ~Receipted(c.request)
      <3>1. PICK d \in Receipts : d = [c EXCEPT !.pc = "done"]
        BY <1>1 DEF Receipts, Stages
      <3>2. /\ d.pc = "done" /\ d.status = c.status /\ d.op = c.op /\ d.warnings = c.warnings
            /\ d.request = c.request /\ d.ids = c.ids /\ d.started = c.started
            /\ d.context = c.context
        BY <1>1, <3>1 DEF Receipts
      <3>3. Reply(p, d)
        BY <2>1, <2>3, <3>1 DEF ActivityReceipt
      <3>4. CallOK(p, d)'
        BY <1>1, <1>2, <2>3, <3>2 DEF CallOK, Seen, AfterCommit
      <3> QED
        BY <1>2, <1>3, <2>2, <3>3, <3>4, StepOf
    <2>4. CASE Receipted(c.request)
      <3> DEFINE status == IF outcome = "failed" /\ c.request.kind = "sink"
                           THEN "failed" ELSE c.status
                 warnings == IF outcome = "failed" THEN {"activity"} ELSE c.warnings
      <3>0. status \in Statuses /\ warnings \in SUBSET {"replay", "record", "location", "activity", "context"}
        BY <1>1 DEF Receipts, Statuses
      <3>0a. /\ status = IF outcome = "failed" /\ c.request.kind = "sink" THEN "failed" ELSE c.status
             /\ warnings = IF outcome = "failed" THEN {"activity"} ELSE c.warnings
        OBVIOUS
      <3> HIDE DEF status, warnings
      <3>1. PICK d \in Receipts :
              d = [c EXCEPT !.pc = "context", !.activity = outcome, !.status = status,
                            !.warnings = warnings]
        BY <1>1, <3>0 DEF Receipts, Stages
      <3>2. /\ d.pc = "context" /\ d.status = status /\ d.op = c.op /\ d.warnings = warnings
            /\ d.request = c.request /\ d.ids = c.ids /\ d.started = c.started
        BY <1>1, <3>1 DEF Receipts
      <3>3. Reply(p, d)
        BY <2>1, <2>4, <3>0a, <3>1 DEF ActivityReceipt
      <3>4. "sink" \notin Writes
        BY DEF Writes, Transfers
      <3>5. CallOK(p, d)'
        BY <1>1, <1>2, <3>0a, <3>2, <3>4 DEF CallOK, Seen, AfterCommit
      <3> QED
        BY <1>2, <1>3, <2>2, <3>3, <3>5, StepOf
    <2> QED
      BY <2>3, <2>4
  <1>5. CASE ~RecordsEvent(c)
    <2> DEFINE d == [c EXCEPT !.pc = AfterRecord(c.request)]
    <2>1. AfterRecord(c.request) = IF Receipted(c.request) THEN "context" ELSE "done"
      BY DEF AfterRecord
    <2>2. /\ d \in Receipts /\ d.pc = AfterRecord(c.request) /\ d.status = c.status
          /\ d.op = c.op /\ d.warnings = c.warnings /\ d.request = c.request
          /\ d.ids = c.ids /\ d.started = c.started /\ d.context = c.context
      BY <1>1, <2>1 DEF Receipts, Stages
    <2>3. Reply(p, d) /\ events' = events
      BY <1>5 DEF Record
    <2> HIDE DEF d
    <2>4. CallOK(p, d)
      BY <1>1, <2>1, <2>2 DEF CallOK, Seen, AfterCommit
    <2> QED
      BY <1>2, <2>2, <2>3, <2>4, QuietStepOf
  <1> QED
    BY <1>4, <1>5

LEMMA AnswerInv ==
  ASSUME ExecutionInv, NEW p \in Processes, Answer(p)
  PROVE  ExecutionInv'
  <1> DEFINE c == calls[p]
             pc == AfterContext(c.request)
  <1>1. c \in Receipts /\ CallOK(p, c) /\ c.pc = "context"
    BY CallTyped DEF Answer
  <1>2. UNCHANGED <<ledger, location, events, clock, effects, sightings>>
    BY DEF Answer, storeVars
  <1>3. pc \in {"done", "record"}
    BY DEF AfterContext
  <1>4. location \in Nat \cup {Never}
    BY LocationTime DEF ExecutionInv
  <1>5. CASE Reply(p, [c EXCEPT !.pc = pc, !.context = location])
    <2> DEFINE d == [c EXCEPT !.pc = pc, !.context = location]
    <2>1. /\ d \in Receipts /\ d.pc = pc /\ d.status = c.status /\ d.op = c.op
          /\ d.warnings = c.warnings /\ d.request = c.request /\ d.ids = c.ids
          /\ d.started = c.started /\ d.context = location
      BY <1>1, <1>3, <1>4 DEF Receipts, Stages
    <2> HIDE DEF d, pc
    <2>2. CallOK(p, d)
      BY <1>1, <1>3, <2>1 DEF CallOK, Seen, AfterCommit
    <2> QED
      BY <1>2, <1>5, <2>1, <2>2, QuietStepOf DEF d, pc
  <1>6. CASE Reply(p, [c EXCEPT !.pc = pc, !.warnings = @ \cup {"context"}])
    <2> DEFINE d == [c EXCEPT !.pc = pc, !.warnings = @ \cup {"context"}]
    <2>1. /\ d \in Receipts /\ d.pc = pc /\ d.status = c.status /\ d.op = c.op
          /\ d.warnings = c.warnings \cup {"context"} /\ d.request = c.request
          /\ d.ids = c.ids
      BY <1>1, <1>3 DEF Receipts, Stages
    <2> HIDE DEF d, pc
    <2>2. CallOK(p, d)
      <3>1. ~Seen(d)
        BY <2>1 DEF Seen
      <3> QED
        BY <1>1, <1>3, <2>1, <3>1 DEF CallOK, AfterCommit
    <2> QED
      BY <1>2, <1>6, <2>1, <2>2, QuietStepOf DEF d, pc
  <1>7. \/ Reply(p, [c EXCEPT !.pc = pc, !.context = location])
        \/ Reply(p, [c EXCEPT !.pc = pc, !.warnings = @ \cup {"context"}])
    <2> DEFINE next == [c EXCEPT !.pc = pc]
    <2>1. \/ Reply(p, [next EXCEPT !.context = location])
          \/ Reply(p, [next EXCEPT !.warnings = @ \cup {"context"}])
      BY DEF Answer
    <2>2. /\ [next EXCEPT !.context = location] = [c EXCEPT !.pc = pc, !.context = location]
          /\ [next EXCEPT !.warnings = @ \cup {"context"}]
               = [c EXCEPT !.pc = pc, !.warnings = @ \cup {"context"}]
      BY <1>1 DEF Receipts
    <2> QED
      BY <2>1, <2>2
  <1> QED
    BY <1>5, <1>6, <1>7

LEMMA DieInv ==
  ASSUME ExecutionInv, NEW p \in Processes, Die(p)
  PROVE  ExecutionInv'
  <1> DEFINE c == calls[p]
             d == [c EXCEPT !.pc = "dead"]
  <1>1. c \in Receipts /\ CallOK(p, c)
    BY CallTyped DEF Die, Active
  <1>2. /\ d \in Receipts /\ d.pc = "dead" /\ d.status = c.status /\ d.op = c.op
        /\ d.request = c.request /\ d.ids = c.ids
    BY <1>1 DEF Receipts, Stages
  <1>3. Reply(p, d) /\ UNCHANGED <<ledger, location, events, clock, effects, sightings>>
    BY DEF Die, storeVars
  <1> HIDE DEF d
  <1>4. CallOK(p, d)
    BY <1>1, <1>2 DEF CallOK, AfterCommit
  <1> QED
    BY <1>2, <1>3, <1>4, QuietStepOf

\* A step of no process.
LEMMA AsideInv ==
  ASSUME ExecutionInv, UNCHANGED <<calls, ledger, location, effects, sightings>>,
         clock' \in Nat, events' \subseteq events
  PROVE  ExecutionInv'
  <1>1. LedgerTold' /\ SightedLatest'
    BY DEF ExecutionInv, LedgerTold, SightedLatest
  <1>2. EventsTruthful'
    BY DEF ExecutionInv, EventsTruthful, OfCategory
  <1>3. \A p \in Processes : CallInv(p)'
    BY DEF ExecutionInv, CallInv, CallOK, Seen
  <1> QED
    BY <1>1, <1>2, <1>3 DEF ExecutionInv

LEMMA StepExecutionInv == ExecutionInv /\ [ExecutionNext]_executionVars => ExecutionInv'
  <1> SUFFICES ASSUME ExecutionInv, [ExecutionNext]_executionVars PROVE ExecutionInv'
    OBVIOUS
  <1>1. ASSUME NEW p \in Processes,
               \/ \E q \in Calls : Begin(p, q)
               \/ Prepare(p) \/ Core(p) \/ Materialize(p) \/ Observe(p)
               \/ Record(p) \/ Answer(p) \/ Die(p)
        PROVE  ExecutionInv'
    BY <1>1, BeginInv, PrepareInv, CoreInv, MaterializeInv, ObserveInv, RecordInv, AnswerInv, DieInv
  <1>2. CASE PrepareActivity
    BY <1>2, AsideInv, PruneSubset DEF PrepareActivity, storeVars, ExecutionInv
  <1>3. CASE Tick
    BY <1>3, AsideInv DEF Tick, storeVars, ExecutionInv
  <1>4. CASE UNCHANGED executionVars
    BY <1>4, AsideInv DEF executionVars, storeVars, ExecutionInv
  <1> QED
    BY <1>1, <1>2, <1>3, <1>4 DEF ExecutionNext

(* What the invariant of execution says in every reachable state.          *)
THEOREM ExecutionInvariant == ExecutionSpec => []ExecutionInv
  BY InitExecutionInv, StepExecutionInv, PTL DEF ExecutionSpec

(* Every write event tells of a committed effect, and an operation has one *)
(* event of a phase: src/activity/store.rs and src/server/committed.rs,    *)
(* for every interleaving of processes, replays and deaths.                *)
THEOREM ExecutionEventsTruthful == ExecutionSpec => []EventsTruthful
  <1>1. ExecutionInv => EventsTruthful
    BY DEF ExecutionInv
  <1> QED
    BY <1>1, ExecutionInvariant, PTL

(* A finished receipt says what committed, whatever failed afterwards:     *)
(* src/operation/execution.rs and src/server/routes.rs.                    *)
THEOREM ExecutionCommittedReported == ExecutionSpec => []CommittedReported
  <1>1. ASSUME ExecutionInv PROVE CommittedReported
    <2> SUFFICES ASSUME NEW p \in Processes, calls[p] # NoCall, calls[p].pc = "done"
                 PROVE  /\ calls[p].status = "committed" <=> \E x \in effects : x.by = p
                        /\ calls[p].status \in {"committed", "replayed"} =>
                             \E x \in effects : x.op = calls[p].op /\ calls[p].ids = {x.id}
                        /\ Seen(calls[p]) =>
                             calls[p].context # Never /\ calls[p].context >= calls[p].started
      BY DEF CommittedReported, Seen
    <2>1. CallOK(p, calls[p])
      BY <1>1, CallTyped
    <2> QED
      BY <2>1, ClockAssumption DEF CallOK
  <1> QED
    BY <1>1, ExecutionInvariant, PTL

(* The stored time of a location is that of its newest sighting, in        *)
(* whatever order the observations of src/repository.rs arrive.            *)
THEOREM ExecutionLocationLatest == ExecutionSpec => []LocationLatest
  <1>1. ASSUME ExecutionInv PROVE LocationLatest
    <2>1. CASE sightings = {}
      BY <1>1, <2>1 DEF ExecutionInv, SightedLatest, LocationLatest
    <2>2. CASE sightings # {}
      <3>1. sightings \subseteq Nat /\ location \in sightings /\ \A t \in sightings : location >= t
        BY <1>1, <2>2 DEF ExecutionInv, SightedLatest
      <3>2. \A x \in sightings : (\A t \in sightings : x >= t) => x = location
        BY <3>1
      <3>3. Max(sightings) = location
        BY <3>1, <3>2 DEF Max
      <3> QED
        BY <2>2, <3>3 DEF LocationLatest
    <2> QED
      BY <2>1, <2>2
  <1> QED
    BY <1>1, ExecutionInvariant, PTL

-----------------------------------------------------------------------------
(* The calls change the tables of the store only as MemoryStore does.      *)

LEMMA InitStore == ExecutionInit => StoreInv
  <1> SUFFICES ASSUME ExecutionInit PROVE StoreInv
    OBVIOUS
  <1>1. PICK r \in Repositories, text \in Texts :
          memories = [i \in {1} |-> [text |-> text, placement |-> RepositoryAt(r), organized |-> FALSE]]
    BY DEF ExecutionInit
  <1>2. /\ domains = {} /\ attached = [s \in Repositories |-> {}]
        /\ provenance = EmptyTable /\ ledger = EmptyTable /\ identities = EmptyTable
    BY DEF ExecutionInit
  <1>3. /\ DOMAIN memories = {1} /\ memories[1].placement = RepositoryAt(r)
        /\ memories[1] \in Memory
    BY <1>1 DEF Memory, Placements, RepositoryAt
  <1>4. IsTable(memories, MemoryIds, Memory)
    BY <1>1, <1>3, RecordAssumption DEF IsTable
  <1>5. TypeOK
    BY <1>2, <1>4, EmptyIsTable DEF TypeOK
  <1>6. DOMAIN provenance = {} /\ DOMAIN ledger = {}
    BY <1>2, EmptyIsTable
  <1> QED
    BY <1>2, <1>3, <1>5, <1>6 DEF StoreInv, ReferentialIntegrity, ProvenanceLedgered,
       Live, DomainKnown, RepositoryAt

LEMMA StoreStep == ExecutionInv /\ [ExecutionNext]_executionVars => [Next]_storeVars
  <1> SUFFICES ASSUME ExecutionInv, ExecutionNext PROVE [Next]_storeVars
    BY DEF executionVars
  <1>1. ASSUME NEW p \in Processes, Core(p) PROVE [Next]_storeVars
    <2> DEFINE c == calls[p]
    <2>1. c.request \in Calls
      BY <1>1, CallTyped DEF Core
    <2>2. /\ c.request.to \in Placements /\ c.request.from \in Placements
          /\ c.request.text \in Texts /\ c.request.id \in MemoryIds
          /\ c.request.repository \in Repositories /\ c.request.descriptor \in Descriptors
          /\ c.request.key \in Keys \cup {NoKey}
      BY <2>1, CallsAssumption
    <2>3. CASE Saves(p, c)
      BY <2>2, <2>3 DEF Saves, Next
    <2>4. CASE Overwrites(p, c)
      BY <2>2, <2>4 DEF Overwrites, Ending, Next
    <2>5. CASE Forgets(p, c)
      BY <2>2, <2>5 DEF Forgets, Ending, Next
    <2>6. CASE Transferring(p, c)
      <3> DEFINE q == TransferRequest(c.request)
      <3>1. c.request.kind \in Transfers /\ CopyMove(c.op, q, c.request.descriptor)
        BY <2>6 DEF Transferring
      <3>2. q \in Requests
        BY <2>2, <3>1 DEF TransferRequest, Requests, Transfers
      <3>3. c.op \in Keys \cup {DerivedId(q)}
        BY <1>1, <2>2, <3>1, CallTyped DEF Core, CallOK, OperationOf
      <3> HIDE DEF q
      <3> QED
        BY <2>2, <3>1, <3>2, <3>3 DEF Next
    <2>7. CASE UNCHANGED storeVars
      BY <2>7
    <2> QED
      BY <1>1, <2>3, <2>4, <2>5, <2>6, <2>7 DEF Core, Replays, Refuses, Reads, Ending
  <1>2. CASE ~\E p \in Processes : Core(p)
    BY <1>2 DEF ExecutionNext, Begin, Prepare, Materialize, Observe, Record, Answer, Die,
                PrepareActivity, Tick
  <1> QED
    BY <1>1, <1>2

LEMMA StepBoth ==
  StoreInv /\ ExecutionInv /\ [ExecutionNext]_executionVars
    => StoreInv' /\ ExecutionInv' /\ [Next]_storeVars
  BY StepStoreInv, StepExecutionInv, StoreStep

(* Whatever its receipts go through, execution changes the store only by   *)
(* steps of MemoryStore, so what is proved of them holds here.             *)
THEOREM ExecutionStore == ExecutionSpec => [](StoreInv /\ ExecutionInv) /\ [][Next]_storeVars
  BY InitStore, InitExecutionInv, StepBoth, PTL DEF ExecutionSpec

(* Names and remotes of repositories stay, however calls with different    *)
(* descriptors interleave: record_identity of src/repository.rs.           *)
THEOREM ExecutionIdentityStable == ExecutionSpec => IdentityStable
  <1>1. StoreInv /\ [Next]_storeVars => IdentityStep
    BY StepIdentity
  <1>2. ExecutionSpec => [](StoreInv /\ ExecutionInv) /\ [][Next]_storeVars
    BY ExecutionStore
  <1> QED
    BY <1>1, <1>2, PTL DEF IdentityStable, IdentityStep

-----------------------------------------------------------------------------
(* The newest of a finite set of events.                                   *)

\* A bounded set of numbers has a maximum.
LEMMA MaxOf ==
  ASSUME NEW S \in SUBSET Nat, S # {}, NEW m \in Nat, \A s \in S : s <= m
  PROVE  Max(S) \in S /\ \A s \in S : Max(S) >= s
<1> DEFINE T == {m - s : s \in S}
<1>1. T \subseteq Nat /\ T # {}
  <2>1. \A s \in S : s \in Nat /\ s <= m
    OBVIOUS
  <2>2. \A s \in S : m - s \in Nat
    BY <2>1
  <2>3. QED
    BY <2>2
<1>2. IsWellFoundedOn(OpToRel(<, Nat), Nat)
  BY NatLessThanWellFounded
<1>3. PICK x \in T : \A y \in T : ~(<<y, x>> \in OpToRel(<, Nat))
  <2> HIDE DEF T
  <2>1. QED
    BY <1>1, <1>2, WFMin
<1>4. \A y \in T : ~(y < x)
  BY <1>1, <1>3 DEF OpToRel
<1>5. PICK s \in S : x = m - s
  BY <1>3
<1>6. \A t \in S : m - t \in T
  OBVIOUS
<1>7. ASSUME NEW t \in S
      PROVE  s >= t
  <2>1. s \in Nat /\ t \in Nat
    OBVIOUS
  <2>2. ~(m - t < m - s)
    BY <1>4, <1>5, <1>6
  <2>3. QED
    BY <2>1, <2>2
<1>8. QED
  BY <1>7 DEF Max

\* Events that can be compared.
Ordered(S) ==
  \A e \in S : e.started \in Int /\ e.sequence \in Int

Distinct(S) == \A e, f \in S : e.sequence = f.sequence => e = f

\* An event's rank is the number of later ones; it decides what is kept.
LEMMA Ranks ==
  ASSUME NEW S, IsFiniteSet(S), Ordered(S), Distinct(S), NEW rank,
         rank = [e \in S |-> Cardinality({f \in S : Later(f, e)})]
  PROVE  /\ rank \in Injection(S, 0 .. Cardinality(S) - 1)
         /\ \A e, f \in S : Later(f, e) => rank[f] < rank[e]
<1> DEFINE n == Cardinality(S)
           above(e) == {f \in S : Later(f, e)}
<1>1. n \in Nat
  BY FS_CardinalityType
<1>2. ASSUME NEW e \in S
      PROVE  IsFiniteSet(above(e)) /\ Cardinality(above(e)) \in 0 .. n - 1
  <2>1. e \notin above(e)
    BY DEF Later, Ordered
  <2>2. IsFiniteSet(S \ {e}) /\ Cardinality(S \ {e}) = n - 1
    BY FS_RemoveElement
  <2>3. above(e) \subseteq S \ {e}
    BY <2>1
  <2> HIDE DEF above
  <2>4. IsFiniteSet(above(e)) /\ Cardinality(above(e)) <= n - 1
    BY <2>2, <2>3, FS_Subset
  <2>5. Cardinality(above(e)) \in Nat
    BY <2>4, FS_CardinalityType
  <2>6. QED
    BY <1>1, <2>4, <2>5
<1>3. ASSUME NEW e \in S, NEW f \in S, Later(f, e)
      PROVE  Cardinality(above(f)) < Cardinality(above(e))
  <2>1. f \in above(e) /\ f \notin above(f) /\ above(f) \subseteq above(e)
    BY <1>3 DEF Later, Ordered
  <2>2. /\ IsFiniteSet(above(f)) /\ IsFiniteSet(above(e))
        /\ Cardinality(above(f)) \in Nat /\ Cardinality(above(e)) \in Nat
    BY <1>1, <1>2
  <2> HIDE DEF above
  <2>3. Cardinality(above(f) \cup {f}) = Cardinality(above(f)) + 1
    BY <2>1, <2>2, FS_AddElement
  <2>4. Cardinality(above(f) \cup {f}) <= Cardinality(above(e))
    BY <2>1, <2>2, FS_Subset
  <2>5. QED
    BY <2>2, <2>3, <2>4
<1>4. \A e \in S : rank[e] = Cardinality(above(e))
  OBVIOUS
<1>5. rank \in [S -> 0 .. n - 1]
  BY <1>2, <1>4
<1>6. \A e, f \in S : e # f => Later(e, f) \/ Later(f, e)
  BY DEF Later, Ordered, Distinct
<1> HIDE DEF above, n
<1>7. \A e, f \in S : Later(f, e) => rank[f] < rank[e]
  BY <1>3, <1>4
<1>8. \A e, f \in S : rank[e] = rank[f] => e = f
  BY <1>5, <1>6, <1>7
<1>9. QED
  BY <1>5, <1>7, <1>8 DEF Injection, IsInjective, n

\* Newest keeps as many as it may, and nothing it drops is later.
LEMMA NewestKeeps ==
  ASSUME NEW S, IsFiniteSet(S), Ordered(S), Distinct(S), NEW cap \in Nat
  PROVE  /\ IsFiniteSet(Newest(S, cap)) /\ Cardinality(Newest(S, cap)) <= cap
         /\ Cardinality(S) >= cap => Cardinality(Newest(S, cap)) = cap
         /\ \A e \in S \ Newest(S, cap) :
              Cardinality(Newest(S, cap)) = cap /\ \A f \in Newest(S, cap) : ~Later(e, f)
<1> DEFINE n == Cardinality(S)
           rank == [e \in S |-> Cardinality({f \in S : Later(f, e)})]
           N == Newest(S, cap)
           low == [e \in N |-> rank[e]]
<1>1. n \in Nat
  BY FS_CardinalityType
<1>2. /\ rank \in Injection(S, 0 .. n - 1)
      /\ \A e, f \in S : Later(f, e) => rank[f] < rank[e]
  BY Ranks
<1>3. N = {e \in S : rank[e] < cap}
  BY DEF Newest
<1> HIDE DEF rank, N
<1>4. IsFiniteSet(0 .. n - 1) /\ Cardinality(0 .. n - 1) = n
  BY <1>1, FS_Interval
<1>5. IsFiniteSet(0 .. cap - 1) /\ Cardinality(0 .. cap - 1) = cap
  BY FS_Interval
<1>6. /\ rank \in [S -> 0 .. n - 1]
      /\ \A e, f \in S : rank[e] = rank[f] => e = f
  BY <1>2 DEF Injection, IsInjective
<1>7. low \in [N -> 0 .. cap - 1]
  BY <1>1, <1>3, <1>6
<1>8. low \in Injection(N, 0 .. cap - 1)
  BY <1>3, <1>6, <1>7 DEF Injection, IsInjective
<1>9. /\ IsFiniteSet(N) /\ Cardinality(N) <= cap
      /\ Cardinality(N) = cap <=> low \in Surjection(N, 0 .. cap - 1)
  <2> HIDE DEF low
  <2>1. QED
    BY <1>5, <1>8, FS_Injection
<1>10. ASSUME n >= cap
       PROVE  Cardinality(N) = cap
  <2>1. rank \in Surjection(S, 0 .. n - 1)
    BY <1>2, <1>4, FS_Injection DEF n
  <2>2. ASSUME NEW k \in 0 .. cap - 1
        PROVE  \E e \in N : low[e] = k
    <3>1. k \in 0 .. n - 1
      BY <1>1, <1>10
    <3>2. PICK e \in S : rank[e] = k
      BY <2>1, <3>1 DEF Surjection
    <3>3. QED
      BY <1>3, <3>2
  <2>3. low \in Surjection(N, 0 .. cap - 1)
    BY <1>7, <2>2 DEF Surjection
  <2>4. QED
    BY <1>9, <2>3
<1>11. ASSUME NEW e \in S \ N
       PROVE  Cardinality(N) = cap /\ \A f \in N : ~Later(e, f)
  <2>1. rank[e] >= cap /\ rank[e] \in 0 .. n - 1
    BY <1>1, <1>3, <1>6
  <2>2. n >= cap
    BY <1>1, <2>1
  <2>3. \A f \in N : ~Later(e, f)
    BY <1>2, <1>3, <1>6, <2>1
  <2>4. QED
    BY <1>10, <2>2, <2>3
<1>12. QED
  BY <1>9, <1>10, <1>11 DEF N, n

\* K was kept of R, A is at most one new event, what is in X has expired, and
\* F is what there is to keep from.
Pruned(K, R, A, X, F, cap) ==
  /\ F = (K \cup A) \ X /\ IsFiniteSet(F) /\ Distinct(F) /\ Ordered(R \cup A)
  /\ K \subseteq R /\ IsFiniteSet(K) /\ (\A a, b \in A : a = b)
  /\ \A e \in R, f \in X : ~Later(e, f) => e \in X
  /\ \A e \in R \ K : e \in X \/ (Cardinality(K) = cap /\ \A f \in K : ~Later(e, f))

\* What was dropped stays older than all that is kept.
LEMMA NewestStays ==
  ASSUME NEW K, NEW R, NEW A, NEW X, NEW F, NEW cap \in Nat, Pruned(K, R, A, X, F, cap)
  PROVE  \A e \in (R \cup A) \ Newest(F, cap) :
           e \in X \/ (Cardinality(Newest(F, cap)) = cap /\ \A f \in Newest(F, cap) : ~Later(e, f))
<1> USE DEF Pruned
<1> DEFINE N == Newest(F, cap)
<1>0. Ordered(F) /\ N \subseteq F
  BY DEF Ordered, Newest
<1>1. /\ Cardinality(F) >= cap => Cardinality(N) = cap
      /\ \A e \in F \ N : Cardinality(N) = cap /\ \A f \in N : ~Later(e, f)
  BY <1>0, NewestKeeps
<1>2. \A f \in N : Cardinality({g \in F : Later(g, f)}) < cap
  BY DEF Newest
<1> HIDE DEF N
<1>3. ASSUME NEW e \in (R \cup A) \ N, e \notin X, e \notin F
      PROVE  Cardinality(N) = cap /\ \A f \in N : ~Later(e, f)
  <2>1. e \in R \ K
    BY <1>3
  <2>2. Cardinality(K) = cap /\ \A f \in K : ~Later(e, f)
    BY <1>3, <2>1
  <2>3. K \subseteq F
    BY <1>3, <2>1, <2>2
  <2>4. Cardinality(F) >= cap
    <3>1. Cardinality(K) <= Cardinality(F)
      BY <2>3, FS_Subset
    <3>2. Cardinality(F) \in Nat
      BY FS_CardinalityType
    <3>3. QED
      BY <2>2, <3>1, <3>2
  <2>5. ASSUME NEW f \in N, Later(e, f)
        PROVE  FALSE
    <3>1. f \in A /\ f \in F /\ f \notin K
      BY <1>0, <2>2, <2>5
    <3> DEFINE above == {g \in F : Later(g, f)}
    <3>2. IsFiniteSet(above) /\ Cardinality(above) < cap /\ Cardinality(above) \in Nat
      <4>1. above \subseteq F
        OBVIOUS
      <4>2. Cardinality(above) < cap
        BY <1>2
      <4> HIDE DEF above
      <4>3. QED
        BY <4>1, <4>2, FS_Subset, FS_CardinalityType
    <3>3. PICK g \in K : ~Later(g, f)
      <4>1. CASE K \subseteq above
        <5> HIDE DEF above
        <5>1. Cardinality(K) <= Cardinality(above)
          BY <3>2, <4>1, FS_Subset
        <5>2. QED
          BY <2>2, <3>2, <5>1
      <4>2. CASE ~(K \subseteq above)
        BY <2>3, <4>2
      <4>3. QED
        BY <4>1, <4>2
    <3>4. g \in F /\ g # f
      BY <2>3, <3>1, <3>3
    <3>5. Later(f, g)
      BY <1>0, <3>1, <3>3, <3>4 DEF Later, Ordered, Distinct
    <3>6. Later(e, g)
      BY <1>0, <2>1, <2>5, <3>1, <3>4, <3>5 DEF Later, Ordered
    <3>7. QED
      BY <2>2, <3>3, <3>6
  <2>6. QED
    BY <1>1, <2>4, <2>5
<1>4. QED
  BY <1>1, <1>3 DEF N

-----------------------------------------------------------------------------
(* The history keeps the newest.                                           *)

HasWritten(c) == c.status \in {"committed", "replayed"}

\* A call began when it says, and names a record only of its own.
Timed(c) == c.started \in 1 .. clock /\ (HasWritten(c) \/ c.ids = {})

\* A call and an event happened when they say; the sequence numbers in the
\* table are unique and bounded.
HistoryInv ==
  /\ IsFiniteSet(events) /\ events \subseteq recorded /\ Distinct(events)
  /\ \E m \in Nat : \A e \in events : e.sequence <= m
  /\ \A e \in recorded :
       /\ e.started \in 1 .. clock /\ e.sequence \in Nat
       /\ e.category \in {"read", "write"} /\ e.ids \subseteq MemoryIds
  /\ sightings \subseteq 1 .. clock
  /\ clock \in Nat \ {0}
  /\ \A p \in Processes : calls[p] # NoCall => Timed(calls[p])
  /\ KeepsNewest

\* What KeepsNewest says of one category.
Keeps(kept, cap, all) ==
  /\ Cardinality(kept) <= cap
  /\ \A e \in all \ kept : Expired(e) \/ (Cardinality(kept) = cap /\ \A f \in kept : ~Later(e, f))

LEMMA KeepsEach ==
  KeepsNewest <=>
    /\ Keeps(OfCategory(events, "read"), ReadCap, OfCategory(recorded, "read"))
    /\ Keeps(OfCategory(events, "write"), WriteCap, OfCategory(recorded, "write"))
  BY DEF KeepsNewest, Keeps

\* Pruning with at most one new event keeps the newest again.
LEMMA PruneKeeps ==
  ASSUME HistoryInv, NEW A, \A a, b \in A : a = b,
         \A a \in A : a.started \in Int /\ a.sequence \in Int /\ a.category \in {"read", "write"},
         Distinct(events \cup A), IsFiniteSet(events \cup A)
  PROVE  /\ Prune(events \cup A) \subseteq events \cup A
         /\ IsFiniteSet(Prune(events \cup A))
         /\ Keeps(OfCategory(Prune(events \cup A), "read"), ReadCap, OfCategory(recorded \cup A, "read"))
         /\ Keeps(OfCategory(Prune(events \cup A), "write"), WriteCap, OfCategory(recorded \cup A, "write"))
<1> DEFINE S == events \cup A
           all == recorded \cup A
           reads == {e \in OfCategory(S, "read") : ~Expired(e)}
           expired == {e \in OfCategory(all, "read") : Expired(e)}
           writes == OfCategory(S, "write")
<1>1. /\ OfCategory(Prune(S), "read") = Newest(reads, ReadCap)
      /\ OfCategory(Prune(S), "write") = Newest(writes, WriteCap)
  BY DEF OfCategory, Prune, Newest
<1>2. Prune(S) \subseteq S /\ IsFiniteSet(Prune(S))
  <2>1. Prune(S) \subseteq S
    BY PruneSubset
  <2>2. IsFiniteSet(S)
    OBVIOUS
  <2> HIDE DEF S
  <2>3. QED
    BY <2>1, <2>2, FS_Subset
<1>3. Ordered(all) /\ Ordered(S) /\ S \subseteq all
  BY DEF HistoryInv, Ordered
<1>4. IsFiniteSet(reads) /\ IsFiniteSet(writes)
  <2>1. reads \subseteq S /\ writes \subseteq S
    BY DEF OfCategory
  <2> HIDE DEF S, reads, writes
  <2>2. QED
    BY <2>1, FS_Subset DEF S
<1>5. IsFiniteSet(OfCategory(events, "read")) /\ IsFiniteSet(OfCategory(events, "write"))
  BY FS_Subset DEF HistoryInv, OfCategory
<1>6. Distinct(reads) /\ Distinct(writes)
  BY DEF Distinct, OfCategory
<1>7. KeepsNewest /\ events \subseteq recorded /\ clock \in Nat /\ Retention \in Nat
      /\ ReadCap \in Nat /\ WriteCap \in Nat
  BY CapsAssumption DEF HistoryInv
<1>8. /\ Cardinality(Newest(reads, ReadCap)) <= ReadCap
      /\ Cardinality(Newest(writes, WriteCap)) <= WriteCap
  <2>1. Ordered(reads) /\ Ordered(writes)
    BY <1>3 DEF Ordered, OfCategory
  <2> HIDE DEF reads, writes
  <2>2. QED
    BY <1>4, <1>6, <1>7, <2>1, NewestKeeps
<1>9. Keeps(Newest(reads, ReadCap), ReadCap, OfCategory(all, "read"))
  <2> DEFINE K == OfCategory(events, "read")
             R == OfCategory(recorded, "read")
             B == OfCategory(A, "read")
  <2>1. reads = (K \cup B) \ expired /\ OfCategory(all, "read") = R \cup B /\ K \subseteq R
    BY <1>7 DEF OfCategory
  <2>2. \A a, b \in B : a = b
    BY DEF OfCategory
  <2>3. Ordered(R \cup B)
    BY <1>3, <2>1 DEF Ordered, OfCategory
  <2>4. \A e \in R, f \in expired : ~Later(e, f) => e \in expired
    BY <1>3, <1>7 DEF Ordered, Later, Expired, OfCategory
  <2>5. \A e \in R \ K : e \in expired \/ (Cardinality(K) = ReadCap /\ \A f \in K : ~Later(e, f))
    BY <1>7, KeepsEach DEF Keeps, OfCategory
  <2>6. IsFiniteSet(K)
    BY <1>5
  <2> HIDE DEF K, R, B, expired, reads
  <2>7. Pruned(K, R, B, expired, reads, ReadCap)
    BY <1>4, <1>6, <2>1, <2>2, <2>3, <2>4, <2>5, <2>6 DEF Pruned
  <2>8. \A e \in (R \cup B) \ Newest(reads, ReadCap) :
          \/ e \in expired
          \/ /\ Cardinality(Newest(reads, ReadCap)) = ReadCap
             /\ \A f \in Newest(reads, ReadCap) : ~Later(e, f)
    BY <1>7, <2>7, NewestStays
  <2>9. QED
    BY <1>8, <2>1, <2>8 DEF Keeps, expired
<1>10. Keeps(Newest(writes, WriteCap), WriteCap, OfCategory(all, "write"))
  <2> DEFINE K == OfCategory(events, "write")
             R == OfCategory(recorded, "write")
             B == OfCategory(A, "write")
  <2>1. writes = (K \cup B) \ {} /\ OfCategory(all, "write") = R \cup B /\ K \subseteq R
    BY <1>7 DEF OfCategory
  <2>2. \A a, b \in B : a = b
    BY DEF OfCategory
  <2>3. Ordered(R \cup B)
    BY <1>3, <2>1 DEF Ordered, OfCategory
  <2>4. \A e \in R, f \in {} : ~Later(e, f) => e \in {}
    OBVIOUS
  <2>5. \A e \in R \ K : e \in {} \/ (Cardinality(K) = WriteCap /\ \A f \in K : ~Later(e, f))
    BY <1>7, KeepsEach DEF Keeps, OfCategory, Expired
  <2>6. IsFiniteSet(K)
    BY <1>5
  <2> HIDE DEF K, R, B, writes
  <2>7. Pruned(K, R, B, {}, writes, WriteCap)
    BY <1>4, <1>6, <2>1, <2>2, <2>3, <2>4, <2>5, <2>6 DEF Pruned
  <2>8. \A e \in (R \cup B) \ Newest(writes, WriteCap) :
          \/ e \in {}
          \/ /\ Cardinality(Newest(writes, WriteCap)) = WriteCap
             /\ \A f \in Newest(writes, WriteCap) : ~Later(e, f)
    BY <1>7, <2>7, NewestStays
  <2>9. QED
    BY <1>8, <2>1, <2>8 DEF Keeps
<1>11. QED
  BY <1>1, <1>2, <1>9, <1>10

\* The next sequence number is above all that are in the table.
LEMMA NextAbove ==
  ASSUME HistoryInv
  PROVE  NextSequence \in Nat /\ \A e \in events : e.sequence < NextSequence
<1> DEFINE S == {e.sequence : e \in events}
<1>1. S \subseteq Nat
  BY DEF HistoryInv
<1>2. PICK m \in Nat : \A s \in S : s <= m
  BY DEF HistoryInv
<1>3. CASE events = {}
  BY <1>3 DEF NextSequence
<1>4. CASE events # {}
  <2>1. S # {} /\ NextSequence = Max(S) + 1
    BY <1>4 DEF NextSequence
  <2>2. \A e \in events : e.sequence \in S
    OBVIOUS
  <2> HIDE DEF S
  <2>3. Max(S) \in S /\ \A s \in S : Max(S) >= s
    BY <1>1, <1>2, <2>1, MaxOf
  <2>4. Max(S) \in Nat
    BY <1>1, <2>3
  <2>5. ASSUME NEW e \in events
        PROVE  e.sequence < Max(S) + 1
    <3>1. e.sequence \in Nat /\ Max(S) >= e.sequence
      BY <1>1, <2>2, <2>3
    <3>2. QED
      BY <2>4, <3>1
  <2>6. QED
    BY <2>1, <2>4, <2>5
<1>5. QED
  BY <1>3, <1>4

\* An event of a call is recorded.
LEMMA InsertedHistory ==
  ASSUME HistoryInv, NEW p \in Processes, calls[p] # NoCall, calls[p] \in Receipts,
         Inserted(calls[p]), clock' = clock
  PROVE  /\ IsFiniteSet(events') /\ events' \subseteq recorded' /\ Distinct(events')
         /\ \E m \in Nat : \A e \in events' : e.sequence <= m
         /\ \A e \in recorded' :
              /\ e.started \in 1 .. clock' /\ e.sequence \in Nat
              /\ e.category \in {"read", "write"} /\ e.ids \subseteq MemoryIds
         /\ KeepsNewest'
<1> DEFINE e == EventOf(calls[p], NextSequence)
<1>1. events' = Prune(events \cup {e}) /\ recorded' = recorded \cup {e}
  BY DEF Inserted
<1>2. NextSequence \in Nat /\ \A f \in events : f.sequence < NextSequence
  BY NextAbove
<1>3. /\ e.sequence = NextSequence /\ e.started \in 1 .. clock
      /\ e.category \in {"read", "write"} /\ e.ids \subseteq MemoryIds
  BY DEF EventOf, CategoryOf, HistoryInv, Timed, Receipts
<1> HIDE DEF e
<1>4. Distinct(events \cup {e})
  BY <1>2, <1>3 DEF Distinct, HistoryInv
<1>5. IsFiniteSet(events \cup {e})
  BY FS_AddElement DEF HistoryInv
<1>6. /\ events' \subseteq events \cup {e} /\ IsFiniteSet(events')
      /\ Keeps(OfCategory(events', "read"), ReadCap, OfCategory(recorded', "read"))
      /\ Keeps(OfCategory(events', "write"), WriteCap, OfCategory(recorded', "write"))
  <2>1. \A a, b \in {e} : a = b
    OBVIOUS
  <2>2. \A a \in {e} : a.started \in Int /\ a.sequence \in Int /\ a.category \in {"read", "write"}
    BY <1>2, <1>3
  <2>3. QED
    BY <1>1, <1>4, <1>5, <2>1, <2>2, PruneKeeps
<1>7. KeepsNewest'
  BY <1>6 DEF KeepsNewest, Keeps, Expired
<1>8. \E m \in Nat : \A f \in events' : f.sequence <= m
  <2>1. \A f \in events : f.sequence \in Nat
    BY DEF HistoryInv
  <2>2. \A f \in events' : f.sequence <= NextSequence
    BY <1>2, <1>3, <1>6, <2>1
  <2>3. QED
    BY <1>2, <2>2
<1>9. Distinct(events') /\ events' \subseteq recorded'
  BY <1>1, <1>4, <1>6 DEF Distinct, HistoryInv
<1>10. QED
  BY <1>1, <1>2, <1>3, <1>6, <1>7, <1>8, <1>9 DEF HistoryInv

\* A step that leaves the history and the clock alone.
LEMMA HistoryStays ==
  ASSUME HistoryInv, UNCHANGED <<events, recorded, clock>>
  PROVE  /\ IsFiniteSet(events') /\ events' \subseteq recorded' /\ Distinct(events')
         /\ \E m \in Nat : \A e \in events' : e.sequence <= m
         /\ \A e \in recorded' :
              /\ e.started \in 1 .. clock' /\ e.sequence \in Nat
              /\ e.category \in {"read", "write"} /\ e.ids \subseteq MemoryIds
         /\ KeepsNewest'
  BY DEF HistoryInv, KeepsNewest, Expired, Distinct, OfCategory

\* How a step may change a receipt.
Continues(c, d) ==
  /\ d.started = c.started
  /\ (d.status = c.status /\ d.ids = c.ids) \/ HasWritten(d) \/ d.ids = {}

LEMMA ReplyTimed ==
  ASSUME ExecutionInv, HistoryInv, clock' = clock, NEW p \in Processes, calls[p] # NoCall,
         NEW d, Reply(p, d), Continues(calls[p], d)
  PROVE  \A q \in Processes : calls'[q] # NoCall => Timed(calls[q])'
<1>1. Timed(calls[p])
  BY DEF HistoryInv
<1>2. calls'[p] = d /\ \A q \in Processes \ {p} : calls'[q] = calls[q]
  BY DEF Reply, ExecutionInv
<1>3. Timed(calls[p])'
  BY <1>1, <1>2 DEF Timed, Continues, HasWritten
<1>4. ASSUME NEW q \in Processes \ {p}, calls'[q] # NoCall
      PROVE  Timed(calls[q])'
  <2>1. Timed(calls[q]) /\ calls'[q] = calls[q]
    BY <1>2, <1>4 DEF HistoryInv
  <2>2. QED
    BY <2>1 DEF Timed, HasWritten
<1>5. QED
  BY <1>3, <1>4

\* A receipt whose other fields change.
LEMMA FieldsContinue ==
  ASSUME NEW c \in Receipts, NEW pc, NEW pending, NEW warnings, NEW context, NEW activity
  PROVE  Continues(c, [c EXCEPT !.pc = pc, !.pending = pending, !.warnings = warnings,
                                !.context = context, !.activity = activity])
  BY DEF Continues, Receipts

LEMMA CoreTimed ==
  ASSUME ExecutionInv, HistoryInv, NEW p \in Processes, Core(p)
  PROVE  /\ \A q \in Processes : calls'[q] # NoCall => Timed(calls[q])'
         /\ UNCHANGED <<events, recorded, clock, sightings>>
<1> DEFINE c == calls[p]
<1>1. c \in Receipts /\ c # NoCall /\ c.status = "running"
  BY CallTyped DEF Core, CallOK
<1>2. c.ids = {}
  BY <1>1 DEF HistoryInv, Timed, HasWritten
<1>3. \A pc, ids : \A status \in {"committed", "replayed"} :
        Continues(c, [c EXCEPT !.pc = pc, !.status = status, !.ids = ids])
  BY <1>1 DEF Continues, HasWritten, Receipts
<1>4. \A pc, status : Continues(c, [c EXCEPT !.pc = pc, !.status = status])
  BY <1>1, <1>2 DEF Continues, Receipts
<1>5. /\ UNCHANGED <<events, recorded, clock, sightings>>
      /\ \/ \E pc, ids : \E status \in {"committed", "replayed"} :
              Reply(p, [c EXCEPT !.pc = pc, !.status = status, !.ids = ids])
         \/ \E pc, status : Reply(p, [c EXCEPT !.pc = pc, !.status = status])
  <2>1. ASSUME NEW ids, Committing(p, c, ids)
        PROVE  /\ UNCHANGED <<events, recorded, clock, sightings>>
               /\ Reply(p, [c EXCEPT !.pc = AfterCore(c.request), !.status = "committed", !.ids = ids])
    BY <2>1 DEF Committing
  <2>2. ASSUME NEW pc, NEW status, Ending(p, c, status, pc)
        PROVE  /\ UNCHANGED <<events, recorded, clock, sightings>>
               /\ Reply(p, [c EXCEPT !.pc = pc, !.status = status])
    BY <2>2 DEF Ending
  <2>3. CASE Replays(p, c)
    BY <2>3 DEF Replays
  <2> HIDE DEF c
  <2>4. CASE \E ids : Committing(p, c, ids)
    BY <2>1, <2>4
  <2>5. CASE \E pc, status : Ending(p, c, status, pc)
    BY <2>2, <2>5
  <2>6. QED
    BY <2>3, <2>4, <2>5 DEF c, Core, Saves, Overwrites, Forgets, Transferring, Refuses, Reads
<1> HIDE DEF c
<1>6. PICK d : Reply(p, d) /\ Continues(c, d)
  BY <1>3, <1>4, <1>5
<1>7. QED
  BY <1>1, <1>5, <1>6, ReplyTimed DEF c

LEMMA BeginTimed ==
  ASSUME ExecutionInv, HistoryInv, NEW p \in Processes, NEW q \in Calls, Begin(p, q)
  PROVE  /\ \A r \in Processes : calls'[r] # NoCall => Timed(calls[r])'
         /\ UNCHANGED <<events, recorded, clock, sightings>>
<1>1. /\ calls' = [calls EXCEPT ![p] = Start(p, q)]
      /\ UNCHANGED <<events, recorded, clock, sightings>>
  BY DEF Begin
<1>2. Start(p, q).started = clock /\ Start(p, q).ids = {}
  BY DEF Start
<1>3. /\ calls'[p] = Start(p, q)
      /\ \A r \in Processes \ {p} : calls'[r] = calls[r]
  BY <1>1 DEF ExecutionInv
<1>4. Timed(calls[p])'
  BY <1>1, <1>2, <1>3 DEF Timed, HistoryInv
<1>5. ASSUME NEW r \in Processes \ {p}, calls'[r] # NoCall
      PROVE  Timed(calls[r])'
  <2>1. Timed(calls[r]) /\ calls'[r] = calls[r]
    BY <1>3, <1>5 DEF HistoryInv
  <2>2. QED
    BY <1>1, <2>1 DEF Timed, HasWritten
<1>6. QED
  BY <1>1, <1>4, <1>5

\* Materialize, Answer and Die change neither status nor records.
LEMMA QuietTimed ==
  ASSUME ExecutionInv, HistoryInv, NEW p \in Processes,
         Prepare(p) \/ Materialize(p) \/ Answer(p) \/ Die(p)
  PROVE  /\ \A q \in Processes : calls'[q] # NoCall => Timed(calls[q])'
         /\ UNCHANGED <<events, recorded, clock, sightings>>
<1> DEFINE c == calls[p]
<1>1. c \in Receipts /\ c # NoCall
  BY CallTyped DEF Prepare, Materialize, Answer, Die, Active
<1>2. UNCHANGED <<events, recorded, clock, sightings>>
  BY DEF Prepare, Materialize, Answer, Die
<1>3. \A pc, pending, warnings, context :
        /\ Continues(c, [c EXCEPT !.pc = pc])
        /\ Continues(c, [c EXCEPT !.pc = pc, !.pending = pending])
        /\ Continues(c, [c EXCEPT !.pc = pc, !.warnings = warnings])
        /\ Continues(c, [[c EXCEPT !.pc = pc] EXCEPT !.context = context])
        /\ Continues(c, [[c EXCEPT !.pc = pc] EXCEPT !.warnings = @ \cup {"context"}])
  BY <1>1 DEF Continues, Receipts
<1>4. PICK d : Reply(p, d) /\ Continues(c, d)
  <2>1. CASE Prepare(p)
    BY <1>3, <2>1 DEF Prepare
  <2>2. CASE Materialize(p)
    BY <1>3, <2>2 DEF Materialize
  <2>3. CASE Answer(p)
    BY <1>3, <2>3 DEF Answer
  <2>4. CASE Die(p)
    BY <1>3, <2>4 DEF Die
  <2>5. QED
    BY <2>1, <2>2, <2>3, <2>4
<1> HIDE DEF c
<1>5. QED
  BY <1>1, <1>2, <1>4, ReplyTimed DEF c

LEMMA ObserveTimed ==
  ASSUME ExecutionInv, HistoryInv, NEW p \in Processes, Observe(p)
  PROVE  /\ \A q \in Processes : calls'[q] # NoCall => Timed(calls[q])'
         /\ UNCHANGED <<events, recorded, clock>>
         /\ sightings' \subseteq 1 .. clock
<1> DEFINE c == calls[p]
<1>1. c \in Receipts /\ c # NoCall /\ c.started \in 1 .. clock
  BY CallTyped DEF Observe, HistoryInv, Timed
<1>2. UNCHANGED <<events, recorded, clock>>
  BY DEF Observe
<1>3. sightings' \subseteq sightings \cup {c.started}
  BY DEF Observe, ObservedAt, Unobserved
<1>4. \A pc, warnings :
        /\ Continues(c, [c EXCEPT !.pc = pc])
        /\ Continues(c, [c EXCEPT !.pc = pc, !.warnings = @ \cup warnings])
  BY <1>1 DEF Continues, Receipts
<1>5. PICK d : Reply(p, d) /\ Continues(c, d)
  BY <1>4 DEF Observe, ObservedAt, Unobserved
<1>6. sightings' \subseteq 1 .. clock
  BY <1>1, <1>3 DEF HistoryInv
<1> HIDE DEF c
<1>7. QED
  BY <1>1, <1>2, <1>5, <1>6, ReplyTimed DEF c

LEMMA RecordTimed ==
  ASSUME ExecutionInv, HistoryInv, NEW p \in Processes, Record(p)
  PROVE  /\ \A q \in Processes : calls'[q] # NoCall => Timed(calls[q])'
         /\ UNCHANGED <<clock, sightings>>
<1> DEFINE c == calls[p]
<1>1. c \in Receipts /\ CallOK(p, c) /\ c # NoCall /\ Timed(c)
  BY CallTyped DEF Record, HistoryInv
<1>2. UNCHANGED <<clock, sightings>>
  BY DEF Record
<1>3. c.request.kind = "sink" => c.ids = {}
  BY <1>1 DEF CallOK, Timed, HasWritten, Writes, Transfers
<1>4. \A outcome : Continues(c, ActivityReceipt(c, outcome))
  BY <1>1, <1>3 DEF ActivityReceipt, Continues, Receipts
<1>5. Continues(c, [c EXCEPT !.pc = AfterRecord(c.request)])
  BY <1>1 DEF Continues, Receipts
<1>6. PICK d : Reply(p, d) /\ Continues(c, d)
  BY <1>4, <1>5 DEF Record
<1> HIDE DEF c
<1>7. QED
  BY <1>1, <1>2, <1>6, ReplyTimed DEF c

LEMMA RecordHistory ==
  ASSUME ExecutionInv, HistoryInv, NEW p \in Processes, Record(p)
  PROVE  HistoryInv'
<1>1. /\ \A q \in Processes : calls'[q] # NoCall => Timed(calls[q])'
      /\ UNCHANGED <<clock, sightings>>
  BY RecordTimed
<1>2. calls[p] \in Receipts /\ calls[p] # NoCall
  BY CallTyped DEF Record
<1>3. Inserted(calls[p]) \/ UNCHANGED <<events, recorded>>
  BY DEF Record, Recorded
<1>4. QED
  BY <1>1, <1>2, <1>3, InsertedHistory, HistoryStays DEF HistoryInv

LEMMA PrepareActivityHistory ==
  ASSUME HistoryInv, PrepareActivity
  PROVE  HistoryInv'
<1>1. events' = Prune(events) /\ UNCHANGED <<calls, clock, recorded, sightings>>
  BY DEF PrepareActivity
<1>2. Distinct(events) /\ IsFiniteSet(events) /\ events \cup {} = events /\ recorded \cup {} = recorded
  BY DEF HistoryInv
<1>3. /\ events' \subseteq events /\ IsFiniteSet(events')
      /\ Keeps(OfCategory(events', "read"), ReadCap, OfCategory(recorded, "read"))
      /\ Keeps(OfCategory(events', "write"), WriteCap, OfCategory(recorded, "write"))
  <2>1. \A a, b \in {} : a = b
    OBVIOUS
  <2>2. \A a \in {} : a.started \in Int /\ a.sequence \in Int /\ a.category \in {"read", "write"}
    OBVIOUS
  <2>3. QED
    BY <1>1, <1>2, <2>1, <2>2, PruneKeeps
<1>4. KeepsNewest'
  BY <1>1, <1>3 DEF KeepsNewest, Keeps, Expired
<1>5. Distinct(events') /\ events' \subseteq recorded'
  BY <1>1, <1>2, <1>3 DEF Distinct, HistoryInv
<1>6. \E m \in Nat : \A e \in events' : e.sequence <= m
  BY <1>3 DEF HistoryInv
<1>7. \A p \in Processes : calls'[p] # NoCall => Timed(calls[p])'
  BY <1>1 DEF HistoryInv, Timed
<1>8. QED
  BY <1>1, <1>3, <1>4, <1>5, <1>6, <1>7 DEF HistoryInv

\* As time passes more reads expire.
LEMMA TickHistory ==
  ASSUME HistoryInv, Tick
  PROVE  HistoryInv'
<1>1. clock' = clock + 1 /\ UNCHANGED <<calls, events, recorded, sightings>>
  BY DEF Tick
<1>2. clock \in Nat \ {0} /\ 1 .. clock \subseteq 1 .. clock' /\ Retention \in Nat
  BY <1>1, CapsAssumption DEF HistoryInv
<1>3. \A e \in recorded : Expired(e) => Expired(e)'
  BY <1>1, <1>2 DEF Expired, HistoryInv
<1>4. KeepsNewest'
  <2>1. \A category : OfCategory(events, category)' = OfCategory(events, category)
    BY <1>1 DEF OfCategory
  <2>2. \A category : OfCategory(recorded, category)' = OfCategory(recorded, category)
    BY <1>1 DEF OfCategory
  <2>3. KeepsNewest
    BY DEF HistoryInv
  <2>4. \A category : OfCategory(recorded, category) \subseteq recorded
    BY DEF OfCategory
  <2>5. QED
    BY <1>3, <2>1, <2>2, <2>3, <2>4 DEF KeepsNewest
<1>5. \A e \in recorded' :
        /\ e.started \in 1 .. clock' /\ e.sequence \in Nat
        /\ e.category \in {"read", "write"} /\ e.ids \subseteq MemoryIds
  BY <1>1, <1>2 DEF HistoryInv
<1>6. \A p \in Processes : calls'[p] # NoCall => Timed(calls[p])'
  BY <1>1, <1>2 DEF HistoryInv, Timed, HasWritten
<1>7. QED
  BY <1>1, <1>2, <1>4, <1>5, <1>6 DEF HistoryInv, Distinct

LEMMA InitHistory == ExecutionInit => HistoryInv
<1> SUFFICES ASSUME ExecutionInit PROVE HistoryInv
  OBVIOUS
<1>1. /\ events = {} /\ recorded = {} /\ clock = 1 /\ sightings = {}
      /\ \A p \in Processes : calls[p] = NoCall
  BY DEF ExecutionInit, Idle
<1>2. IsFiniteSet({}) /\ Cardinality({}) = 0
  BY FS_EmptySet
<1>3. KeepsNewest
  BY <1>1, <1>2, CapsAssumption DEF KeepsNewest, OfCategory
<1>4. QED
  BY <1>1, <1>2, <1>3 DEF HistoryInv, Distinct

LEMMA StepHistory == ExecutionInv /\ HistoryInv /\ [ExecutionNext]_executionVars => HistoryInv'
<1> SUFFICES ASSUME ExecutionInv, HistoryInv, [ExecutionNext]_executionVars PROVE HistoryInv'
  OBVIOUS
<1>1. ASSUME \A q \in Processes : calls'[q] # NoCall => Timed(calls[q])',
             UNCHANGED <<events, recorded, clock>>, sightings' \subseteq 1 .. clock
      PROVE  HistoryInv'
  BY <1>1, HistoryStays DEF HistoryInv
<1>2. ASSUME NEW p \in Processes,
             \/ \E q \in Calls : Begin(p, q)
             \/ Prepare(p) \/ Core(p) \/ Materialize(p) \/ Observe(p)
             \/ Record(p) \/ Answer(p) \/ Die(p)
      PROVE  HistoryInv'
  <2>1. CASE Record(p)
    BY <2>1, RecordHistory
  <2>2. CASE Observe(p)
    BY <1>1, <2>2, ObserveTimed
  <2>3. sightings \subseteq 1 .. clock
    BY DEF HistoryInv
  <2>4. CASE \E q \in Calls : Begin(p, q)
    BY <1>1, <2>3, <2>4, BeginTimed
  <2>5. CASE Core(p)
    BY <1>1, <2>3, <2>5, CoreTimed
  <2>6. CASE Prepare(p) \/ Materialize(p) \/ Answer(p) \/ Die(p)
    BY <1>1, <2>3, <2>6, QuietTimed
  <2>7. QED
    BY <1>2, <2>1, <2>2, <2>4, <2>5, <2>6
<1>3. CASE UNCHANGED executionVars
  <2>1. UNCHANGED <<calls, events, recorded, clock, sightings>>
    BY <1>3 DEF executionVars
  <2>2. \A q \in Processes : calls'[q] # NoCall => Timed(calls[q])'
    BY <2>1 DEF HistoryInv, Timed, HasWritten
  <2>3. sightings' \subseteq 1 .. clock
    BY <2>1 DEF HistoryInv
  <2>4. QED
    BY <1>1, <2>1, <2>2, <2>3
<1>4. QED
  BY <1>2, <1>3, PrepareActivityHistory, TickHistory DEF ExecutionNext

(* The history is a finite subset of what was recorded: no two events have *)
(* one sequence number, none is of a later time than the clock, a call's   *)
(* times are in its past, and what was pruned is what the caps and the     *)
(* retention let go (activity::schema).                                    *)
THEOREM ExecutionHistory == ExecutionSpec => [](ExecutionInv /\ HistoryInv)
<1>1. ExecutionInit => ExecutionInv /\ HistoryInv
  BY InitExecutionInv, InitHistory
<1>2. ExecutionInv /\ HistoryInv /\ [ExecutionNext]_executionVars => (ExecutionInv /\ HistoryInv)'
  BY StepExecutionInv, StepHistory
<1>3. QED
  BY <1>1, <1>2, PTL DEF ExecutionSpec

(* The history is the newest of what was recorded, in each category, for   *)
(* every limit and every order in which calls begin and record: what is    *)
(* gone was a read past its retention, or no later than all that is kept,  *)
(* and then the category is full (activity::schema::prune).                *)
THEOREM ExecutionKeepsNewest == ExecutionSpec => []KeepsNewest
<1>1. HistoryInv => KeepsNewest
  BY DEF HistoryInv
<1>2. QED
  BY <1>1, ExecutionHistory, PTL

(* A receipt, an event and a location are of the form their consumers      *)
(* expect (src/operation.rs, src/activity/model.rs, src/repository.rs).    *)
THEOREM ExecutionTyped == ExecutionSpec => []ExecutionTypeOK
<1>1. ASSUME StoreInv, ExecutionInv, HistoryInv
      PROVE  ExecutionTypeOK
  <2>1. TypeOK /\ calls \in [Processes -> Receipts \cup {NoCall}]
    BY <1>1 DEF StoreInv, ExecutionInv
  <2>2. location \in {Never} \cup 1 .. clock
    BY <1>1 DEF ExecutionInv, SightedLatest, HistoryInv
  <2>3. events \subseteq recorded /\ \A e \in events : e.started \in 1 .. clock /\ e.ids \subseteq MemoryIds
    BY <1>1 DEF HistoryInv
  <2>4. ASSUME NEW p \in Processes, calls[p] # NoCall
        PROVE  Cardinality(calls[p].ids) = IF calls[p].status \in {"committed", "replayed"} THEN 1 ELSE 0
    <3>1. CASE HasWritten(calls[p])
      <4>1. PICK x \in effects : calls[p].ids = {x.id}
        BY <1>1, <2>4, <3>1 DEF ExecutionInv, CallInv, CallOK, HasWritten
      <4>2. QED
        BY <3>1, <4>1, FS_Singleton DEF HasWritten
    <3>2. CASE ~HasWritten(calls[p])
      <4>1. calls[p].ids = {}
        BY <1>1, <2>4, <3>2 DEF HistoryInv, Timed
      <4>2. QED
        BY <3>2, <4>1, FS_EmptySet DEF HasWritten
    <3>3. QED
      BY <3>1, <3>2
  <2>5. QED
    BY <2>1, <2>2, <2>3, <2>4 DEF ExecutionTypeOK
<1>2. StoreInv /\ ExecutionInv /\ HistoryInv => ExecutionTypeOK
  BY <1>1
<1>3. ExecutionSpec => [](StoreInv /\ ExecutionInv)
  BY ExecutionStore, PTL
<1>4. QED
  BY <1>2, <1>3, ExecutionHistory, PTL
=============================================================================
