----------------------------- MODULE MemoryStore -----------------------------
(***************************************************************************)
(* The tables of a memocap database and the transactions that change them. *)
(* Every action is one committed IMMEDIATE transaction (or one autocommit  *)
(* statement) of src/store.rs, src/store/domains.rs or                     *)
(* src/store/transfers/operations.rs.  A call that fails rolls its         *)
(* transaction back, and a replay commits one that wrote nothing: both     *)
(* leave every table alone and are stuttering steps here.                  *)
(*                                                                         *)
(* Abstractions: a text stands for content, kind, tags, topic and          *)
(* timestamps together (they are written together and the properties only  *)
(* ask whether a record was rewritten); the order of an attachment is left *)
(* to DomainAttachments, here only membership counts; a fingerprint is the *)
(* request it is the SHA-256 of.                                           *)
(***************************************************************************)
EXTENDS Naturals, FiniteSets

CONSTANTS
  Repositories,  \* repository identities
  Domains,       \* domain identities
  Texts,         \* what a memory record says
  Similar,       \* <<new, stored>>: the query built from new matches stored
  Keys,          \* operation identities a caller may supply
  Names,         \* repository display names
  Remotes,       \* normalized remotes
  NoRemote,      \* a descriptor without one
  NoDescriptor,  \* a request that carries no descriptor
  NoId,          \* the identity part of the universal placement
  MaxId          \* bound: the largest rowid the model inserts

ASSUME MaxIdAssumption == MaxId \in Nat
ASSUME SimilarAssumption == Similar \subseteq Texts \X Texts
ASSUME NoRemoteAssumption == NoRemote \notin Remotes

VARIABLES
  domains,     \* table domains
  attached,    \* table repository_domain_attachments, without positions
  memories,    \* table memories: rowid -> record
  provenance,  \* table memory_provenance: rowid -> first transfer
  ledger,      \* table operation_ledger: operation identity -> entry
  identities   \* table repository_identities

storeVars == <<domains, attached, memories, provenance, ledger, identities>>

-----------------------------------------------------------------------------
(* Placements, records and requests.                                       *)

MemoryIds == 1..MaxId

Universal == [kind |-> "universal", id |-> NoId]
RepositoryAt(r) == [kind |-> "repository", id |-> r]
DomainAt(d) == [kind |-> "domain", id |-> d]

Placements ==
  {Universal} \cup {RepositoryAt(r) : r \in Repositories}
              \cup {DomainAt(d) : d \in Domains}

Memory == [text : Texts, placement : Placements, organized : BOOLEAN]

Requests ==
  [repository : Repositories, action : {"copy", "move"}, id : MemoryIds,
   from : Placements, to : Placements]

\* An operation identity is supplied, or derived from the request.
DerivedId(q) == q
OperationIds == Keys \cup Requests

Provenance == [source : MemoryIds, from : Placements,
               action : {"copy", "move"}, op : OperationIds]
Entry == [request : Requests, result : MemoryIds]

Identity == [name : Names, remote : Remotes \cup {NoRemote}]
Descriptors == Identity \cup {NoDescriptor}

-----------------------------------------------------------------------------
(* Tables: functions from the keys present to rows.                        *)

IsTable(t, K, R) ==
  /\ t = [k \in DOMAIN t |-> t[k]]
  /\ DOMAIN t \subseteq K
  /\ \A k \in DOMAIN t : t[k] \in R

EmptyTable == [k \in {} |-> NoId]
Put(t, key, row) == [k \in DOMAIN t \cup {key} |-> IF k = key THEN row ELSE t[k]]
Drop(t, key) == [k \in DOMAIN t \ {key} |-> t[k]]

Live == DOMAIN memories

\* id INTEGER PRIMARY KEY without AUTOINCREMENT: one more than the largest
\* rowid present, so the identity of a deleted newest record is used again.
Fresh(id) ==
  /\ id \in MemoryIds \ Live
  /\ \A i \in Live : i < id
  /\ id = 1 \/ id - 1 \in Live

\* WHERE id = ? AND placement_kind = ? AND repository_id IS ? AND domain_id IS ?
AtPlacement(id, p) == id \in Live /\ memories[id].placement = p

\* memories.domain_id REFERENCES domains(domain_id)
DomainKnown(p) == p.kind = "domain" => p.id \in domains

-----------------------------------------------------------------------------
Init ==
  /\ domains = {}
  /\ attached = [r \in Repositories |-> {}]
  /\ memories = EmptyTable
  /\ provenance = EmptyTable
  /\ ledger = EmptyTable
  /\ identities = EmptyTable

\* Fault: an absent descriptor recorded as if it were one.
RecordAbsentIdentity(p, descriptor) ==
  identities' =
    IF p.kind # "repository" \/ p.id \in DOMAIN identities THEN identities
    ELSE Put(identities, p.id, descriptor)

\* Fault: coalesce with its arguments swapped.
RecordLatestRemote(p, descriptor) ==
  identities' =
    IF p.kind # "repository" \/ descriptor = NoDescriptor THEN identities
    ELSE IF p.id \notin DOMAIN identities THEN Put(identities, p.id, descriptor)
    ELSE [identities EXCEPT ![p.id].remote =
            IF descriptor.remote # NoRemote THEN descriptor.remote ELSE @]

\* repository::record_identity: the first name stays, an absent remote is
\* filled in once (coalesce).
RecordIdentity(p, descriptor) ==
  identities' =
    IF p.kind # "repository" \/ descriptor = NoDescriptor THEN identities
    ELSE IF p.id \notin DOMAIN identities THEN Put(identities, p.id, descriptor)
    ELSE IF identities[p.id].remote # NoRemote THEN identities
    ELSE [identities EXCEPT ![p.id].remote = descriptor.remote]

SimilarAt(p, text) ==
  {i \in Live : AtPlacement(i, p) /\ <<text, memories[i].text>> \in Similar}

\* Fault: foreign keys are not enforced.
InsertUnchecked(p, text) ==
  \E id \in MemoryIds :
    /\ Fresh(id)
    /\ memories' = Put(memories, id,
         [text |-> text, placement |-> p, organized |-> FALSE])

\* INSERT INTO memories of store::remember_in_transaction.
InsertMemory(p, text) ==
  /\ DomainKnown(p)
  /\ \E id \in MemoryIds :
       /\ Fresh(id)
       /\ memories' = Put(memories, id,
            [text |-> text, placement |-> p, organized |-> FALSE])

\* store::remember_with_descriptor without overwrite_id.
Remember(p, text, force, descriptor) ==
  /\ force \/ SimilarAt(p, text) = {}
  /\ InsertMemory(p, text)
  /\ RecordIdentity(p, descriptor)
  /\ UNCHANGED <<domains, attached, provenance, ledger>>

\* store::remember_with_descriptor with overwrite_id: the row keeps its
\* placement, its provenance and its organized_at.
Overwrite(p, id, text, descriptor) ==
  /\ AtPlacement(id, p)
  /\ memories' = [memories EXCEPT ![id].text = text]
  /\ RecordIdentity(p, descriptor)
  /\ UNCHANGED <<domains, attached, provenance, ledger>>

\* Fault: the cascade to memory_provenance is missing.
ForgetRecordOnly(p, id) ==
  /\ AtPlacement(id, p)
  /\ memories' = Drop(memories, id)
  /\ UNCHANGED <<domains, attached, provenance, ledger, identities>>

\* store::forget_at, with ON DELETE CASCADE of memory_provenance.
ForgetAt(p, id) ==
  /\ AtPlacement(id, p)
  /\ memories' = Drop(memories, id)
  /\ provenance' = Drop(provenance, id)
  /\ UNCHANGED <<domains, attached, ledger, identities>>

CreateDomain(d) ==
  /\ d \notin domains
  /\ domains' = domains \cup {d}
  /\ UNCHANGED <<attached, memories, provenance, ledger, identities>>

AttachDomain(r, d) ==
  /\ d \in domains
  /\ d \notin attached[r]
  /\ attached' = [attached EXCEPT ![r] = @ \cup {d}]
  /\ UNCHANGED <<domains, memories, provenance, ledger, identities>>

DetachDomain(r, d) ==
  /\ d \in domains
  /\ d \in attached[r]
  /\ attached' = [attached EXCEPT ![r] = @ \ {d}]
  /\ UNCHANGED <<domains, memories, provenance, ledger, identities>>

\* Fault: only the attachments are counted.
Unattached(d) == \A r \in Repositories : d \notin attached[r]

\* The two counts of store::delete_domain.
Unused(d) ==
  /\ \A r \in Repositories : d \notin attached[r]
  /\ \A i \in Live : memories[i].placement # DomainAt(d)

DeleteDomain(d) ==
  /\ d \in domains
  /\ Unused(d)
  /\ domains' = domains \ {d}
  /\ UNCHANGED <<attached, memories, provenance, ledger, identities>>

\* transfers::operations::validate_placement.
ValidPlacement(r, p) ==
  CASE p.kind = "repository" -> p.id = r
    [] p.kind = "domain"     -> p.id \in domains /\ p.id \in attached[r]
    [] p.kind = "universal"  -> TRUE

\* copy_memory: INSERT ... SELECT leaves organized_at NULL.
CopyMemory(q, id) ==
  /\ Fresh(id)
  /\ memories' = Put(memories, id,
       [text |-> memories[q.id].text, placement |-> q.to, organized |-> FALSE])

\* Fault: a move that leaves its source in place.
MoveByCopy(q, id) == CopyMemory(q, id)

\* move_memory: only the placement columns change.
MoveMemory(q, id) ==
  /\ id = q.id
  /\ memories' = [memories EXCEPT ![id].placement = q.to]

\* Fault: the new row recorded as its own source.
RecordOwnProvenance(op, q, id) ==
  provenance' =
    IF id \in DOMAIN provenance THEN provenance
    ELSE Put(provenance, id, [source |-> id, from |-> q.to,
                              action |-> q.action, op |-> op])

\* Fault: an upsert instead of DO NOTHING.
RecordLatestProvenance(op, q, id) ==
  provenance' = Put(provenance, id, [source |-> q.id, from |-> q.from,
                                     action |-> q.action, op |-> op])

\* record_provenance: ON CONFLICT(memory_id) DO NOTHING.
RecordProvenance(op, q, id) ==
  provenance' =
    IF id \in DOMAIN provenance THEN provenance
    ELSE Put(provenance, id, [source |-> q.id, from |-> q.from,
                              action |-> q.action, op |-> op])

\* replay_result finds no row of this operation identity.
NotCommitted(op) == op \notin DOMAIN ledger

\* transfers::operations::copy_move_observed, when it commits a mutation.
CopyMove(op, q, descriptor) ==
  /\ NotCommitted(op)
  /\ q.from # q.to
  /\ ValidPlacement(q.repository, q.from)
  /\ ValidPlacement(q.repository, q.to)
  /\ AtPlacement(q.id, q.from)
  /\ \E id \in MemoryIds :
       /\ IF q.action = "copy" THEN CopyMemory(q, id) ELSE MoveMemory(q, id)
       /\ RecordProvenance(op, q, id)
       /\ ledger' = Put(ledger, op, [request |-> q, result |-> id])
  /\ RecordIdentity(q.to, descriptor)
  /\ UNCHANGED <<domains, attached>>

-----------------------------------------------------------------------------
Next ==
  \/ \E p \in Placements, text \in Texts, force \in BOOLEAN, descriptor \in Descriptors :
       Remember(p, text, force, descriptor)
  \/ \E p \in Placements, id \in MemoryIds, text \in Texts, descriptor \in Descriptors :
       Overwrite(p, id, text, descriptor)
  \/ \E p \in Placements, id \in MemoryIds : ForgetAt(p, id)
  \/ \E d \in Domains : CreateDomain(d)
  \/ \E r \in Repositories, d \in Domains : AttachDomain(r, d)
  \/ \E r \in Repositories, d \in Domains : DetachDomain(r, d)
  \/ \E d \in Domains : DeleteDomain(d)
  \/ \E q \in Requests, descriptor \in Descriptors :
       \E op \in Keys \cup {DerivedId(q)} : CopyMove(op, q, descriptor)

Spec == Init /\ [][Next]_storeVars
-----------------------------------------------------------------------------
(* Every table holds rows of its schema: keys, columns and CHECKs of       *)
(* src/store/schema/baseline.rs.                                           *)
TypeOK ==
  /\ domains \subseteq Domains
  /\ attached \in [Repositories -> SUBSET Domains]
  /\ IsTable(memories, MemoryIds, Memory)
  /\ IsTable(provenance, MemoryIds, Provenance)
  /\ IsTable(ledger, OperationIds, Entry)
  /\ IsTable(identities, Repositories, Identity)

(* Records and attachments only name existing domains and provenance only  *)
(* names live records, whatever order domains are created, attached,       *)
(* written, detached and deleted in.                                       *)
ReferentialIntegrity ==
  /\ \A i \in Live : DomainKnown(memories[i].placement)
  /\ \A r \in Repositories : attached[r] \subseteq domains
  /\ DOMAIN provenance \subseteq Live

(* The provenance of a live record is that of a committed transfer: the    *)
(* ledger holds the operation it names, with this record as its result and *)
(* the same source.  This survives rowid reuse only because forgetting a   *)
(* record drops its provenance in the same transaction.                    *)
ProvenanceLedgered ==
  \A i \in DOMAIN provenance :
    LET p == provenance[i] IN
    /\ p.op \in DOMAIN ledger
    /\ ledger[p.op].result = i
    /\ ledger[p.op].request.id = p.source
    /\ ledger[p.op].request.from = p.from
    /\ ledger[p.op].request.action = p.action

(* An entry of the operation ledger is never rewritten or removed, so a    *)
(* later request with its identity replays or conflicts.                   *)
LedgerDurable ==
  [][\A op \in DOMAIN ledger : op \in DOMAIN ledger' /\ ledger'[op] = ledger[op]]_storeVars

(* First-transfer provenance is immutable while its record lives.          *)
ProvenanceImmutable ==
  [][\A i \in DOMAIN provenance \cap DOMAIN memories' :
       i \in DOMAIN provenance' /\ provenance'[i] = provenance[i]]_storeVars

(* A record that takes over the rowid of a forgotten one starts without    *)
(* its history: the provenance it has, if any, is that of the transfer     *)
(* that inserted it.                                                       *)
HistoryStartsFresh ==
  [][\A i \in DOMAIN memories' \ DOMAIN memories :
       i \in DOMAIN provenance' => provenance'[i].op \notin DOMAIN ledger]_storeVars

(* What one committed transfer does to the record tables: the ledger entry,*)
(* the provenance and the copied or moved row appear together, a copy      *)
(* leaves its source as it was and does not inherit its review mark, a     *)
(* move keeps everything but the placement.                                *)
TransferEffect(e) ==
  LET q == e.request IN
  /\ e.result \in DOMAIN provenance'
  /\ memories'[e.result] =
       [text |-> memories[q.id].text, placement |-> q.to,
        organized |-> memories[q.id].organized /\ q.action = "move"]
  /\ IF q.action = "copy" THEN e.result \notin Live ELSE e.result = q.id
  /\ DOMAIN memories' = Live \cup {e.result}
  /\ \A i \in Live \ {e.result} : memories'[i] = memories[i]

(* A record changes placement only in the transaction that commits one new *)
(* ledger entry, and that transaction does all of what the entry says.     *)
Committed == DOMAIN ledger' \ DOMAIN ledger

CommitsWhole ==
  /\ \A op \in Committed : Committed = {op} /\ TransferEffect(ledger'[op])
  /\ (\E i \in Live \cap DOMAIN memories' :
        memories'[i].placement # memories[i].placement) => Committed # {}

(* Transfers commit whole: see CommitsWhole.                               *)
TransferAtomic == [][CommitsWhole]_storeVars

(* The first recorded name of a repository stays, a known remote is never  *)
(* replaced or lost, and a repository is first described in a transaction  *)
(* that leaves a record at its placement.                                  *)
IdentityStable ==
  [][/\ \A r \in DOMAIN identities :
          /\ r \in DOMAIN identities'
          /\ identities'[r].name = identities[r].name
          /\ identities[r].remote # NoRemote => identities'[r] = identities[r]
     /\ \A r \in DOMAIN identities' \ DOMAIN identities :
          \E i \in DOMAIN memories' : memories'[i].placement = RepositoryAt(r)]_storeVars
=============================================================================
