-------------------------- MODULE MemoryStoreProofs --------------------------
(***************************************************************************)
(* Proofs that the transactions of MemoryStore keep its tables well typed, *)
(* referentially intact and in agreement with the operation ledger, for    *)
(* every set of repositories, domains, texts and keys and every MaxId.     *)
(***************************************************************************)
EXTENDS MemoryStore, TLAPS

(* What Put and Drop do to a table, used instead of their definitions.     *)
LEMMA PutTable ==
  ASSUME NEW K, NEW R, NEW t, IsTable(t, K, R), NEW key \in K, NEW row \in R
  PROVE  /\ IsTable(Put(t, key, row), K, R)
         /\ DOMAIN Put(t, key, row) = DOMAIN t \cup {key}
         /\ Put(t, key, row)[key] = row
         /\ \A k \in DOMAIN t \ {key} : Put(t, key, row)[k] = t[k]
  BY DEF IsTable, Put

LEMMA DropTable ==
  ASSUME NEW K, NEW R, NEW t, IsTable(t, K, R), NEW key
  PROVE  /\ IsTable(Drop(t, key), K, R)
         /\ DOMAIN Drop(t, key) = DOMAIN t \ {key}
         /\ \A k \in DOMAIN t \ {key} : Drop(t, key)[k] = t[k]
  BY DEF IsTable, Drop

LEMMA ExceptTable ==
  ASSUME NEW K, NEW R, NEW t, IsTable(t, K, R), NEW key \in DOMAIN t, NEW row \in R
  PROVE  /\ IsTable([t EXCEPT ![key] = row], K, R)
         /\ DOMAIN [t EXCEPT ![key] = row] = DOMAIN t
         /\ [t EXCEPT ![key] = row][key] = row
         /\ \A k \in DOMAIN t \ {key} : [t EXCEPT ![key] = row][k] = t[k]
  BY DEF IsTable

LEMMA EmptyIsTable ==
  ASSUME NEW K, NEW R
  PROVE  IsTable(EmptyTable, K, R) /\ DOMAIN EmptyTable = {}
  BY DEF IsTable, EmptyTable

(* The conjunction that is inductive: the facts about records, provenance  *)
(* and ledger need each other.                                             *)
StoreInv == TypeOK /\ ReferentialIntegrity /\ ProvenanceLedgered

LEMMA InitStoreInv == Init => StoreInv
  <1> SUFFICES ASSUME Init PROVE StoreInv
    OBVIOUS
  <1>1. TypeOK
    BY EmptyIsTable DEF Init, TypeOK
  <1>2. DOMAIN memories = {} /\ DOMAIN provenance = {} /\ DOMAIN ledger = {}
    BY EmptyIsTable DEF Init
  <1> QED
    BY <1>1, <1>2 DEF Init, StoreInv, ReferentialIntegrity, ProvenanceLedgered,
                      Live
-----------------------------------------------------------------------------
(* Every action keeps the type invariant.                                  *)

LEMMA PlacementKinds ==
  ASSUME NEW p \in Placements
  PROVE  /\ p.kind \in {"universal", "repository", "domain"}
         /\ p.kind = "repository" => p.id \in Repositories /\ p = RepositoryAt(p.id)
         /\ p.kind = "domain" => p.id \in Domains /\ p = DomainAt(p.id)
  BY DEF Placements, Universal, RepositoryAt, DomainAt

LEMMA RecordIdentityType ==
  ASSUME TypeOK, NEW p \in Placements, NEW descriptor \in Descriptors,
         RecordIdentity(p, descriptor)
  PROVE  IsTable(identities, Repositories, Identity)'
  <1>1. CASE p.kind # "repository" \/ descriptor = NoDescriptor
    BY <1>1 DEF RecordIdentity, TypeOK, IsTable
  <1>2. CASE ~(p.kind # "repository" \/ descriptor = NoDescriptor)
    <2>1. p.id \in Repositories /\ descriptor \in Identity
      BY <1>2, PlacementKinds DEF Descriptors
    <2>2. CASE p.id \notin DOMAIN identities
      <3>1. identities' = Put(identities, p.id, descriptor)
        BY <1>2, <2>2 DEF RecordIdentity
      <3> QED
        BY <2>1, <3>1, PutTable DEF TypeOK
    <2>3. CASE p.id \in DOMAIN identities /\ identities[p.id].remote = NoRemote
      <3> DEFINE row == [identities[p.id] EXCEPT !.remote = descriptor.remote]
      <3>1. identities' = [identities EXCEPT ![p.id] = row]
        BY <1>2, <2>3 DEF RecordIdentity
      <3>2. row \in Identity
        BY <2>1, <2>3 DEF TypeOK, IsTable, Identity
      <3>3. IsTable(identities, Repositories, Identity)
        BY DEF TypeOK
      <3> HIDE DEF row
      <3>4. IsTable([identities EXCEPT ![p.id] = row], Repositories, Identity)
        BY <2>3, <3>2, <3>3, ExceptTable
      <3> QED
        BY <3>1, <3>4
    <2>4. CASE p.id \in DOMAIN identities /\ identities[p.id].remote # NoRemote
      BY <1>2, <2>4 DEF RecordIdentity, TypeOK, IsTable
    <2> QED
      BY <2>2, <2>3, <2>4
  <1> QED
    BY <1>1, <1>2

LEMMA RememberType ==
  ASSUME TypeOK, NEW p \in Placements, NEW text \in Texts, NEW force \in BOOLEAN,
         NEW descriptor \in Descriptors, Remember(p, text, force, descriptor)
  PROVE  TypeOK'
  <1>1. PICK id \in MemoryIds :
          memories' = Put(memories, id,
                        [text |-> text, placement |-> p, organized |-> FALSE])
    BY DEF Remember, InsertMemory
  <1>2. [text |-> text, placement |-> p, organized |-> FALSE] \in Memory
    BY DEF Memory
  <1>3. IsTable(memories, MemoryIds, Memory)'
    BY <1>1, <1>2, PutTable DEF TypeOK
  <1>4. IsTable(identities, Repositories, Identity)'
    BY RecordIdentityType DEF Remember, InsertMemory
  <1> QED
    BY <1>3, <1>4 DEF Remember, InsertMemory, TypeOK

LEMMA OverwriteType ==
  ASSUME TypeOK, NEW p \in Placements, NEW id \in MemoryIds, NEW text \in Texts,
         NEW descriptor \in Descriptors, Overwrite(p, id, text, descriptor)
  PROVE  TypeOK'
  <1> DEFINE row == [memories[id] EXCEPT !.text = text]
  <1>1. memories' = [memories EXCEPT ![id] = row] /\ id \in DOMAIN memories
    BY DEF Overwrite, AtPlacement, Live
  <1>2. row \in Memory
    BY <1>1 DEF TypeOK, IsTable, Memory
  <1>3. IsTable(memories, MemoryIds, Memory)'
    BY <1>1, <1>2, ExceptTable DEF TypeOK
  <1>4. IsTable(identities, Repositories, Identity)'
    BY RecordIdentityType DEF Overwrite
  <1> QED
    BY <1>3, <1>4 DEF Overwrite, TypeOK

LEMMA ForgetAtType ==
  ASSUME TypeOK, NEW p \in Placements, NEW id \in MemoryIds, ForgetAt(p, id)
  PROVE  TypeOK'
  BY DropTable DEF ForgetAt, TypeOK

DomainStep(d) ==
  \/ CreateDomain(d) \/ DeleteDomain(d)
  \/ \E r \in Repositories : AttachDomain(r, d) \/ DetachDomain(r, d)

LEMMA DomainType ==
  ASSUME TypeOK, NEW d \in Domains, DomainStep(d)
  PROVE  TypeOK'
  <1>1. domains' \subseteq Domains /\ attached' \in [Repositories -> SUBSET Domains]
    BY DEF DomainStep, CreateDomain, AttachDomain, DetachDomain, DeleteDomain, TypeOK
  <1>2. UNCHANGED <<memories, provenance, ledger, identities>>
    BY DEF DomainStep, CreateDomain, AttachDomain, DetachDomain, DeleteDomain
  <1> QED
    BY <1>1, <1>2 DEF TypeOK
(* One committed transfer, told by its effect on the three record tables.  *)
TransferStep(op, q, id) ==
  /\ op \notin DOMAIN ledger
  /\ q.id \in Live /\ memories[q.id].placement = q.from
  /\ DOMAIN memories' = Live \cup {id}
  /\ memories'[id] = [text |-> memories[q.id].text, placement |-> q.to,
                      organized |-> memories[q.id].organized /\ q.action = "move"]
  /\ \A i \in Live \ {id} : memories'[i] = memories[i]
  /\ IF q.action = "copy" THEN id \notin Live ELSE id = q.id
  /\ DOMAIN provenance' = DOMAIN provenance \cup {id}
  /\ id \notin DOMAIN provenance => provenance'[id] =
       [source |-> q.id, from |-> q.from, action |-> q.action, op |-> op]
  /\ \A i \in DOMAIN provenance : provenance'[i] = provenance[i]
  /\ DOMAIN ledger' = DOMAIN ledger \cup {op}
  /\ ledger'[op] = [request |-> q, result |-> id]
  /\ \A o \in DOMAIN ledger : ledger'[o] = ledger[o]

LEMMA CopyMoveEffect ==
  ASSUME TypeOK, NEW q \in Requests, NEW op \in OperationIds,
         NEW descriptor \in Descriptors, CopyMove(op, q, descriptor)
  PROVE  TypeOK' /\ \E id \in MemoryIds : TransferStep(op, q, id)
  <1>1. PICK id \in MemoryIds :
          /\ IF q.action = "copy" THEN CopyMemory(q, id) ELSE MoveMemory(q, id)
          /\ RecordProvenance(op, q, id)
          /\ ledger' = Put(ledger, op, [request |-> q, result |-> id])
    BY DEF CopyMove
  <1>2. /\ q.id \in MemoryIds /\ q.from \in Placements /\ q.to \in Placements
        /\ q.action \in {"copy", "move"}
    BY DEF Requests
  <1>4. q.id \in Live /\ memories[q.id].placement = q.from /\ op \notin DOMAIN ledger
    BY DEF CopyMove, AtPlacement, NotCommitted
  <1>5. memories[q.id] \in Memory
    BY <1>4 DEF TypeOK, IsTable, Live
  <1> DEFINE entry == [request |-> q, result |-> id]
             history == [source |-> q.id, from |-> q.from, action |-> q.action, op |-> op]
             row == [text |-> memories[q.id].text, placement |-> q.to,
                     organized |-> memories[q.id].organized /\ q.action = "move"]
  <1>6. /\ IsTable(ledger, OperationIds, Entry)'
        /\ DOMAIN ledger' = DOMAIN ledger \cup {op}
        /\ ledger'[op] = entry
        /\ \A o \in DOMAIN ledger : ledger'[o] = ledger[o]
    <2>1. entry \in Entry
      BY DEF Entry
    <2> HIDE DEF entry
    <2>2. ledger' = Put(ledger, op, entry)
      BY <1>1 DEF entry
    <2>3. IsTable(ledger, OperationIds, Entry)
      BY DEF TypeOK
    <2>4. /\ IsTable(Put(ledger, op, entry), OperationIds, Entry)
          /\ DOMAIN Put(ledger, op, entry) = DOMAIN ledger \cup {op}
          /\ Put(ledger, op, entry)[op] = entry
          /\ \A o \in DOMAIN ledger \ {op} : Put(ledger, op, entry)[o] = ledger[o]
      BY <2>1, <2>3 DEF Put, IsTable
    <2> QED
      BY <1>4, <2>2, <2>4
  <1>7. /\ IsTable(provenance, MemoryIds, Provenance)'
        /\ DOMAIN provenance' = DOMAIN provenance \cup {id}
        /\ id \notin DOMAIN provenance => provenance'[id] = history
        /\ \A i \in DOMAIN provenance : provenance'[i] = provenance[i]
    <2>1. history \in Provenance
      BY <1>2 DEF Provenance
    <2> HIDE DEF history
    <2>2. provenance' = IF id \in DOMAIN provenance THEN provenance
                        ELSE Put(provenance, id, history)
      BY <1>1 DEF RecordProvenance, history
    <2>3. CASE id \in DOMAIN provenance
      BY <2>2, <2>3 DEF TypeOK, IsTable
    <2>4. CASE id \notin DOMAIN provenance
      <3>1. IsTable(provenance, MemoryIds, Provenance)
        BY DEF TypeOK
      <3>2. /\ IsTable(Put(provenance, id, history), MemoryIds, Provenance)
            /\ DOMAIN Put(provenance, id, history) = DOMAIN provenance \cup {id}
            /\ Put(provenance, id, history)[id] = history
            /\ \A i \in DOMAIN provenance \ {id} :
                 Put(provenance, id, history)[i] = provenance[i]
        BY <2>1, <3>1, PutTable
      <3> QED
        BY <2>2, <2>4, <3>2
    <2> QED
      BY <2>3, <2>4
  <1>7a. IsTable(memories, MemoryIds, Memory)
    BY DEF TypeOK
  <1>8. /\ IsTable(memories, MemoryIds, Memory)'
        /\ DOMAIN memories' = Live \cup {id}
        /\ memories'[id] = row
        /\ \A i \in Live \ {id} : memories'[i] = memories[i]
        /\ IF q.action = "copy" THEN id \notin Live ELSE id = q.id
    <2>1. row \in Memory
      BY <1>2, <1>5 DEF Memory
    <2>2. CASE q.action = "copy"
      <3>1. Fresh(id) /\ memories' = Put(memories, id, row)
        BY <1>1, <2>2 DEF CopyMemory
      <3> HIDE DEF row
      <3>2. id \notin Live
        BY <3>1 DEF Fresh
      <3>3. /\ IsTable(Put(memories, id, row), MemoryIds, Memory)
            /\ DOMAIN Put(memories, id, row) = DOMAIN memories \cup {id}
            /\ Put(memories, id, row)[id] = row
            /\ \A i \in DOMAIN memories \ {id} : Put(memories, id, row)[i] = memories[i]
        BY <2>1, <1>7a DEF Put, IsTable
      <3> QED
        BY <2>2, <3>1, <3>2, <3>3 DEF Live
    <2>3. CASE q.action = "move"
      <3>1. id = q.id /\ memories' = [memories EXCEPT ![id].placement = q.to]
        BY <1>1, <2>3 DEF MoveMemory
      <3>2. [memories[id] EXCEPT !.placement = q.to] = row
        BY <1>5, <2>3, <3>1 DEF Memory
      <3>3. memories' = [memories EXCEPT ![id] = row]
        BY <3>1, <3>2
      <3> HIDE DEF row
      <3>4. id \in DOMAIN memories
        BY <1>4, <3>1 DEF Live
      <3>5. /\ IsTable([memories EXCEPT ![id] = row], MemoryIds, Memory)
            /\ DOMAIN [memories EXCEPT ![id] = row] = DOMAIN memories
            /\ [memories EXCEPT ![id] = row][id] = row
            /\ \A i \in DOMAIN memories \ {id} : [memories EXCEPT ![id] = row][i] = memories[i]
        BY <2>1, <1>7a, <3>4, ExceptTable
      <3> QED
        BY <2>3, <3>1, <3>3, <3>4, <3>5 DEF Live
    <2> QED
      BY <1>2, <2>2, <2>3
  <1>9. IsTable(identities, Repositories, Identity)'
    BY <1>2, RecordIdentityType DEF CopyMove
  <1>10. TypeOK'
    BY <1>6, <1>7, <1>8, <1>9 DEF TypeOK, CopyMove
  <1>11. TransferStep(op, q, id)
    BY <1>4, <1>6, <1>7, <1>8 DEF TransferStep
  <1> QED
    BY <1>10, <1>11
-----------------------------------------------------------------------------
(* Every action keeps the invariant.                                       *)

LEMMA RememberInv ==
  ASSUME StoreInv, NEW p \in Placements, NEW text \in Texts, NEW force \in BOOLEAN,
         NEW descriptor \in Descriptors, Remember(p, text, force, descriptor)
  PROVE  StoreInv'
  <1>1. TypeOK'
    BY RememberType DEF StoreInv
  <1> DEFINE row == [text |-> text, placement |-> p, organized |-> FALSE]
  <1>2. PICK id \in MemoryIds : Fresh(id) /\ memories' = Put(memories, id, row)
    BY DEF Remember, InsertMemory
  <1>3. /\ DOMAIN memories' = Live \cup {id}
        /\ memories'[id].placement = p
        /\ \A i \in Live \ {id} : memories'[i] = memories[i]
    BY <1>2 DEF Put, Live
  <1>4. DomainKnown(p) /\ UNCHANGED <<domains, attached, provenance, ledger>>
    BY DEF Remember, InsertMemory
  <1>5. ReferentialIntegrity'
    BY <1>3, <1>4 DEF StoreInv, ReferentialIntegrity, DomainKnown, Live
  <1>6. ProvenanceLedgered'
    BY <1>4 DEF StoreInv, ProvenanceLedgered
  <1> QED
    BY <1>1, <1>5, <1>6 DEF StoreInv

LEMMA OverwriteInv ==
  ASSUME StoreInv, NEW p \in Placements, NEW id \in MemoryIds, NEW text \in Texts,
         NEW descriptor \in Descriptors, Overwrite(p, id, text, descriptor)
  PROVE  StoreInv'
  <1>1. TypeOK'
    BY OverwriteType DEF StoreInv
  <1>2. /\ id \in DOMAIN memories
        /\ memories' = [memories EXCEPT ![id].text = text]
        /\ UNCHANGED <<domains, attached, provenance, ledger>>
    BY DEF Overwrite, AtPlacement, Live
  <1>3. memories[id] \in Memory
    BY <1>2 DEF StoreInv, TypeOK, IsTable
  <1>4. /\ DOMAIN memories' = DOMAIN memories
        /\ \A i \in DOMAIN memories : memories'[i].placement = memories[i].placement
    BY <1>2, <1>3 DEF Memory
  <1>5. ReferentialIntegrity'
    BY <1>2, <1>4 DEF StoreInv, ReferentialIntegrity, DomainKnown, Live
  <1>6. ProvenanceLedgered'
    BY <1>2 DEF StoreInv, ProvenanceLedgered
  <1> QED
    BY <1>1, <1>5, <1>6 DEF StoreInv

LEMMA ForgetAtInv ==
  ASSUME StoreInv, NEW p \in Placements, NEW id \in MemoryIds, ForgetAt(p, id)
  PROVE  StoreInv'
  <1>1. TypeOK'
    BY ForgetAtType DEF StoreInv
  <1>2. /\ DOMAIN memories' = DOMAIN memories \ {id}
        /\ \A i \in DOMAIN memories' : memories'[i] = memories[i]
        /\ DOMAIN provenance' = DOMAIN provenance \ {id}
        /\ \A i \in DOMAIN provenance' : provenance'[i] = provenance[i]
    BY DEF ForgetAt, Drop
  <1>3. UNCHANGED <<domains, attached, ledger>>
    BY DEF ForgetAt
  <1>4. ReferentialIntegrity'
    BY <1>2, <1>3 DEF StoreInv, ReferentialIntegrity, DomainKnown, Live
  <1>5. ProvenanceLedgered'
    BY <1>2, <1>3 DEF StoreInv, ProvenanceLedgered
  <1> QED
    BY <1>1, <1>4, <1>5 DEF StoreInv

LEMMA DomainInv ==
  ASSUME StoreInv, NEW d \in Domains, DomainStep(d)
  PROVE  StoreInv'
  <1>1. TypeOK'
    BY DomainType DEF StoreInv
  <1>2. UNCHANGED <<memories, provenance, ledger>>
    BY DEF DomainStep, CreateDomain, AttachDomain, DetachDomain, DeleteDomain
  <1>3. ReferentialIntegrity'
    <2>1. CASE CreateDomain(d)
      BY <1>2, <2>1 DEF CreateDomain, StoreInv, ReferentialIntegrity, DomainKnown, Live
    <2>2. CASE \E r \in Repositories : AttachDomain(r, d)
      BY <1>2, <2>2 DEF AttachDomain, StoreInv, TypeOK, ReferentialIntegrity, DomainKnown, Live
    <2>3. CASE \E r \in Repositories : DetachDomain(r, d)
      BY <1>2, <2>3 DEF DetachDomain, StoreInv, TypeOK, ReferentialIntegrity, DomainKnown, Live
    <2>4. CASE DeleteDomain(d)
      <3>1. domains' = domains \ {d} /\ UNCHANGED attached /\ Unused(d)
        BY <2>4 DEF DeleteDomain
      <3>2. ASSUME NEW i \in Live, memories[i].placement.kind = "domain"
            PROVE  memories[i].placement.id # d
        <4>1. memories[i].placement \in Placements
          BY DEF StoreInv, TypeOK, IsTable, Memory, Live
        <4>2. memories[i].placement = DomainAt(memories[i].placement.id)
          BY <3>2, <4>1, PlacementKinds
        <4> QED
          BY <3>1, <4>2 DEF Unused
      <3>3. \A i \in Live : DomainKnown(memories[i].placement)'
        BY <1>2, <3>1, <3>2 DEF StoreInv, ReferentialIntegrity, DomainKnown
      <3>4. \A s \in Repositories : attached'[s] \subseteq domains'
        BY <3>1 DEF Unused, StoreInv, ReferentialIntegrity
      <3> QED
        BY <1>2, <3>3, <3>4 DEF StoreInv, ReferentialIntegrity, DomainKnown, Live
    <2> QED
      BY <2>1, <2>2, <2>3, <2>4 DEF DomainStep
  <1>4. ProvenanceLedgered'
    BY <1>2 DEF StoreInv, ProvenanceLedgered
  <1> QED
    BY <1>1, <1>3, <1>4 DEF StoreInv

LEMMA CopyMoveInv ==
  ASSUME StoreInv, NEW q \in Requests, NEW op \in OperationIds,
         NEW descriptor \in Descriptors, CopyMove(op, q, descriptor)
  PROVE  StoreInv'
  <1>1. TypeOK' /\ \E id \in MemoryIds : TransferStep(op, q, id)
    BY CopyMoveEffect DEF StoreInv
  <1>2. PICK id \in MemoryIds : TransferStep(op, q, id)
    BY <1>1
  <1>3. /\ ValidPlacement(q.repository, q.from)
        /\ ValidPlacement(q.repository, q.to)
        /\ UNCHANGED <<domains, attached>>
    BY DEF CopyMove
  <1>4. q.from \in Placements /\ q.to \in Placements
    BY DEF Requests
  <1>5. DomainKnown(q.to)
    BY <1>3, <1>4, PlacementKinds DEF ValidPlacement, DomainKnown
  <1>6. ReferentialIntegrity'
    <2>1. \A i \in DOMAIN memories' :
            memories'[i].placement = q.to \/ (i \in Live /\ memories'[i] = memories[i])
      <3>1. memories'[id].placement = q.to
        BY <1>2 DEF TransferStep
      <3>2. /\ DOMAIN memories' = Live \cup {id}
            /\ \A i \in Live \ {id} : memories'[i] = memories[i]
        BY <1>2 DEF TransferStep
      <3> QED
        BY <3>1, <3>2
    <2>2. DOMAIN provenance' \subseteq DOMAIN memories'
      BY <1>2 DEF TransferStep, StoreInv, ReferentialIntegrity
    <2> QED
      BY <1>3, <1>5, <2>1, <2>2 DEF StoreInv, ReferentialIntegrity, DomainKnown, Live
  <1>7. ProvenanceLedgered'
    <2> SUFFICES ASSUME NEW i \in DOMAIN provenance'
                 PROVE  /\ provenance'[i].op \in DOMAIN ledger'
                        /\ ledger'[provenance'[i].op].result = i
                        /\ ledger'[provenance'[i].op].request.id = provenance'[i].source
                        /\ ledger'[provenance'[i].op].request.from = provenance'[i].from
                        /\ ledger'[provenance'[i].op].request.action = provenance'[i].action
      BY DEF ProvenanceLedgered
    <2>1. CASE i \in DOMAIN provenance
      <3>1. /\ provenance[i].op \in DOMAIN ledger
            /\ ledger[provenance[i].op].result = i
            /\ ledger[provenance[i].op].request.id = provenance[i].source
            /\ ledger[provenance[i].op].request.from = provenance[i].from
            /\ ledger[provenance[i].op].request.action = provenance[i].action
        BY <2>1 DEF StoreInv, ProvenanceLedgered
      <3>2. /\ provenance'[i] = provenance[i]
            /\ provenance[i].op \in DOMAIN ledger'
            /\ ledger'[provenance[i].op] = ledger[provenance[i].op]
        BY <1>2, <2>1, <3>1 DEF TransferStep
      <3> QED
        BY <3>1, <3>2
    <2>2. CASE i \notin DOMAIN provenance
      BY <1>2, <2>2 DEF TransferStep
    <2> QED
      BY <2>1, <2>2
  <1> QED
    BY <1>1, <1>6, <1>7 DEF StoreInv

LEMMA StepStoreInv == StoreInv /\ [Next]_storeVars => StoreInv'
  <1> SUFFICES ASSUME StoreInv, [Next]_storeVars PROVE StoreInv'
    OBVIOUS
  <1>1. CASE \E p \in Placements, text \in Texts, force \in BOOLEAN, descriptor \in Descriptors :
               Remember(p, text, force, descriptor)
    BY <1>1, RememberInv
  <1>2. CASE \E p \in Placements, id \in MemoryIds, text \in Texts, descriptor \in Descriptors :
               Overwrite(p, id, text, descriptor)
    BY <1>2, OverwriteInv
  <1>3. CASE \E p \in Placements, id \in MemoryIds : ForgetAt(p, id)
    BY <1>3, ForgetAtInv
  <1>4. CASE \E r \in Repositories, d \in Domains :
               AttachDomain(r, d) \/ DetachDomain(r, d)
    BY <1>4, DomainInv DEF DomainStep
  <1>5. CASE \E d \in Domains : CreateDomain(d) \/ DeleteDomain(d)
    BY <1>5, DomainInv DEF DomainStep
  <1>6. CASE \E q \in Requests, descriptor \in Descriptors :
               \E op \in Keys \cup {DerivedId(q)} : CopyMove(op, q, descriptor)
    BY <1>6, CopyMoveInv DEF OperationIds, DerivedId
  <1>7. CASE UNCHANGED storeVars
    BY <1>7 DEF storeVars, StoreInv, TypeOK, IsTable, ReferentialIntegrity, ProvenanceLedgered,
                DomainKnown, Live
  <1> QED
    BY <1>1, <1>2, <1>3, <1>4, <1>5, <1>6, <1>7 DEF Next
(* The records of a reachable store are well typed.                        *)
THEOREM StoreTyped == Spec => []TypeOK
  <1>1. StoreInv => TypeOK
    BY DEF StoreInv
  <1> QED
    BY <1>1, InitStoreInv, StepStoreInv, PTL DEF Spec

(* Records and attachments name existing domains, provenance names live    *)
(* records: src/store.rs and src/store/domains.rs never leave a dangling   *)
(* reference.                                                              *)
THEOREM StoreReferences == Spec => []ReferentialIntegrity
  <1>1. StoreInv => ReferentialIntegrity
    BY DEF StoreInv
  <1> QED
    BY <1>1, InitStoreInv, StepStoreInv, PTL DEF Spec

(* The provenance of a live record is that of a transfer in the ledger.    *)
THEOREM StoreProvenance == Spec => []ProvenanceLedgered
  <1>1. StoreInv => ProvenanceLedgered
    BY DEF StoreInv
  <1> QED
    BY <1>1, InitStoreInv, StepStoreInv, PTL DEF Spec

-----------------------------------------------------------------------------
(* Action properties.  A step is a transfer, or it leaves the ledger, the  *)
(* placements and the provenance of the records that remain alone.         *)

QuietStep ==
  /\ ledger' = ledger
  /\ \A i \in Live \cap DOMAIN memories' : memories'[i].placement = memories[i].placement
  /\ DOMAIN provenance' = DOMAIN provenance \cap DOMAIN memories'
  /\ \A i \in DOMAIN provenance' : provenance'[i] = provenance[i]

LEMMA StepCases ==
  ASSUME StoreInv, [Next]_storeVars
  PROVE  \/ QuietStep
         \/ \E q \in Requests, op \in OperationIds, id \in MemoryIds : TransferStep(op, q, id)
  <1>0. /\ DOMAIN provenance \subseteq DOMAIN memories
        /\ IsTable(memories, MemoryIds, Memory)
        /\ IsTable(provenance, MemoryIds, Provenance)
    BY DEF StoreInv, TypeOK, ReferentialIntegrity, Live
  <1>1. ASSUME NEW p \in Placements, NEW text \in Texts, NEW force \in BOOLEAN,
               NEW descriptor \in Descriptors, Remember(p, text, force, descriptor)
        PROVE  QuietStep
    <2> DEFINE row == [text |-> text, placement |-> p, organized |-> FALSE]
    <2>1. PICK id \in MemoryIds : Fresh(id) /\ memories' = Put(memories, id, row)
      BY <1>1 DEF Remember, InsertMemory
    <2>2. /\ DOMAIN memories' = Live \cup {id}
          /\ \A i \in Live : memories'[i] = memories[i]
      BY <2>1 DEF Put, Live, Fresh
    <2>3. UNCHANGED <<provenance, ledger>>
      BY <1>1 DEF Remember, InsertMemory
    <2> QED
      BY <1>0, <2>2, <2>3 DEF QuietStep, Live
  <1>2. ASSUME NEW p \in Placements, NEW id \in MemoryIds, NEW text \in Texts,
               NEW descriptor \in Descriptors, Overwrite(p, id, text, descriptor)
        PROVE  QuietStep
    <2>1. /\ id \in DOMAIN memories
          /\ memories' = [memories EXCEPT ![id].text = text]
          /\ UNCHANGED <<provenance, ledger>>
      BY <1>2 DEF Overwrite, AtPlacement, Live
    <2>2. memories[id] \in Memory
      BY <1>0, <2>1 DEF IsTable
    <2>3. /\ DOMAIN memories' = DOMAIN memories
          /\ \A i \in DOMAIN memories : memories'[i].placement = memories[i].placement
      BY <2>1, <2>2 DEF Memory
    <2> QED
      BY <1>0, <2>1, <2>3 DEF QuietStep, Live
  <1>3. ASSUME NEW p \in Placements, NEW id \in MemoryIds, ForgetAt(p, id)
        PROVE  QuietStep
    BY <1>0, <1>3 DEF ForgetAt, Drop, QuietStep, Live
  <1>4. ASSUME UNCHANGED <<memories, provenance, ledger>>
        PROVE  QuietStep
    BY <1>0, <1>4 DEF QuietStep, Live
  <1>5. ASSUME NEW d \in Domains, DomainStep(d)
        PROVE  UNCHANGED <<memories, provenance, ledger>>
    BY <1>5 DEF DomainStep, CreateDomain, AttachDomain, DetachDomain, DeleteDomain
  <1>6. ASSUME NEW q \in Requests, NEW descriptor \in Descriptors,
               NEW op \in OperationIds, CopyMove(op, q, descriptor)
        PROVE  \E id \in MemoryIds : TransferStep(op, q, id)
    BY <1>6, CopyMoveEffect DEF StoreInv
  <1>7. CASE \E d \in Domains : DomainStep(d)
    BY <1>4, <1>5, <1>7
  <1>8. CASE UNCHANGED storeVars
    BY <1>4, <1>8 DEF storeVars
  <1>9. CASE \E q \in Requests, descriptor \in Descriptors :
               \E op \in Keys \cup {DerivedId(q)} : CopyMove(op, q, descriptor)
    BY <1>6, <1>9 DEF OperationIds, DerivedId
  <1> QED
    BY <1>1, <1>2, <1>3, <1>7, <1>8, <1>9 DEF Next, DomainStep

(* An entry of the operation ledger is never rewritten or removed.         *)
THEOREM StoreLedgerDurable == Spec => LedgerDurable
  <1>1. ASSUME StoreInv, [Next]_storeVars
        PROVE  \A op \in DOMAIN ledger : op \in DOMAIN ledger' /\ ledger'[op] = ledger[op]
    <2>1. CASE QuietStep
      BY <2>1 DEF QuietStep
    <2>2. CASE \E q \in Requests, op \in OperationIds, id \in MemoryIds : TransferStep(op, q, id)
      BY <2>2 DEF TransferStep
    <2> QED
      BY <1>1, <2>1, <2>2, StepCases
  <1> QED
    BY <1>1, InitStoreInv, StepStoreInv, PTL DEF Spec, LedgerDurable

(* First-transfer provenance is immutable while its record lives.          *)
THEOREM StoreProvenanceImmutable == Spec => ProvenanceImmutable
  <1>1. ASSUME StoreInv, [Next]_storeVars
        PROVE  \A i \in DOMAIN provenance \cap DOMAIN memories' :
                 i \in DOMAIN provenance' /\ provenance'[i] = provenance[i]
    <2>1. CASE QuietStep
      BY <2>1 DEF QuietStep
    <2>2. CASE \E q \in Requests, op \in OperationIds, id \in MemoryIds : TransferStep(op, q, id)
      BY <2>2 DEF TransferStep
    <2> QED
      BY <1>1, <2>1, <2>2, StepCases
  <1> QED
    BY <1>1, InitStoreInv, StepStoreInv, PTL DEF Spec, ProvenanceImmutable

(* A reused rowid does not inherit the history of the forgotten record.    *)
THEOREM StoreHistoryFresh == Spec => HistoryStartsFresh
  <1>1. ASSUME StoreInv, [Next]_storeVars
        PROVE  \A i \in DOMAIN memories' \ DOMAIN memories :
                 i \in DOMAIN provenance' => provenance'[i].op \notin DOMAIN ledger
    <2>0. DOMAIN provenance \subseteq DOMAIN memories
      BY <1>1 DEF StoreInv, ReferentialIntegrity, Live
    <2>1. CASE QuietStep
      BY <2>0, <2>1 DEF QuietStep
    <2>2. CASE \E q \in Requests, op \in OperationIds, id \in MemoryIds : TransferStep(op, q, id)
      <3>1. PICK q \in Requests, op \in OperationIds, id \in MemoryIds : TransferStep(op, q, id)
        BY <2>2
      <3>2. /\ op \notin DOMAIN ledger
            /\ DOMAIN memories' = DOMAIN memories \cup {id}
            /\ id \notin DOMAIN provenance => provenance'[id].op = op
        BY <3>1 DEF TransferStep, Live
      <3> QED
        BY <2>0, <3>2
    <2> QED
      BY <1>1, <2>1, <2>2, StepCases
  <1> QED
    BY <1>1, InitStoreInv, StepStoreInv, PTL DEF Spec, HistoryStartsFresh
(* A transfer commits its ledger entry, its provenance and its row change  *)
(* together, and nothing else moves a record.                              *)
THEOREM StoreTransferAtomic == Spec => TransferAtomic
  <1>1. ASSUME StoreInv, [Next]_storeVars
        PROVE  CommitsWhole
    <2>1. CASE QuietStep
      BY <2>1 DEF QuietStep, CommitsWhole, Committed
    <2>2. CASE \E q \in Requests, op \in OperationIds, id \in MemoryIds : TransferStep(op, q, id)
      <3>1. PICK q \in Requests, op \in OperationIds, id \in MemoryIds : TransferStep(op, q, id)
        BY <2>2
      <3>2. Committed = {op}
        BY <3>1 DEF TransferStep, Committed
      <3>3. ledger'[op] = [request |-> q, result |-> id]
        BY <3>1 DEF TransferStep
      <3>5. memories'[id] = [text |-> memories[q.id].text, placement |-> q.to,
              organized |-> memories[q.id].organized /\ q.action = "move"]
        BY <3>1 DEF TransferStep
      <3>6. /\ id \in DOMAIN provenance'
            /\ IF q.action = "copy" THEN id \notin Live ELSE id = q.id
            /\ DOMAIN memories' = Live \cup {id}
            /\ \A i \in Live \ {id} : memories'[i] = memories[i]
        BY <3>1 DEF TransferStep
      <3> DEFINE e == [request |-> q, result |-> id]
      <3>7. TransferEffect(e)
        <4>1. e.request = q /\ e.result = id
          OBVIOUS
        <4> HIDE DEF e
        <4> QED
          BY <3>5, <3>6, <4>1 DEF TransferEffect
      <3> QED
        BY <3>2, <3>3, <3>7 DEF CommitsWhole
    <2> QED
      BY <1>1, <2>1, <2>2, StepCases
  <1> QED
    BY <1>1, InitStoreInv, StepStoreInv, PTL DEF Spec, TransferAtomic

-----------------------------------------------------------------------------
(* Repository identities.                                                  *)

LEMMA RecordIdentityStable ==
  ASSUME TypeOK, NEW p \in Placements, NEW descriptor \in Descriptors,
         RecordIdentity(p, descriptor)
  PROVE  /\ \A r \in DOMAIN identities :
              /\ r \in DOMAIN identities'
              /\ identities'[r].name = identities[r].name
              /\ identities[r].remote # NoRemote => identities'[r] = identities[r]
         /\ \A r \in DOMAIN identities' \ DOMAIN identities : p = RepositoryAt(r)
  <1>1. \A r \in DOMAIN identities : identities[r] \in Identity
    BY DEF TypeOK, IsTable
  <1>2. CASE p.kind # "repository" \/ descriptor = NoDescriptor
    BY <1>2 DEF RecordIdentity
  <1>3. CASE p.kind = "repository" /\ descriptor # NoDescriptor /\ p.id \notin DOMAIN identities
    <2>1. identities' = Put(identities, p.id, descriptor) /\ p = RepositoryAt(p.id)
      BY <1>3, PlacementKinds DEF RecordIdentity
    <2> QED
      BY <1>3, <2>1 DEF Put
  <1>4. CASE /\ p.kind = "repository" /\ descriptor # NoDescriptor /\ p.id \in DOMAIN identities
             /\ identities[p.id].remote # NoRemote
    BY <1>4 DEF RecordIdentity
  <1>5. CASE /\ p.kind = "repository" /\ descriptor # NoDescriptor /\ p.id \in DOMAIN identities
             /\ identities[p.id].remote = NoRemote
    <2>1. identities' = [identities EXCEPT ![p.id].remote = descriptor.remote]
      BY <1>5 DEF RecordIdentity
    <2> QED
      BY <1>1, <1>5, <2>1 DEF Identity
  <1> QED
    BY <1>2, <1>3, <1>4, <1>5

IdentityStep ==
  /\ \A r \in DOMAIN identities :
       /\ r \in DOMAIN identities'
       /\ identities'[r].name = identities[r].name
       /\ identities[r].remote # NoRemote => identities'[r] = identities[r]
  /\ \A r \in DOMAIN identities' \ DOMAIN identities :
       \E i \in DOMAIN memories' : memories'[i].placement = RepositoryAt(r)

LEMMA StepIdentity == StoreInv /\ [Next]_storeVars => IdentityStep
  <1> SUFFICES ASSUME StoreInv, [Next]_storeVars PROVE IdentityStep
    OBVIOUS
  <1>0. TypeOK
    BY DEF StoreInv
  <1>1. ASSUME NEW p \in Placements, NEW text \in Texts, NEW force \in BOOLEAN,
               NEW descriptor \in Descriptors, Remember(p, text, force, descriptor)
        PROVE  IdentityStep
    <2>1. PICK id \in MemoryIds :
            memories' = Put(memories, id, [text |-> text, placement |-> p, organized |-> FALSE])
      BY <1>1 DEF Remember, InsertMemory
    <2>2. id \in DOMAIN memories' /\ memories'[id].placement = p
      BY <2>1 DEF Put
    <2> QED
      BY <1>0, <1>1, <2>2, RecordIdentityStable DEF Remember, IdentityStep
  <1>2. ASSUME NEW p \in Placements, NEW id \in MemoryIds, NEW text \in Texts,
               NEW descriptor \in Descriptors, Overwrite(p, id, text, descriptor)
        PROVE  IdentityStep
    <2>1. /\ id \in DOMAIN memories /\ memories[id].placement = p
          /\ memories' = [memories EXCEPT ![id].text = text]
      BY <1>2 DEF Overwrite, AtPlacement, Live
    <2>2. memories[id] \in Memory
      BY <1>0, <2>1 DEF TypeOK, IsTable
    <2>3. id \in DOMAIN memories' /\ memories'[id].placement = p
      BY <2>1, <2>2 DEF Memory
    <2> QED
      BY <1>0, <1>2, <2>3, RecordIdentityStable DEF Overwrite, IdentityStep
  <1>3. ASSUME UNCHANGED identities
        PROVE  IdentityStep
    BY <1>3 DEF IdentityStep
  <1>4. ASSUME NEW q \in Requests, NEW descriptor \in Descriptors,
               NEW op \in OperationIds, CopyMove(op, q, descriptor)
        PROVE  IdentityStep
    <2>1. PICK id \in MemoryIds : IF q.action = "copy" THEN CopyMemory(q, id) ELSE MoveMemory(q, id)
      BY <1>4 DEF CopyMove
    <2>2. q.to \in Placements /\ q.id \in DOMAIN memories /\ memories[q.id] \in Memory
      BY <1>0, <1>4 DEF Requests, CopyMove, AtPlacement, Live, TypeOK, IsTable
    <2>3. id \in DOMAIN memories' /\ memories'[id].placement = q.to
      <3>1. CASE q.action = "copy"
        BY <2>1, <3>1 DEF CopyMemory, Put
      <3>2. CASE q.action # "copy"
        BY <2>1, <2>2, <3>2 DEF MoveMemory, Memory
      <3> QED
        BY <3>1, <3>2
    <2> QED
      BY <1>0, <1>4, <2>2, <2>3, RecordIdentityStable DEF CopyMove, IdentityStep
  <1>5. CASE \E p \in Placements, id \in MemoryIds : ForgetAt(p, id)
    BY <1>3, <1>5 DEF ForgetAt
  <1>6. CASE \/ \E d \in Domains : CreateDomain(d) \/ DeleteDomain(d)
             \/ \E r \in Repositories, d \in Domains : AttachDomain(r, d) \/ DetachDomain(r, d)
             \/ UNCHANGED storeVars
    BY <1>3, <1>6 DEF CreateDomain, AttachDomain, DetachDomain, DeleteDomain, storeVars
  <1>7. CASE \E q \in Requests, descriptor \in Descriptors :
               \E op \in Keys \cup {DerivedId(q)} : CopyMove(op, q, descriptor)
    BY <1>4, <1>7 DEF OperationIds, DerivedId
  <1> QED
    BY <1>1, <1>2, <1>5, <1>6, <1>7 DEF Next

(* The name a repository was first recorded with stays, a known remote is  *)
(* never replaced or lost (record_identity in src/repository.rs).          *)
THEOREM StoreIdentityStable == Spec => IdentityStable
  <1>1. StoreInv /\ [Next]_storeVars =>
          [/\ \A r \in DOMAIN identities :
                /\ r \in DOMAIN identities'
                /\ identities'[r].name = identities[r].name
                /\ identities[r].remote # NoRemote => identities'[r] = identities[r]
           /\ \A r \in DOMAIN identities' \ DOMAIN identities :
                \E i \in DOMAIN memories' : memories'[i].placement = RepositoryAt(r)]_storeVars
    BY StepIdentity DEF IdentityStep
  <1> QED
    BY <1>1, InitStoreInv, StepStoreInv, PTL DEF Spec, IdentityStable
=============================================================================
