---------------------------- MODULE ReadersProofs ----------------------------
(***************************************************************************)
(* Proofs about what acts on an answer that others may have outrun.        *)
(* Memory organization applies a group only to records that are as its     *)
(* agent read them and loses no write; a recall or list of the visible     *)
(* stack, read by SELECTs between which others commit, answers what some   *)
(* store of the call holds and is cut once, to the longest prefix that     *)
(* fits; a client whose connection may break reports a transfer as it is,  *)
(* and sending again commits nothing twice.  All for any number of         *)
(* records, stacks, writers, clients and messages.                         *)
(***************************************************************************)
EXTENDS Organization, VisibleStack, TransferRecovery, MemoryStoreProofs,
        FiniteSetTheorems, SequenceTheorems

-----------------------------------------------------------------------------
(* The inductive invariant of memory organization.                         *)

\* Stamps are those of writes that happened, and every write has a history.
StampInv ==
  /\ clock \in 0..MaxStamp
  /\ \A i \in Live : memories[i].text \in 1..clock
  /\ covers \in [1..clock -> SUBSET (1..clock)]

\* What an agent holds of a record was once true of it.
SnapshotOK(s) ==
  /\ s.record \in Memory
  /\ s.record.text \in 1..clock
  /\ \A p \in s.provenance : p.op \in DOMAIN ledger

SnapshotInv ==
  /\ DOMAIN snapshots = Agents
  /\ \A v \in Agents :
       /\ DOMAIN snapshots[v] \subseteq MemoryIds
       /\ \A i \in DOMAIN snapshots[v] : SnapshotOK(snapshots[v][i])

\* A row that is not the one of snapshot s: written later, or put in its
\* place by a later transfer.
Differs(i, s) ==
  i \in Live =>
    \/ memories[i].text > s.record.text
    \/ i \in DOMAIN provenance /\ \A p \in s.provenance : provenance[i].op # p.op

RewrittenInv ==
  /\ rewritten \in [Agents -> SUBSET MemoryIds]
  /\ \A v \in Agents, i \in MemoryIds :
       i \in rewritten[v] => i \in DOMAIN snapshots[v] /\ Differs(i, snapshots[v][i])

OrganizationInv == StoreInv /\ StampInv /\ SnapshotInv /\ RewrittenInv

LEMMA InitOrganizationInv == OrganizationInit => OrganizationInv
  <1> SUFFICES ASSUME OrganizationInit PROVE OrganizationInv
    OBVIOUS
  <1>1. StoreInv
    BY InitStoreInv DEF OrganizationInit
  <1>2. /\ clock = 0 /\ snapshots = [v \in Agents |-> EmptyTable] /\ covers = EmptyTable
        /\ rewritten = [v \in Agents |-> {}] /\ Live = {}
    BY DEF OrganizationInit, Init, Live, EmptyTable
  <1>3. EmptyTable \in [1..0 -> SUBSET (1..0)] /\ DOMAIN EmptyTable = {}
    BY DEF EmptyTable
  <1>4. StampInv
    BY <1>2, <1>3, StampAssumption DEF StampInv
  <1>5. SnapshotInv /\ RewrittenInv
    BY <1>2, <1>3 DEF SnapshotInv, RewrittenInv
  <1> QED
    BY <1>1, <1>4, <1>5 DEF OrganizationInv

-----------------------------------------------------------------------------
(* What a step does to the rows.                                           *)

Same(i) ==
  /\ i \in Live
  /\ memories'[i].text = memories[i].text
  /\ i \in DOMAIN provenance =>
       i \in DOMAIN provenance' /\ provenance'[i].op = provenance[i].op

Newer(i) == clock' = clock + 1 /\ memories'[i].text = clock'

\* Put in place by a transfer, with the stamp of some record.
Copied(i) ==
  /\ i \notin Live
  /\ i \in DOMAIN provenance' /\ provenance'[i].op \notin DOMAIN ledger
  /\ \E j \in Live : memories'[i].text = memories[j].text

RowStep ==
  /\ clock' \in {clock, clock + 1} /\ clock' <= MaxStamp
  /\ \A op \in DOMAIN ledger : op \in DOMAIN ledger'
  /\ \A i \in DOMAIN memories' : Same(i) \/ Newer(i) \/ Copied(i)

LEMMA RowTexts ==
  ASSUME StampInv, RowStep
  PROVE  /\ clock' \in 0..MaxStamp /\ 1..clock \subseteq 1..clock'
         /\ \A i \in DOMAIN memories' : memories'[i].text \in 1..clock'
  <1>1. clock \in Nat /\ MaxStamp \in Nat
    BY StampAssumption DEF StampInv
  <1>2. clock' \in 0..MaxStamp /\ 1..clock \subseteq 1..clock'
    BY <1>1 DEF RowStep
  <1>3. ASSUME NEW i \in DOMAIN memories' PROVE memories'[i].text \in 1..clock'
    <2>1. CASE Newer(i)
      BY <1>1, <2>1 DEF Newer
    <2>2. CASE Same(i)
      BY <1>2, <2>2 DEF StampInv, Same
    <2>3. CASE Copied(i)
      BY <1>2, <2>3 DEF StampInv, Copied
    <2> QED
      BY <2>1, <2>2, <2>3 DEF RowStep
  <1> QED
    BY <1>2, <1>3

\* A row that differs goes on differing, and one that was rewritten does.
LEMMA DiffersStays ==
  ASSUME StampInv, RowStep, NEW i, NEW s, SnapshotOK(s), Rewritten(i) \/ Differs(i, s)
  PROVE  Differs(i, s)'
  <1> SUFFICES ASSUME i \in DOMAIN memories'
               PROVE  \/ memories'[i].text > s.record.text
                      \/ i \in DOMAIN provenance' /\ \A p \in s.provenance : provenance'[i].op # p.op
    BY DEF Differs, Live
  <1>1. clock \in Nat /\ s.record.text \in 1..clock
    BY DEF StampInv, SnapshotOK
  <1>2. CASE Newer(i)
    BY <1>1, <1>2 DEF Newer
  <1>3. CASE Copied(i)
    BY <1>3 DEF Copied, SnapshotOK
  <1>4. CASE Same(i)
    <2>1. ~Rewritten(i)
      BY <1>4 DEF Rewritten, Same, Live
    <2> QED
      BY <1>4, <2>1 DEF Differs, Same
  <1> QED
    BY <1>2, <1>3, <1>4 DEF RowStep

LEMMA WatchInv ==
  ASSUME OrganizationInv, RowStep, Watch, snapshots' = snapshots
  PROVE  SnapshotInv' /\ RewrittenInv'
  <1>1. StampInv /\ SnapshotInv /\ RewrittenInv
    BY DEF OrganizationInv
  <1>2. ASSUME NEW v \in Agents, NEW i \in DOMAIN snapshots[v]
        PROVE  SnapshotOK(snapshots[v][i])'
    <2> DEFINE s == snapshots[v][i]
    <2>1. SnapshotOK(s) /\ 1..clock \subseteq 1..clock'
      BY <1>1, RowTexts DEF SnapshotInv
    <2>2. snapshots'[v][i] = s
      OBVIOUS
    <2> QED
      BY <2>1, <2>2 DEF SnapshotOK, RowStep
  <1>3. SnapshotInv'
    BY <1>1, <1>2 DEF SnapshotInv
  <1>4. rewritten' \in [Agents -> SUBSET MemoryIds]
    BY <1>1 DEF Watch, RewrittenInv, SnapshotInv
  <1>5. ASSUME NEW v \in Agents, NEW i \in MemoryIds, i \in rewritten'[v]
        PROVE  i \in DOMAIN snapshots[v] /\ Differs(i, snapshots[v][i])'
    <2>1. i \in DOMAIN snapshots[v] /\ (Rewritten(i) \/ Differs(i, snapshots[v][i]))
      BY <1>1, <1>5 DEF Watch, RewrittenInv
    <2>2. SnapshotOK(snapshots[v][i])
      BY <1>1, <2>1 DEF SnapshotInv
    <2>3. PICK s : s = snapshots[v][i]
      OBVIOUS
    <2>4. Differs(i, s)'
      BY <1>1, <2>1, <2>2, <2>3, DiffersStays
    <2> QED
      BY <2>1, <2>3, <2>4 DEF Differs
  <1> QED
    BY <1>3, <1>4, <1>5 DEF RewrittenInv

\* The history grows by at most the entry of the new stamp.
LEMMA CoversStep ==
  ASSUME StampInv, RowStep, NEW carried, Covers(carried),
         clock' # clock => carried \subseteq 1..clock'
  PROVE  StampInv'
  <1>1. clock \in Nat /\ covers \in [1..clock -> SUBSET (1..clock)]
    BY DEF StampInv
  <1>2. covers' \in [1..clock' -> SUBSET (1..clock')]
    <2>1. CASE clock' = clock
      BY <1>1, <2>1 DEF Covers
    <2>2. CASE clock' = clock + 1
      <3>1. covers' = Put(covers, clock', carried)
        BY <1>1, <2>2 DEF Covers
      <3>2. 1..clock' = (1..clock) \cup {clock'} /\ carried \in SUBSET (1..clock')
        BY <1>1, <2>2
      <3> QED
        BY <1>1, <3>1, <3>2 DEF Put
    <2> QED
      BY <2>1, <2>2 DEF RowStep
  <1> QED
    BY <1>2, RowTexts DEF StampInv, Live

-----------------------------------------------------------------------------
(* Writes and the other transactions.                                      *)

LEMMA WriteRows ==
  ASSUME OrganizationInv, Write
  PROVE  StoreInv' /\ RowStep /\ clock' \in 1..clock'
  <1>1. clock \in Nat /\ MaxStamp \in Nat /\ clock' = clock + 1 /\ clock' \in Texts
    BY StampAssumption DEF OrganizationInv, StampInv, Write
  <1>2. NoDescriptor \in Descriptors /\ TRUE \in BOOLEAN
    BY DEF Descriptors
  <1>3. PICK p \in Placements :
          \/ Remember(p, clock', TRUE, NoDescriptor)
          \/ \E id \in MemoryIds : Overwrite(p, id, clock', NoDescriptor)
    BY DEF Write
  <1>4. Next
    BY <1>1, <1>2, <1>3 DEF Next
  <1>5. StoreInv'
    BY <1>4, StepStoreInv DEF OrganizationInv
  <1>6. ledger' = ledger /\ provenance' = provenance
    BY <1>3 DEF Remember, Overwrite
  <1>7. \A i \in DOMAIN memories' : Same(i) \/ Newer(i)
    <2>1. CASE Remember(p, clock', TRUE, NoDescriptor)
      <3>1. PICK id \in MemoryIds :
              memories' = Put(memories, id, [text |-> clock', placement |-> p, organized |-> FALSE])
        BY <2>1 DEF Remember, InsertMemory
      <3> QED
        BY <1>1, <1>6, <3>1 DEF Put, Same, Newer, Live
    <2>2. CASE \E id \in MemoryIds : Overwrite(p, id, clock', NoDescriptor)
      <3>1. PICK id \in MemoryIds :
              id \in DOMAIN memories /\ memories' = [memories EXCEPT ![id].text = clock']
        BY <2>2 DEF Overwrite, AtPlacement, Live
      <3>2. memories[id] \in Memory
        BY <3>1 DEF OrganizationInv, StoreInv, TypeOK, IsTable
      <3>3. memories'[id].text = clock'
        BY <3>1, <3>2 DEF Memory
      <3> QED
        BY <1>1, <1>6, <3>1, <3>3 DEF Same, Newer, Live
    <2> QED
      BY <1>3, <2>1, <2>2
  <1> QED
    BY <1>1, <1>5, <1>6, <1>7 DEF RowStep, Write, OrganizationInv, StampInv

LEMMA OthersRows ==
  ASSUME OrganizationInv, Others
  PROVE  StoreInv' /\ RowStep /\ clock' = clock
  <1>1. clock' = clock /\ clock <= MaxStamp
    BY DEF Others, OrganizationInv, StampInv
  <1>2. NoDescriptor \in Descriptors
    BY DEF Descriptors
  <1>3. Next
    BY <1>2 DEF Others, Next
  <1>4. StoreInv /\ StoreInv'
    BY <1>3, StepStoreInv DEF OrganizationInv
  <1>5. DOMAIN provenance \subseteq DOMAIN memories
    BY <1>4 DEF StoreInv, ReferentialIntegrity, Live
  <1>6. ASSUME UNCHANGED <<memories, provenance, ledger>>
        PROVE  RowStep
    BY <1>1, <1>6 DEF RowStep, Same, Live
  <1>7. ASSUME NEW p \in Placements, NEW id \in MemoryIds, ForgetAt(p, id)
        PROVE  RowStep
    BY <1>1, <1>7 DEF ForgetAt, Drop, RowStep, Same, Live
  <1>8. ASSUME NEW q \in Requests, NEW op \in OperationIds, CopyMove(op, q, NoDescriptor)
        PROVE  RowStep
    <2>1. PICK id \in MemoryIds : TransferStep(op, q, id)
      BY <1>2, <1>4, <1>8, CopyMoveEffect DEF StoreInv
    <2>2. /\ op \notin DOMAIN ledger /\ q.id \in Live /\ DOMAIN memories' = Live \cup {id}
          /\ memories'[id].text = memories[q.id].text
          /\ \A i \in Live \ {id} : memories'[i] = memories[i]
          /\ id \in Live => id = q.id
          /\ DOMAIN provenance' = DOMAIN provenance \cup {id}
          /\ id \notin DOMAIN provenance => provenance'[id].op = op
          /\ \A i \in DOMAIN provenance : provenance'[i] = provenance[i]
          /\ \A o \in DOMAIN ledger : o \in DOMAIN ledger'
      BY <2>1 DEF TransferStep
    <2>3. \A i \in Live : Same(i)
      BY <2>2 DEF Same
    <2>4. id \in Live \/ Copied(id)
      BY <1>5, <2>2 DEF Copied, Live
    <2> QED
      BY <1>1, <2>2, <2>3, <2>4 DEF RowStep
  <1>9. ASSUME NEW d \in Domains, DomainStep(d)
        PROVE  RowStep
    BY <1>6, <1>9 DEF DomainStep, CreateDomain, AttachDomain, DetachDomain, DeleteDomain
  <1>10. RowStep
    <2>1. CASE \E p \in Placements, id \in MemoryIds : ForgetAt(p, id)
      BY <1>7, <2>1
    <2>2. CASE \E q \in Requests : \E op \in Keys \cup {DerivedId(q)} : CopyMove(op, q, NoDescriptor)
      BY <1>8, <2>2 DEF OperationIds, DerivedId
    <2>3. CASE \E d \in Domains : DomainStep(d)
      BY <1>9, <2>3
    <2> QED
      BY <2>1, <2>2, <2>3 DEF Others, DomainStep
  <1> QED
    BY <1>1, <1>4, <1>10

-----------------------------------------------------------------------------
(* An applied group.                                                       *)

LEMMA GroupShape ==
  ASSUME NEW group \in Groups
  PROVE  /\ group.kept \subseteq MemoryIds /\ group.rewrite \in BOOLEAN
         /\ group.kept \cap group.dropped = {}
         /\ group.kept # {} /\ ~group.rewrite => group.dropped = {}
  <1>1. CASE \E id \in MemoryIds, rewrite \in BOOLEAN :
               group = [kept |-> {id}, dropped |-> {}, rewrite |-> rewrite]
    BY <1>1
  <1>2. CASE \E id \in MemoryIds : group = [kept |-> {}, dropped |-> {id}, rewrite |-> FALSE]
    BY <1>2
  <1>3. CASE \E id \in MemoryIds : \E sources \in (SUBSET (MemoryIds \ {id})) \ {{}} :
               group = [kept |-> {id}, dropped |-> sources, rewrite |-> TRUE]
    BY <1>3
  <1>4. \/ \E id \in MemoryIds :
             group \in {[kept |-> {id}, dropped |-> {}, rewrite |-> FALSE],
                       [kept |-> {id}, dropped |-> {}, rewrite |-> TRUE],
                       [kept |-> {}, dropped |-> {id}, rewrite |-> FALSE]}
        \/ \E id \in MemoryIds :
             group \in {[kept |-> {id}, dropped |-> sources, rewrite |-> TRUE] :
                         sources \in (SUBSET (MemoryIds \ {id})) \ {{}}}
    BY DEF Groups
  <1> QED
    BY <1>1, <1>2, <1>3, <1>4

LEMMA ApplyRows ==
  ASSUME OrganizationInv, NEW v \in Agents, NEW mode \in Modes, NEW group \in Groups,
         NEW dependencies \in SUBSET MemoryIds, Apply(v, mode, group, dependencies)
  PROVE  StoreInv' /\ RowStep
  <1>1. /\ clock' = IF group.rewrite THEN clock + 1 ELSE clock
        /\ clock' <= MaxStamp
        /\ provenance' = [i \in DOMAIN provenance \ group.dropped |-> provenance[i]]
        /\ UNCHANGED <<domains, attached, ledger, identities>>
    BY DEF Apply, DropProvenance
  <1>2. /\ DOMAIN memories' = Live \ group.dropped
        /\ \A i \in DOMAIN memories' :
             memories'[i] =
               IF i \notin group.kept THEN memories[i]
               ELSE [text |-> IF group.rewrite THEN clock' ELSE memories[i].text,
                     placement |-> memories[i].placement, organized |-> TRUE]
        /\ memories' = [i \in DOMAIN memories' |-> memories'[i]]
    BY DEF Apply
  <1>3. /\ IsTable(memories, MemoryIds, Memory) /\ IsTable(provenance, MemoryIds, Provenance)
        /\ StoreInv /\ clock \in Nat /\ MaxStamp \in Nat
    BY StampAssumption DEF OrganizationInv, StoreInv, TypeOK, StampInv
  <1>4. group.rewrite => clock' \in Texts
    BY <1>1, <1>3, StampAssumption
  <1>5. \A i \in DOMAIN memories' :
          /\ i \in Live /\ memories'[i].placement = memories[i].placement
          /\ memories'[i].text = IF i \in group.kept /\ group.rewrite THEN clock' ELSE memories[i].text
    <2> SUFFICES ASSUME NEW i \in DOMAIN memories'
                 PROVE  /\ i \in Live /\ memories'[i].placement = memories[i].placement
                        /\ memories'[i].text =
                             IF i \in group.kept /\ group.rewrite THEN clock' ELSE memories[i].text
      OBVIOUS
    <2>1. i \in Live
      BY <1>2
    <2>2. CASE i \notin group.kept
      BY <1>2, <2>1, <2>2
    <2>3. CASE i \in group.kept
      <3>1. memories'[i] = [text |-> IF group.rewrite THEN clock' ELSE memories[i].text,
                            placement |-> memories[i].placement, organized |-> TRUE]
        BY <1>2, <2>3
      <3> QED
        BY <2>1, <2>3, <3>1
    <2> QED
      BY <2>2, <2>3
  <1>6. \A i \in DOMAIN memories' : memories'[i] \in Memory
    <2> SUFFICES ASSUME NEW i \in DOMAIN memories' PROVE memories'[i] \in Memory
      OBVIOUS
    <2>1. memories[i] \in Memory
      BY <1>3, <1>5 DEF IsTable, Live
    <2>2. CASE i \notin group.kept
      BY <1>2, <2>1, <2>2
    <2>3. CASE i \in group.kept
      <3> DEFINE text == IF group.rewrite THEN clock' ELSE memories[i].text
      <3>1. text \in Texts /\ memories[i].placement \in Placements
        BY <1>4, <2>1 DEF Memory
      <3>2. memories'[i] = [text |-> text, placement |-> memories[i].placement, organized |-> TRUE]
        BY <1>2, <2>3
      <3> HIDE DEF text
      <3> QED
        BY <3>1, <3>2 DEF Memory
    <2> QED
      BY <2>2, <2>3
  <1>7. IsTable(memories, MemoryIds, Memory)'
    BY <1>2, <1>3, <1>6 DEF IsTable, Live
  <1>8. IsTable(provenance, MemoryIds, Provenance)'
    BY <1>1, <1>3 DEF IsTable
  <1>9. TypeOK'
    BY <1>1, <1>3, <1>7, <1>8 DEF StoreInv, TypeOK
  <1>10. ReferentialIntegrity'
    BY <1>1, <1>2, <1>3, <1>5 DEF StoreInv, ReferentialIntegrity, DomainKnown, Live
  <1>11. ProvenanceLedgered'
    BY <1>1, <1>3 DEF StoreInv, ProvenanceLedgered
  <1>12. StoreInv'
    BY <1>9, <1>10, <1>11 DEF StoreInv
  <1>13. \A i \in DOMAIN memories' : Same(i) \/ Newer(i)
    BY <1>1, <1>2, <1>5 DEF Same, Newer
  <1> QED
    BY <1>1, <1>12, <1>13 DEF RowStep

LEMMA DerivedStamps ==
  ASSUME OrganizationInv, NEW v \in Agents, NEW group \in Groups,
         Participants(group) \subseteq DOMAIN snapshots[v],
         clock' = clock + 1
  PROVE  Derived(v, group) \subseteq 1..clock'
  <1>1. /\ clock \in Nat /\ covers \in [1..clock -> SUBSET (1..clock)]
        /\ \A i \in Participants(group) : snapshots[v][i].record.text \in 1..clock
    BY DEF OrganizationInv, StampInv, SnapshotInv, SnapshotOK
  <1>2. \A i \in Participants(group) : covers[snapshots[v][i].record.text] \subseteq 1..clock
    BY <1>1
  <1> QED
    BY <1>1, <1>2 DEF Derived

LEMMA TakeInv ==
  ASSUME OrganizationInv, NEW v \in Agents, NEW id \in MemoryIds, TakeSnapshot(v, id),
         rewritten' = [rewritten EXCEPT ![v] = @ \ {id}], covers' = covers
  PROVE  OrganizationInv'
  <1>1. /\ id \in Live /\ snapshots' = [snapshots EXCEPT ![v] = Put(@, id, Snapshot(id))]
        /\ UNCHANGED <<domains, attached, memories, provenance, ledger, identities, clock>>
    BY DEF TakeSnapshot, storeVars
  <1>2. /\ StoreInv /\ StampInv /\ DOMAIN snapshots = Agents
        /\ rewritten \in [Agents -> SUBSET MemoryIds]
    BY DEF OrganizationInv, SnapshotInv, RewrittenInv
  <1>3. StoreInv' /\ StampInv'
    <2>1. UNCHANGED storeVars
      BY <1>1 DEF storeVars
    <2> QED
      BY <1>1, <1>2, <2>1, StepStoreInv DEF StampInv, Live
  <1>4. SnapshotOK(Snapshot(id))
    BY <1>1, <1>2 DEF SnapshotOK, Snapshot, StampInv, StoreInv, TypeOK, IsTable,
                      ProvenanceLedgered, Live
  <1>5. /\ DOMAIN snapshots' = Agents
        /\ snapshots'[v] = Put(snapshots[v], id, Snapshot(id))
        /\ \A w \in Agents \ {v} : snapshots'[w] = snapshots[w]
    BY <1>1, <1>2
  <1>6. /\ DOMAIN snapshots'[v] = DOMAIN snapshots[v] \cup {id}
        /\ snapshots'[v][id] = Snapshot(id)
        /\ \A i \in DOMAIN snapshots[v] \ {id} : snapshots'[v][i] = snapshots[v][i]
    BY <1>5 DEF Put
  <1>7. \A w \in Agents : \A i \in DOMAIN snapshots'[w] : SnapshotOK(snapshots'[w][i])
    BY <1>4, <1>5, <1>6 DEF OrganizationInv, SnapshotInv
  <1>8. SnapshotInv'
    <2>1. \A w \in Agents : DOMAIN snapshots'[w] \subseteq MemoryIds
      BY <1>5, <1>6 DEF OrganizationInv, SnapshotInv
    <2>2. \A w \in Agents : \A i \in DOMAIN snapshots'[w] : SnapshotOK(snapshots[w][i])'
      BY <1>1, <1>7 DEF SnapshotOK
    <2> QED
      BY <1>5, <2>1, <2>2 DEF SnapshotInv
  <1>9. RewrittenInv'
    <2>1. rewritten' \in [Agents -> SUBSET MemoryIds]
      BY <1>2
    <2>2. ASSUME NEW w \in Agents, NEW i \in MemoryIds, i \in rewritten'[w]
          PROVE  i \in DOMAIN snapshots'[w] /\ Differs(i, snapshots'[w][i])
      <3>1. i \in rewritten[w] /\ ~(w = v /\ i = id)
        BY <1>2, <2>2
      <3>2. i \in DOMAIN snapshots[w] /\ Differs(i, snapshots[w][i])
        BY <3>1 DEF OrganizationInv, RewrittenInv
      <3>3. i \in DOMAIN snapshots'[w] /\ snapshots'[w][i] = snapshots[w][i]
        BY <1>5, <1>6, <3>1, <3>2
      <3> QED
        BY <3>2, <3>3
    <2>3. \A w \in Agents, i \in MemoryIds : i \in rewritten'[w] =>
            i \in DOMAIN snapshots'[w] /\ Differs(i, snapshots[w][i])'
      BY <1>1, <2>2 DEF Differs, Live
    <2> QED
      BY <2>1, <2>3 DEF RewrittenInv
  <1> QED
    BY <1>3, <1>8, <1>9 DEF OrganizationInv

LEMMA StepOrganizationInv ==
  OrganizationInv /\ [OrganizationNext]_organizationVars => OrganizationInv'
  <1> SUFFICES ASSUME OrganizationInv, [OrganizationNext]_organizationVars
               PROVE  OrganizationInv'
    OBVIOUS
  <1>0. StampInv
    BY DEF OrganizationInv
  <1>1. CASE \E v \in Agents, id \in MemoryIds :
               /\ TakeSnapshot(v, id)
               /\ rewritten' = [rewritten EXCEPT ![v] = @ \ {id}]
               /\ UNCHANGED covers
    BY <1>1, TakeInv
  <1>2. ASSUME NEW v \in Agents, NEW mode \in Modes, NEW group \in Groups,
               NEW dependencies \in SUBSET MemoryIds,
               Apply(v, mode, group, dependencies), Covers(Derived(v, group)), Watch
        PROVE  OrganizationInv'
    <2>1. StoreInv' /\ RowStep
      BY <1>2, ApplyRows
    <2>2. snapshots' = snapshots /\ Participants(group) \subseteq DOMAIN snapshots[v]
          /\ clock' \in {clock, clock + 1}
      BY <1>2 DEF Apply, ValidRequest
    <2>3. clock' # clock => Derived(v, group) \subseteq 1..clock'
      BY <2>2, DerivedStamps
    <2>4. StampInv'
      BY <1>0, <1>2, <2>1, <2>3, CoversStep
    <2> QED
      BY <1>2, <2>1, <2>2, <2>4, WatchInv DEF OrganizationInv
  <1>3. CASE Write /\ Covers({clock'}) /\ Watch
    <2>1. StoreInv' /\ RowStep /\ {clock'} \subseteq 1..clock'
      BY <1>3, WriteRows
    <2>2. StampInv'
      BY <1>0, <1>3, <2>1, CoversStep
    <2> QED
      BY <1>3, <2>1, <2>2, WatchInv DEF OrganizationInv, Write
  <1>4. CASE Others /\ Covers({}) /\ Watch
    <2>1. StoreInv' /\ RowStep /\ clock' = clock
      BY <1>4, OthersRows
    <2>2. StampInv'
      BY <1>0, <1>4, <2>1, CoversStep
    <2> QED
      BY <1>4, <2>1, <2>2, WatchInv DEF OrganizationInv, Others
  <1>5. CASE UNCHANGED organizationVars
    <2>1. UNCHANGED storeVars /\ UNCHANGED <<memories, provenance, ledger, clock, snapshots, covers, rewritten>>
      BY <1>5 DEF organizationVars, storeVars
    <2>2. StoreInv'
      BY <2>1, StepStoreInv DEF OrganizationInv
    <2>3. StampInv'
      BY <1>0, <2>1 DEF StampInv, Live
    <2>4. SnapshotInv' /\ RewrittenInv'
      BY <2>1 DEF OrganizationInv, SnapshotInv, SnapshotOK, RewrittenInv, Differs, Live
    <2> QED
      BY <2>2, <2>3, <2>4 DEF OrganizationInv
  <1> QED
    BY <1>1, <1>2, <1>3, <1>4, <1>5 DEF OrganizationNext

-----------------------------------------------------------------------------
LEMMA OrganizationInvariant == OrganizationSpec => []OrganizationInv
  BY InitOrganizationInv, StepOrganizationInv, PTL DEF OrganizationSpec

(* Snapshots and histories are of the form src/organization expects.       *)
THEOREM OrganizationTyped == OrganizationSpec => []OrganizationTypeOK
  <1>1. ASSUME OrganizationInv PROVE OrganizationTypeOK
    <2>1. TypeOK /\ clock \in 0..MaxStamp /\ rewritten \in [Agents -> SUBSET MemoryIds]
      BY <1>1 DEF OrganizationInv, StoreInv, StampInv, RewrittenInv
    <2>2. IsTable(covers, 1..clock, SUBSET (1..clock))
      BY <1>1 DEF OrganizationInv, StampInv, IsTable
    <2>3. /\ DOMAIN snapshots = Agents
          /\ \A v \in Agents : /\ DOMAIN snapshots[v] \subseteq MemoryIds
                               /\ \A i \in DOMAIN snapshots[v] : snapshots[v][i].record \in Memory
      BY <1>1 DEF OrganizationInv, SnapshotInv, SnapshotOK
    <2> QED
      BY <2>1, <2>2, <2>3 DEF OrganizationTypeOK
  <1> QED
    BY <1>1, OrganizationInvariant, PTL

\* A row that differs from its snapshot is not equal to it.
LEMMA PreconditionsDiffer ==
  ASSUME OrganizationInv, NEW v \in Agents, NEW group \in Groups,
         NEW dependencies \in SUBSET MemoryIds, Apply(v, "all", group, dependencies)
  PROVE  (Participants(group) \cup dependencies) \cap rewritten[v] = {}
  <1> SUFFICES ASSUME NEW i \in Participants(group) \cup dependencies, i \in rewritten[v]
               PROVE  FALSE
    OBVIOUS
  <1>1. i \in Live /\ Snapshot(i) = snapshots[v][i] /\ i \in DOMAIN snapshots[v]
    BY DEF Apply, Preconditions, ValidRequest
  <1>2. i \in MemoryIds /\ Differs(i, snapshots[v][i])
    BY DEF OrganizationInv, RewrittenInv
  <1>3. /\ snapshots[v][i].record = memories[i]
        /\ i \in DOMAIN provenance => provenance[i] \in snapshots[v][i].provenance
    BY <1>1 DEF Snapshot
  <1>4. memories[i].text \in 1..clock /\ clock \in Nat
    BY <1>1 DEF OrganizationInv, StampInv
  <1> QED
    BY <1>1, <1>2, <1>3, <1>4 DEF Differs

(* A group is applied only while every record it rests on is the one its   *)
(* agent read: check_preconditions of src/organization/apply.rs sees every *)
(* rewrite, deletion and replacement under the same rowid.                 *)
THEOREM OrganizationAppliesAsReviewed == OrganizationSpec => AppliesAsReviewed
  <1>1. OrganizationInv =>
          \A v \in Agents, group \in Groups, dependencies \in SUBSET MemoryIds :
            Apply(v, "all", group, dependencies) =>
              (Participants(group) \cup dependencies) \cap rewritten[v] = {}
    BY PreconditionsDiffer
  <1> QED
    BY <1>1, OrganizationInvariant, PTL DEF AppliesAsReviewed

(* Keeping, refining and merging lose no write, whatever other agents and  *)
(* writers do between reading and applying: src/organization/apply.rs.     *)
THEOREM OrganizationMergesLoseNothing == OrganizationSpec => MergesLoseNothing
  <1>1. ASSUME OrganizationInv, NEW v \in Agents, NEW group \in Groups,
               Apply(v, "all", group, {}), Covers(Derived(v, group)), group.kept # {}
        PROVE  Carried \subseteq Carried'
    <2>1. /\ clock \in Nat /\ covers \in [1..clock -> SUBSET (1..clock)]
          /\ \A i \in Live : memories[i].text \in 1..clock
      BY <1>1 DEF OrganizationInv, StampInv
    <2>2. /\ clock' = IF group.rewrite THEN clock + 1 ELSE clock
          /\ DOMAIN memories' = Live \ group.dropped
          /\ \A i \in DOMAIN memories' :
               memories'[i].text = IF i \in group.kept /\ group.rewrite THEN clock' ELSE memories[i].text
      BY <1>1 DEF Apply
    <2>3. \A s \in 1..clock : covers'[s] = covers[s]
      BY <1>1, <2>1, <2>2 DEF Covers, Put
    <2>4. \A i \in Participants(group) : i \in Live /\ snapshots[v][i].record = memories[i]
      <3>1. \A i \in Participants(group) : i \in Live /\ Snapshot(i) = snapshots[v][i]
        BY <1>1 DEF Apply, Preconditions
      <3>2. \A i : Snapshot(i).record = memories[i]
        BY DEF Snapshot
      <3> QED
        BY <3>1, <3>2
    <2> SUFFICES ASSUME NEW i \in Live
                 PROVE  \E j \in DOMAIN memories' :
                          covers[memories[i].text] \subseteq covers'[memories'[j].text]
      BY DEF Carried, Live
    <2>5. CASE i \in Participants(group) /\ group.rewrite
      <3>1. PICK k : k \in group.kept
        BY <1>1
      <3>2. k \in DOMAIN memories' /\ memories'[k].text = clock'
        BY <2>2, <2>4, <2>5, <3>1, GroupShape DEF Participants
      <3>3. covers'[clock'] = Derived(v, group)
        BY <1>1, <2>1, <2>2, <2>5 DEF Covers, Put
      <3>4. covers[memories[i].text] \subseteq Derived(v, group)
        BY <2>4, <2>5 DEF Derived
      <3> QED
        BY <3>2, <3>3, <3>4
    <2>6. CASE ~(i \in Participants(group) /\ group.rewrite)
      <3>1. i \in DOMAIN memories' /\ memories'[i].text = memories[i].text
        BY <1>1, <2>2, <2>6, GroupShape DEF Participants
      <3> QED
        BY <2>1, <2>3, <3>1
    <2> QED
      BY <2>5, <2>6
  <1>2. OrganizationInv =>
          \A v \in Agents, group \in Groups :
            Apply(v, "all", group, {}) /\ Covers(Derived(v, group)) /\ group.kept # {}
              => Carried \subseteq Carried'
    BY <1>1
  <1> QED
    BY <1>2, OrganizationInvariant, PTL DEF MergesLoseNothing
-----------------------------------------------------------------------------
(* The inductive invariant of a read of the visible stack.                 *)

ReadRow ==
  [id : MemoryIds, placement : Placements, text : Texts, target : Nat, source : Nat, visible : BOOLEAN]

Lists == Searched(resolved)
Reading == phase \in {"topics", "rows", "done"}

\* What a SELECT of the stack of r, or of one placement in it, returns.
Returned(s, r, p, list) ==
  /\ list \in Seq(Placements) /\ list # <<>>
  /\ \A q \in Range(list) : Stacked(s, r, q)
  /\ IF p = NoPlacement THEN \A q \in Placements : Stacked(s, r, q) => q \in Range(list)
     ELSE list = <<p>>

ResolvedInv ==
  /\ call \in Calls
  /\ resolved \in Seq(Seq(Placements)) /\ Len(resolved) <= Resolutions
  /\ \A n \in 1..Len(resolved) :
       \E s \in past : Returned(s, NthRepository(n), NthPlacement(n), resolved[n])
  /\ Reading => Len(resolved) = Resolutions
  /\ phase = "resolving" => entries = <<>> /\ target = 1 /\ topics = NoTopics

\* What is pending is the end of the list of the target.
ScanInv ==
  Reading =>
    /\ target \in 1..Len(Lists)
    /\ pending \in Seq(Placements) /\ Len(pending) <= Len(Lists[target])
    /\ \A j \in 1..Len(pending) : pending[j] = Lists[target][Len(Lists[target]) - Len(pending) + j]
    /\ phase = "done" \/ (phase = "rows" /\ pending = <<>>) => target = Len(Lists) /\ pending = <<>>

Passed(k) == k <= Len(Lists[target]) - Len(pending)

\* Topics were read of the sources, and those that never went away are there.
TopicsInv ==
  phase \in {"topics", "rows"} =>
    /\ topics \in [{"repository", "domain"} -> SUBSET Range(Topic)]
    /\ \A kind \in {"repository", "domain"} : \A t \in topics[kind] :
         /\ t # NoTopic
         /\ \E q \in Range(Lists[target]) : q.kind = kind /\ \E s \in past : Says(s, q, t)
    /\ \A k \in DOMAIN Lists[target] :
         LET q == Lists[target][k] IN
         q.kind # "universal" /\ (phase = "rows" \/ Passed(k)) =>
           \A t \in Range(Topic) :
             t # NoTopic /\ (\A s \in past : Says(s, q, t)) => t \in topics[q.kind]

Matches(text) == call.command = "list" \/ text \in Hits

\* An entry is a row of some store, and hidden or not by what its list says.
EntrySound(e) ==
  /\ e.target \in 1..target /\ e.placement \in Range(Lists[e.target])
  /\ Matches(e.text)
  /\ \E s \in past : RowOf(s, e.id, e.placement) /\ s.memories[e.id].text = e.text
  /\ IF e.visible
     THEN \A q \in Range(Lists[e.target]) :
            Outranks(q, e.placement) /\ Topic[e.text] # NoTopic => \E s \in past : ~Says(s, q, Topic[e.text])
     ELSE /\ Topic[e.text] # NoTopic
          /\ \E q \in Range(Lists[e.target]) :
               Outranks(q, e.placement) /\ \E s \in past : Says(s, q, Topic[e.text])

\* Every row of some store at a source that has been read has its entry.
SourceRead(n, k) == n < target \/ (n = target /\ (phase = "done" \/ (phase = "rows" /\ Passed(k))))

SourceComplete(n, p) ==
  \E s \in past : \A i \in MemoryIds :
    RowOf(s, i, p) /\ Matches(s.memories[i].text) =>
      \E e \in Range(entries) : Key(e) = <<p, i>> /\ e.text = s.memories[i].text /\ e.target = n

EntriesInv ==
  /\ entries \in Seq(ReadRow)
  /\ Reading => \A e \in Range(entries) : EntrySound(e)
  /\ Reading => \A n \in 1..target : \A k \in DOMAIN Lists[n] : SourceRead(n, k) => SourceComplete(n, Lists[n][k])

ReadInv == Store \in past /\ StoreInv /\ ResolvedInv /\ ScanInv /\ TopicsInv /\ EntriesInv
-----------------------------------------------------------------------------
(* Enumerations of finite sets.                                            *)

\* The members of S up to i, and how many they are.
Upto(S, i) == {j \in S : j <= i}

LEMMA RankFacts ==
  ASSUME NEW S \in SUBSET Nat, IsFiniteSet(S)
  PROVE  /\ Cardinality(S) \in Nat
         /\ \A i \in S : Cardinality(Upto(S, i)) \in 1..Cardinality(S)
         /\ \A i, j \in S : i < j => Cardinality(Upto(S, i)) # Cardinality(Upto(S, j))
  <1>1. Cardinality(S) \in Nat
    BY FS_CardinalityType
  <1>2. \A i \in S : Upto(S, i) \in SUBSET S /\ IsFiniteSet(Upto(S, i)) /\ i \in Upto(S, i)
    BY FS_Subset DEF Upto
  <1>3. ASSUME NEW i \in S PROVE Cardinality(Upto(S, i)) \in 1..Cardinality(S)
    <2>1. Cardinality(Upto(S, i)) \in Nat /\ Cardinality(Upto(S, i)) <= Cardinality(S)
      BY <1>2, FS_Subset, FS_CardinalityType
    <2>2. Cardinality(Upto(S, i)) # 0
      BY <1>2, FS_EmptySet
    <2> QED
      BY <1>1, <2>1, <2>2
  <1>4. ASSUME NEW i \in S, NEW j \in S, i < j
        PROVE  Cardinality(Upto(S, i)) # Cardinality(Upto(S, j))
    <2>0. i \in Nat /\ j \in Nat /\ \A x \in S : x \in Nat
      OBVIOUS
    <2>3. ASSUME NEW x \in Upto(S, i) PROVE x \in Upto(S, j)
      <3>1. x \in S /\ x \in Nat /\ x <= i
        BY <2>0 DEF Upto
      <3>2. x <= j
        BY <1>4, <2>0, <3>1
      <3> QED
        BY <3>1, <3>2 DEF Upto
    <2>4. j \notin Upto(S, i)
      BY <1>4, <2>0 DEF Upto
    <2>5. j \in Upto(S, j)
      BY <2>0 DEF Upto
    <2>1. Upto(S, i) \in SUBSET Upto(S, j) /\ j \notin Upto(S, i) /\ j \in Upto(S, j)
      BY <2>3, <2>4, <2>5
    <2>2. IsFiniteSet(Upto(S, j))
      BY <1>2
    <2> QED
      BY <2>1, <2>2, FS_Subset
  <1> QED
    BY <1>1, <1>3, <1>4

(* Nth enumerates a finite set of numbers.                                 *)
LEMMA NthOnto ==
  ASSUME NEW S \in SUBSET Nat, IsFiniteSet(S)
  PROVE  /\ \A n \in 1..Cardinality(S) :
              Nth(S, n) \in S /\ Cardinality(Upto(S, Nth(S, n))) = n
         /\ \A i \in S : \E n \in 1..Cardinality(S) : Nth(S, n) = i
  <1> DEFINE T == 1..Cardinality(S)
             rank == [i \in S |-> Cardinality(Upto(S, i))]
  <1>1. rank \in [S -> T]
    BY RankFacts
  <1>2. ASSUME NEW i \in S, NEW j \in S, rank[i] = rank[j] PROVE i = j
    <2>1. i \in Nat /\ j \in Nat
      OBVIOUS
    <2>2. ~(i < j) /\ ~(j < i)
      BY <1>2, RankFacts
    <2> QED
      BY <2>1, <2>2
  <1>3. rank \in Injection(S, T)
    BY <1>1, <1>2 DEF Injection, IsInjective
  <1>4. IsFiniteSet(T) /\ Cardinality(T) = Cardinality(S)
    BY RankFacts, FS_Interval
  <1>5. rank \in Surjection(S, T)
    BY <1>3, <1>4, FS_Injection
  <1>6. \A n \in T : \E i \in S : rank[i] = n
    BY <1>5 DEF Surjection
  <1>7. \A n \in T : Nth(S, n) \in S /\ rank[Nth(S, n)] = n
    BY <1>6 DEF Nth, Upto
  <1>8. ASSUME NEW i \in S PROVE rank[i] \in T /\ Nth(S, rank[i]) = i
    <2>1. rank[i] \in T
      BY <1>1
    <2> QED
      BY <1>2, <1>7, <2>1
  <1> QED
    BY <1>7, <1>8

(* A finite set of numbers has a least one.                                *)
LEMMA LeastOf ==
  ASSUME NEW S \in SUBSET Nat, IsFiniteSet(S), S # {}
  PROVE  \E i \in S : \A j \in S : i <= j
  <1> DEFINE i == Nth(S, 1)
  <1>1. Cardinality(S) \in Nat /\ Cardinality(S) # 0
    BY RankFacts, FS_EmptySet
  <1>2. 1 \in 1..Cardinality(S)
    BY <1>1
  <1>3. i \in S /\ Cardinality(Upto(S, i)) = 1
    BY <1>2, NthOnto
  <1> HIDE DEF i
  <1>4. IsFiniteSet(Upto(S, i)) /\ i \in Upto(S, i)
    <2>1. Upto(S, i) \in SUBSET S /\ i \in Nat
      BY <1>3 DEF Upto
    <2> QED
      BY <1>3, <2>1, FS_Subset DEF Upto
  <1>5. PICK x : Upto(S, i) = {x}
    BY <1>3, <1>4, FS_Singleton
  <1>6. Upto(S, i) = {i}
    BY <1>4, <1>5
  <1>7. ASSUME NEW j \in S PROVE i <= j
    <2>1. i \in Nat /\ j \in Nat
      BY <1>3
    <2>2. CASE j < i
      BY <1>6, <2>1, <2>2 DEF Upto
    <2> QED
      BY <2>1, <2>2
  <1> QED
    BY <1>3, <1>7

(* SetToSeqs lists every member of a finite set.                           *)
LEMMA SetToSeqsOnto ==
  ASSUME NEW S, IsFiniteSet(S), NEW f \in SetToSeqs(S)
  PROVE  /\ f \in Seq(S) /\ DOMAIN f = 1..Len(f)
         /\ \A i \in DOMAIN f : f[i] \in S
         /\ \A x \in S : \E i \in DOMAIN f : f[i] = x
  <1> DEFINE T == 1..Cardinality(S)
  <1>1. Cardinality(S) \in Nat
    BY FS_CardinalityType
  <1>2. f \in [T -> S] /\ \A i, j \in T : i # j => f[i] # f[j]
    BY DEF SetToSeqs
  <1>3. f \in Injection(T, S)
    BY <1>2 DEF Injection, IsInjective
  <1>4. Cardinality(T) = Cardinality(S)
    BY <1>1, FS_Interval
  <1>5. f \in Surjection(T, S)
    BY <1>3, <1>4, FS_Injection
  <1>6. f \in Seq(S) /\ Len(f) = Cardinality(S)
    BY <1>1, <1>2
  <1> QED
    BY <1>2, <1>5, <1>6 DEF Surjection
-----------------------------------------------------------------------------
(* What the SELECTs of one step return.                                    *)

LEMMA SourceTopicsFact ==
  ASSUME NEW p \in Placements, NEW t
  PROVE  t \in SourceTopics(p) <=> t # NoTopic /\ Says(Store, p, t)
  BY DEF SourceTopics, Says, RowOf, Store, Live, AtPlacement

LEMMA PlacementNames ==
  /\ \A r \in Repositories : RepositoryAt(r) \in Placements
  /\ \A d \in Domains : DomainAt(d) \in Placements
  /\ Universal \in Placements
  BY DEF Placements

LEMMA VisibleReturned ==
  ASSUME TypeOK, NEW r \in Repositories, NEW list \in VisibleSources(r)
  PROVE  Returned(Store, r, NoPlacement, list)
  <1>1. attached[r] \in SUBSET Domains /\ IsFiniteSet(attached[r])
    BY DomainsAssumption, FS_Subset DEF TypeOK
  <1>2. PICK order \in SetToSeqs(attached[r]) :
          list = <<RepositoryAt(r)>> \o [i \in DOMAIN order |-> DomainAt(order[i])] \o <<Universal>>
    BY DEF VisibleSources
  <1> DEFINE mid == [i \in DOMAIN order |-> DomainAt(order[i])]
  <1>3. /\ order \in Seq(attached[r]) /\ DOMAIN order = 1..Len(order)
        /\ \A i \in DOMAIN order : order[i] \in attached[r]
        /\ \A d \in attached[r] : \E i \in DOMAIN order : order[i] = d
    BY <1>1, SetToSeqsOnto
  <1>4. Len(order) \in Nat
    BY <1>3
  <1>5. mid \in Seq(Placements) /\ Len(mid) = Len(order)
    BY <1>1, <1>3, <1>4, PlacementNames
  <1>6. \A i \in 1..Len(order) : mid[i] = DomainAt(order[i])
    BY <1>3
  <1> HIDE DEF mid
  <1>7. /\ list \in Seq(Placements) /\ Len(list) = Len(order) + 2
        /\ list[1] = RepositoryAt(r) /\ list[Len(order) + 2] = Universal
        /\ \A i \in 1..Len(order) : list[i + 1] = mid[i]
    <2>1. list = <<RepositoryAt(r)>> \o mid \o <<Universal>>
      BY <1>2 DEF mid
    <2> DEFINE front == <<RepositoryAt(r)>> \o mid
    <2>2. RepositoryAt(r) \in Placements /\ Universal \in Placements
      BY PlacementNames
    <2>3. /\ front \in Seq(Placements) /\ Len(front) = Len(order) + 1
          /\ front[1] = RepositoryAt(r) /\ \A i \in 1..Len(order) : front[i + 1] = mid[i]
      BY <1>4, <1>5, <2>2
    <2> HIDE DEF front
    <2>4. /\ front \o <<Universal>> \in Seq(Placements)
          /\ Len(front \o <<Universal>>) = Len(order) + 2
          /\ (front \o <<Universal>>)[Len(order) + 2] = Universal
          /\ \A i \in 1..(Len(order) + 1) : (front \o <<Universal>>)[i] = front[i]
      BY <1>4, <2>2, <2>3
    <2>5. list = front \o <<Universal>>
      BY <2>1 DEF front
    <2> QED
      BY <1>4, <2>3, <2>4, <2>5
  <1>8. DOMAIN list = 1..(Len(order) + 2)
    BY <1>7
  <1>9. ASSUME NEW q \in Range(list) PROVE Stacked(Store, r, q)
    <2>1. PICK i \in 1..(Len(order) + 2) : q = list[i]
      BY <1>8 DEF Range
    <2>2. CASE i = 1 \/ i = Len(order) + 2
      BY <1>7, <2>1, <2>2 DEF Stacked
    <2>3. CASE ~(i = 1 \/ i = Len(order) + 2)
      <3>1. i - 1 \in 1..Len(order) /\ i = (i - 1) + 1
        BY <1>4, <2>3
      <3>2. q = DomainAt(order[i - 1])
        BY <1>6, <1>7, <2>1, <3>1
      <3> QED
        BY <1>3, <3>1, <3>2 DEF Stacked, Store
    <2> QED
      BY <2>2, <2>3
  <1>10. ASSUME NEW q \in Placements, Stacked(Store, r, q) PROVE q \in Range(list)
    <2>1. CASE q \in {RepositoryAt(r), Universal}
      BY <1>4, <1>7, <1>8, <2>1 DEF Range
    <2>2. CASE \E d \in attached[r] : q = DomainAt(d)
      <3>1. PICK i \in 1..Len(order) : q = DomainAt(order[i])
        BY <1>3, <2>2
      <3>2. i + 1 \in DOMAIN list /\ list[i + 1] = q
        BY <1>4, <1>6, <1>7, <1>8, <3>1
      <3> QED
        BY <3>2 DEF Range
    <2> QED
      BY <1>10, <2>1, <2>2 DEF Stacked, Store
  <1> QED
    BY <1>4, <1>7, <1>9, <1>10 DEF Returned

LEMMA SourcesReturned ==
  ASSUME TypeOK, NEW r \in Repositories, NEW p \in Placements \cup {NoPlacement},
         NEW list \in Sources(r, p)
  PROVE  Returned(Store, r, p, list)
  <1>1. CASE p = NoPlacement
    BY <1>1, VisibleReturned DEF Sources
  <1>2. CASE p # NoPlacement
    <2>1. p \in Placements /\ PlacementAllowed(r, p) /\ list = <<p>>
      BY <1>2 DEF Sources
    <2>2. Stacked(Store, r, p)
      <3>1. CASE p.kind = "repository"
        BY <2>1, <3>1, PlacementKinds DEF PlacementAllowed, Stacked
      <3>2. CASE p.kind = "domain"
        BY <2>1, <3>2, PlacementKinds DEF PlacementAllowed, Stacked, Store
      <3>3. CASE p.kind = "universal"
        BY <2>1, <3>3 DEF Placements, Stacked, RepositoryAt, DomainAt
      <3> QED
        BY <2>1, <3>1, <3>2, <3>3, PlacementKinds
    <2>3. list \in Seq(Placements) /\ list # <<>> /\ Range(list) = {p}
      BY <2>1 DEF Range
    <2> QED
      BY <1>2, <2>1, <2>2, <2>3 DEF Returned
  <1> QED
    BY <1>1, <1>2
-----------------------------------------------------------------------------
(* The lists a call reads.                                                 *)

LEMMA CallFacts ==
  ASSUME call \in Calls
  PROVE  /\ call.command \in {"recall", "list"}
         /\ call.targets \in Seq(Repositories) /\ Len(call.targets) \in Nat \ {0}
         /\ call.placement \in Placements \cup {NoPlacement}
         /\ call.exact => call.command = "list" /\ call.placement \in Placements
  <1>1. call.targets \in Seq(Repositories) /\ call.targets # <<>>
    BY CallsAssumption DEF CallsOK
  <1>2. Len(call.targets) \in Nat \ {0}
    BY <1>1
  <1> QED
    BY <1>1, <1>2, CallsAssumption DEF CallsOK

LEMMA NumberedCalls ==
  ASSUME call \in Calls
  PROVE  /\ Resolutions \in Nat \ {0}
         /\ \A n \in 1..Resolutions : NthRepository(n) \in Repositories
         /\ \A n \in 1..Resolutions : NthPlacement(n) \in Placements \cup {NoPlacement}
  <1>1. call.targets[1] \in Repositories
    BY CallFacts
  <1>2. Context \in Repositories
    <2>1. CASE call.exact /\ call.placement.kind = "repository"
      BY <2>1, CallFacts, PlacementKinds DEF Context
    <2>2. CASE ~(call.exact /\ call.placement.kind = "repository")
      BY <1>1, <2>2 DEF Context
    <2> QED
      BY <2>1, <2>2
  <1>3. Resolutions \in Nat \ {0}
    BY CallFacts DEF Resolutions
  <1>4. \A n \in 1..Resolutions : NthRepository(n) \in Repositories
    <2>1. CASE call.command = "recall"
      BY <2>1, CallFacts DEF NthRepository, Resolutions
    <2>2. CASE call.command # "recall"
      BY <1>2, <2>2 DEF NthRepository
    <2> QED
      BY <2>1, <2>2
  <1>5. \A n \in 1..Resolutions : NthPlacement(n) \in Placements \cup {NoPlacement}
    BY CallFacts DEF NthPlacement
  <1> QED
    BY <1>3, <1>4, <1>5

LEMMA SearchedShape ==
  ASSUME call \in Calls, NEW lists \in Seq(Seq(Placements)), Len(lists) = Resolutions
  PROVE  /\ Searched(lists) \in Seq(Seq(Placements)) /\ Len(Searched(lists)) \in Nat \ {0}
         /\ call.command = "recall" =>
              Searched(lists) = lists /\ Len(Searched(lists)) = Len(call.targets)
         /\ call.command = "list" => Len(Searched(lists)) = 1
         /\ call.command = "list" /\ ~call.exact => Searched(lists)[1] = lists[3]
         /\ call.exact =>
              \/ Searched(lists)[1] = lists[1] /\ call.placement \in Range(lists[1])
              \/ Searched(lists)[1] = <<call.placement>> /\ call.placement \notin Range(lists[1])
  <1>1. CASE call.command = "recall"
    <2>0. ~call.exact
      BY <1>1, CallFacts
    <2>1. Searched(lists) = lists
      BY <1>1, <2>0 DEF Searched
    <2>2. Len(lists) = Len(call.targets)
      BY <1>1 DEF Resolutions
    <2> QED
      BY <1>1, <2>0, <2>1, <2>2, CallFacts
  <1>2. CASE call.command = "list" /\ call.exact
    <2>1. Len(lists) = 1
      BY <1>2 DEF Resolutions
    <2>2. lists[1] \in Seq(Placements)
      BY <2>1
    <2>3. CASE Contains(lists[1], call.placement)
      <3>1. Searched(lists) = lists
        BY <1>2, <2>3 DEF Searched
      <3>2. call.placement \in Range(lists[1])
        BY <2>2, <2>3 DEF Contains, Range
      <3>3. Len(Searched(lists)) = 1 /\ Searched(lists) \in Seq(Seq(Placements))
        BY <2>1, <3>1
      <3>4. Searched(lists)[1] = lists[1]
        BY <3>1
      <3> QED
        BY <1>2, <3>2, <3>3, <3>4
    <2>4. CASE ~Contains(lists[1], call.placement)
      <3>1. Searched(lists) = <<<<call.placement>>>>
        BY <1>2, <2>4 DEF Searched
      <3>2. <<call.placement>> \in Seq(Placements)
        BY <1>2, CallFacts
      <3>3. call.placement \notin Range(lists[1])
        <4>1. DOMAIN lists[1] = 1..Len(lists[1])
          BY <2>2
        <4> QED
          BY <2>4, <4>1 DEF Contains, Range
      <3> QED
        BY <1>2, <3>1, <3>2, <3>3
    <2> QED
      BY <2>3, <2>4
  <1>3. CASE call.command = "list" /\ ~call.exact
    <2>1. Searched(lists) = <<lists[3]>>
      BY <1>3 DEF Searched
    <2>2. Len(lists) = 3
      BY <1>3 DEF Resolutions
    <2>3. lists[3] \in Seq(Placements)
      <3>1. 3 \in 1..Len(lists)
        BY <2>2
      <3> QED
        BY <3>1
    <2> QED
      BY <1>3, <2>1, <2>3
  <1> QED
    BY <1>1, <1>2, <1>3, CallFacts

LEMMA ListsShape ==
  ASSUME ReadInv, Reading
  PROVE  /\ Lists \in Seq(Seq(Placements)) /\ Len(Lists) \in Nat \ {0}
         /\ target \in 1..Len(Lists)
         /\ \A n \in 1..Len(Lists) :
              /\ Lists[n] \in Seq(Placements) /\ Lists[n] # <<>>
              /\ DOMAIN Lists[n] = 1..Len(Lists[n])
              /\ \A k \in DOMAIN Lists[n] : Lists[n][k] \in Placements
  <1>1. call \in Calls /\ resolved \in Seq(Seq(Placements)) /\ Len(resolved) = Resolutions
    BY DEF ReadInv, ResolvedInv
  <1>2. Lists \in Seq(Seq(Placements)) /\ Len(Lists) \in Nat \ {0}
    BY <1>1, SearchedShape DEF Lists
  <1>3. target \in 1..Len(Lists)
    BY DEF ReadInv, ScanInv
  <1>4. ASSUME NEW n \in 1..Len(Lists)
        PROVE  /\ Lists[n] \in Seq(Placements) /\ DOMAIN Lists[n] = 1..Len(Lists[n])
               /\ \A k \in DOMAIN Lists[n] : Lists[n][k] \in Placements
    <2>1. Lists[n] \in Seq(Placements)
      BY <1>2
    <2> DEFINE L == Lists[n]
    <2> HIDE DEF L
    <2>2. L \in Seq(Placements) => DOMAIN L = 1..Len(L) /\ \A k \in DOMAIN L : L[k] \in Placements
      OBVIOUS
    <2> QED
      BY <2>1, <2>2 DEF L
  <1>5. ASSUME NEW n \in 1..Len(Lists) PROVE Lists[n] # <<>>
    <2>0. ASSUME call.command = "list" PROVE n = 1
      <3>1. Len(Lists) = 1
        BY <1>1, <2>0, SearchedShape DEF Lists
      <3>2. n \in 1..1
        BY <3>1
      <3> QED
        BY <3>2
    <2>1. \A m \in 1..Len(resolved) : resolved[m] # <<>>
      BY DEF ReadInv, ResolvedInv, Returned
    <2>2. CASE call.command = "recall"
      BY <1>1, <1>5, <2>1, <2>2, SearchedShape, CallFacts DEF Lists, Resolutions
    <2>3. CASE call.command = "list" /\ ~call.exact
      <3>1. 3 \in 1..Len(resolved)
        BY <1>1, <2>3 DEF Resolutions
      <3>2. n = 1 /\ Lists[1] = resolved[3]
        BY <1>1, <2>0, <2>3, SearchedShape DEF Lists
      <3> QED
        BY <2>1, <3>1, <3>2
    <2>4. CASE call.exact
      <3>1. call.command = "list"
        BY <1>1, <2>4, CallFacts
      <3>2. 1 \in 1..Len(resolved)
        BY <1>1, <2>4, <3>1 DEF Resolutions
      <3>3. n = 1 /\ (Lists[1] = resolved[1] \/ Lists[1] = <<call.placement>>)
        BY <1>1, <2>0, <2>4, <3>1, SearchedShape DEF Lists
      <3> QED
        BY <2>1, <3>2, <3>3
    <2> QED
      BY <1>1, <2>2, <2>3, <2>4, CallFacts
  <1> QED
    BY <1>2, <1>3, <1>4, <1>5
-----------------------------------------------------------------------------
(* The steps of a call.                                                    *)

LEMMA StockedStore ==
  ASSUME Stocked
  PROVE  StoreInv
  <1>1. PICK n \in 1..MaxId :
          memories \in [1..n -> [text : Texts, placement : Placements, organized : {FALSE}]]
    BY DEF Stocked
  <1>2. n \in Nat /\ 1..n \subseteq MemoryIds
    BY MaxIdAssumption DEF MemoryIds
  <1>3. IsTable(memories, MemoryIds, Memory)
    <2>1. DOMAIN memories = 1..n /\ \A i \in 1..n : memories[i] \in Memory
      BY <1>1 DEF Memory
    <2>2. memories = [k \in DOMAIN memories |-> memories[k]]
      BY <1>1
    <2> QED
      BY <1>2, <2>1, <2>2 DEF IsTable
  <1>4. attached \in [Repositories -> SUBSET Domains] /\ domains = Domains
    BY StacksAssumption DEF Stocked
  <1>5. TypeOK
    BY <1>3, <1>4, EmptyIsTable DEF Stocked, TypeOK
  <1>6. DOMAIN provenance = {} /\ DOMAIN ledger = {}
    BY EmptyIsTable DEF Stocked
  <1>7. ASSUME NEW i \in Live PROVE DomainKnown(memories[i].placement)
    <2>1. memories[i].placement \in Placements
      BY <1>3 DEF IsTable, Memory, Live
    <2> QED
      BY <1>4, <2>1, PlacementKinds DEF DomainKnown
  <1>8. ReferentialIntegrity
    BY <1>4, <1>6, <1>7 DEF ReferentialIntegrity
  <1>9. ProvenanceLedgered
    BY <1>6 DEF ProvenanceLedgered
  <1> QED
    BY <1>5, <1>8, <1>9 DEF StoreInv

LEMMA InitReadInv == StackInit => ReadInv
  <1> SUFFICES ASSUME StackInit PROVE ReadInv
    OBVIOUS
  <1>1. Store \in past /\ StoreInv
    BY StockedStore DEF StackInit
  <1>2. phase = "resolving" /\ ~Reading /\ entries = <<>> /\ resolved = <<>> /\ call \in Calls
        /\ target = 1 /\ topics = NoTopics
    BY DEF StackInit, ReadInit, Reading
  <1>3. ResolvedInv
    <2>1. Resolutions \in Nat \ {0}
      BY <1>2, NumberedCalls
    <2>2. resolved \in Seq(Seq(Placements)) /\ Len(resolved) = 0
      BY <1>2
    <2> QED
      BY <1>2, <2>1, <2>2 DEF ResolvedInv
  <1>4. ScanInv /\ TopicsInv /\ EntriesInv
    BY <1>2 DEF ScanInv, TopicsInv, EntriesInv
  <1> QED
    BY <1>1, <1>3, <1>4 DEF ReadInv

\* Other connections may add to the stores the call has lived through.
LEMMA WatchedRead ==
  ASSUME ReadInv, UNCHANGED readVars, past \subseteq past', Store' \in past', StoreInv'
  PROVE  ReadInv'
  <1>1. past \subseteq past' /\ Store' \in past'
    OBVIOUS
  <1>2. StoreInv'
    OBVIOUS
  <1>3. /\ UNCHANGED call /\ UNCHANGED phase /\ UNCHANGED resolved /\ UNCHANGED target
        /\ UNCHANGED topics /\ UNCHANGED pending /\ UNCHANGED entries
    BY DEF readVars
  <1>4. UNCHANGED Lists /\ UNCHANGED Reading
    BY <1>3 DEF Lists, Searched, Reading
  <1>5. ResolvedInv'
    <2>1. ASSUME NEW n \in 1..Len(resolved)
          PROVE  \E s \in past' : Returned(s, NthRepository(n), NthPlacement(n), resolved[n])
      BY <1>1 DEF ReadInv, ResolvedInv
    <2>2. UNCHANGED Resolutions /\ UNCHANGED Context
      BY <1>3 DEF Resolutions, Context
    <2>3. \A n \in 1..Len(resolved) :
            NthRepository(n)' = NthRepository(n) /\ NthPlacement(n)' = NthPlacement(n)
      BY <1>3, <2>2 DEF NthRepository, NthPlacement
    <2> QED
      BY <1>3, <1>4, <2>1, <2>2, <2>3 DEF ReadInv, ResolvedInv
  <1>6. ScanInv'
    BY <1>3, <1>4 DEF ReadInv, ScanInv
  <1>7. TopicsInv'
    BY <1>1, <1>3, <1>4 DEF ReadInv, TopicsInv, Passed
  <1>8. EntriesInv'
    <2>1. ASSUME NEW e \in Range(entries), Reading PROVE EntrySound(e)'
      <3>1. EntrySound(e)
        BY <2>1 DEF ReadInv, EntriesInv
      <3> QED
        BY <1>1, <1>3, <1>4, <3>1 DEF EntrySound, Matches
    <2>2. ASSUME NEW n, NEW p, SourceComplete(n, p) PROVE SourceComplete(n, p)'
      BY <1>1, <1>3, <2>2 DEF SourceComplete, Matches
    <2>3. \A n, k : SourceRead(n, k)' <=> SourceRead(n, k)
      BY <1>3, <1>4 DEF SourceRead, Passed
    <2> QED
      BY <1>3, <1>4, <2>1, <2>2, <2>3 DEF ReadInv, EntriesInv
  <1> QED
    BY <1>1, <1>2, <1>5, <1>6, <1>7, <1>8 DEF ReadInv

LEMMA ReadKeepsStore ==
  ASSUME ReadInv, UNCHANGED <<storeVars, past>>
  PROVE  /\ UNCHANGED Store /\ UNCHANGED past /\ (Store \in past)' /\ StoreInv'
         /\ UNCHANGED memories
  <1>1. UNCHANGED storeVars /\ UNCHANGED past /\ UNCHANGED Store /\ UNCHANGED memories
    BY DEF storeVars, Store
  <1>2. StoreInv'
    BY <1>1, StepStoreInv DEF ReadInv
  <1>3. Store' \in past'
    BY <1>1 DEF ReadInv
  <1> QED
    BY <1>1, <1>2, <1>3

\* Before any topic of a target is read nothing is claimed of it.
FreshTarget ==
  /\ phase = "topics" /\ topics = NoTopics
  /\ Lists[target] \in Seq(Placements) /\ pending = Lists[target]

LEMMA NoTopicsYet == FreshTarget => TopicsInv
  <1> SUFFICES ASSUME FreshTarget PROVE TopicsInv
    OBVIOUS
  <1> USE DEF FreshTarget
  <1> DEFINE L == Lists[target]
  <1>1. Len(L) \in Nat /\ DOMAIN L = 1..Len(L)
    OBVIOUS
  <1>2. topics \in [{"repository", "domain"} -> SUBSET Range(Topic)]
    BY DEF NoTopics
  <1>3. \A kind \in {"repository", "domain"} : topics[kind] = {}
    BY DEF NoTopics
  <1>4. \A k \in DOMAIN L : ~(phase = "rows" \/ Passed(k))
    BY <1>1 DEF Passed
  <1> QED
    BY <1>2, <1>3, <1>4 DEF TopicsInv

LEMMA ResolveRead ==
  ASSUME ReadInv, Resolve, UNCHANGED <<storeVars, past>>
  PROVE  ReadInv'
  <1>1. /\ UNCHANGED Store /\ UNCHANGED past /\ (Store \in past)' /\ StoreInv'
    BY ReadKeepsStore
  <1>2. /\ phase = "resolving" /\ entries = <<>> /\ target = 1 /\ topics = NoTopics
        /\ call \in Calls /\ resolved \in Seq(Seq(Placements)) /\ Len(resolved) < Resolutions
        /\ \A n \in 1..Len(resolved) :
             \E s \in past : Returned(s, NthRepository(n), NthPlacement(n), resolved[n])
    BY DEF Resolve, ReadInv, ResolvedInv
  <1>3. /\ UNCHANGED call /\ UNCHANGED target /\ UNCHANGED topics /\ UNCHANGED entries
    BY DEF Resolve
  <1>4. /\ UNCHANGED Resolutions /\ UNCHANGED Context
    BY <1>3 DEF Resolutions, Context
  <1>5. \A n : NthRepository(n)' = NthRepository(n) /\ NthPlacement(n)' = NthPlacement(n)
    BY <1>3, <1>4 DEF NthRepository, NthPlacement
  <1> DEFINE n == Len(resolved) + 1
  <1>6. PICK sources \in Sources(NthRepository(n), NthPlacement(n)) :
          /\ resolved' = Append(resolved, sources)
          /\ IF n < Resolutions THEN UNCHANGED <<phase, pending>>
             ELSE phase' = "topics" /\ pending' = Searched(Append(resolved, sources))[1]
    BY DEF Resolve
  <1>7. Resolutions \in Nat \ {0} /\ Len(resolved) \in Nat /\ n \in 1..Resolutions
    BY <1>2, NumberedCalls
  <1>8. NthRepository(n) \in Repositories /\ NthPlacement(n) \in Placements \cup {NoPlacement}
    BY <1>2, <1>7, NumberedCalls
  <1>9. Returned(Store, NthRepository(n), NthPlacement(n), sources)
    <2>1. TypeOK
      BY DEF ReadInv, StoreInv
    <2> QED
      BY <1>6, <1>8, <2>1, SourcesReturned
  <1> HIDE DEF n
  <1>10. sources \in Seq(Placements)
    BY <1>9 DEF Returned
  <1>11. /\ resolved' \in Seq(Seq(Placements)) /\ Len(resolved') = n
         /\ resolved'[n] = sources /\ \A m \in 1..Len(resolved) : resolved'[m] = resolved[m]
    BY <1>2, <1>6, <1>7, <1>10 DEF n
  <1>12. \A m \in 1..n : m = n \/ m \in 1..Len(resolved)
    BY <1>7 DEF n
  <1>13. \A m \in 1..n : \E s \in past : Returned(s, NthRepository(m), NthPlacement(m), resolved'[m])
    BY <1>2, <1>9, <1>11, <1>12 DEF ReadInv
  <1>14. CASE n < Resolutions
    <2>1. phase' = "resolving" /\ ~Reading'
      BY <1>2, <1>6, <1>14 DEF Reading
    <2>2. ResolvedInv'
      BY <1>1, <1>2, <1>3, <1>4, <1>5, <1>7, <1>11, <1>13, <2>1 DEF ResolvedInv
    <2>3. ScanInv' /\ TopicsInv' /\ EntriesInv'
      BY <1>2, <1>3, <2>1 DEF ScanInv, TopicsInv, EntriesInv
    <2> QED
      BY <1>1, <2>2, <2>3 DEF ReadInv
  <1>15. CASE ~(n < Resolutions)
    <2>1. n = Resolutions /\ phase' = "topics" /\ pending' = Searched(resolved')[1]
      BY <1>6, <1>7, <1>15
    <2>2. ResolvedInv'
      BY <1>1, <1>2, <1>3, <1>4, <1>5, <1>7, <1>11, <1>13, <2>1 DEF ResolvedInv, Reading
    <2>3. UNCHANGED call /\ Lists' = Searched(resolved')
      BY <1>3 DEF Lists, Searched
    <2>4. Lists' \in Seq(Seq(Placements)) /\ Len(Lists') \in Nat \ {0}
      BY <1>2, <1>11, <2>1, <2>3, SearchedShape
    <2>5. Lists'[1] \in Seq(Placements) /\ pending' = Lists'[1] /\ target' = 1
      BY <1>2, <1>3, <2>1, <2>3, <2>4
    <2>6. ScanInv'
      BY <2>1, <2>4, <2>5 DEF ScanInv
    <2>7. TopicsInv'
      <3>1. FreshTarget'
        BY <1>2, <1>3, <2>1, <2>5 DEF FreshTarget
      <3> QED
        BY <3>1, NoTopicsYet, PTL
    <2>8. EntriesInv'
      BY <1>2, <1>3, <2>1, <2>5 DEF EntriesInv, SourceRead, Range
    <2> QED
      BY <1>1, <2>2, <2>6, <2>7, <2>8 DEF ReadInv
  <1> QED
    BY <1>14, <1>15

LEMMA RefuseRead ==
  ASSUME ReadInv, Refuse, UNCHANGED <<storeVars, past>>
  PROVE  ReadInv'
  <1>1. /\ UNCHANGED Store /\ UNCHANGED past /\ (Store \in past)' /\ StoreInv'
    BY ReadKeepsStore
  <1>2. phase' = "failed" /\ ~Reading' /\ UNCHANGED call /\ UNCHANGED resolved /\ UNCHANGED entries
    BY DEF Refuse, Reading
  <1>3. UNCHANGED Resolutions /\ UNCHANGED Context
    BY <1>2 DEF Resolutions, Context
  <1>4. \A n : NthRepository(n)' = NthRepository(n) /\ NthPlacement(n)' = NthPlacement(n)
    BY <1>2, <1>3 DEF NthRepository, NthPlacement
  <1>5. ResolvedInv'
    BY <1>1, <1>2, <1>3, <1>4 DEF ReadInv, ResolvedInv
  <1>6. ScanInv' /\ TopicsInv' /\ EntriesInv'
    BY <1>2 DEF ReadInv, ScanInv, TopicsInv, EntriesInv
  <1> QED
    BY <1>1, <1>5, <1>6 DEF ReadInv

LEMMA ReadTopicsRead ==
  ASSUME ReadInv, ReadTopics, UNCHANGED <<storeVars, past>>
  PROVE  ReadInv'
  <1>1. /\ UNCHANGED Store /\ UNCHANGED past /\ (Store \in past)' /\ StoreInv'
    BY ReadKeepsStore
  <1>2. /\ UNCHANGED call /\ UNCHANGED resolved /\ UNCHANGED target /\ UNCHANGED entries
        /\ phase = "topics" /\ Reading
    BY DEF ReadTopics, Reading
  <1>3. UNCHANGED Resolutions /\ UNCHANGED Context /\ UNCHANGED Lists
    BY <1>2 DEF Resolutions, Context, Lists, Searched
  <1>4. \A n : NthRepository(n)' = NthRepository(n) /\ NthPlacement(n)' = NthPlacement(n)
    BY <1>2, <1>3 DEF NthRepository, NthPlacement
  <1>5. phase' \in {"topics", "rows"} /\ Reading'
    BY <1>2 DEF ReadTopics, Reading
  <1>6. ResolvedInv'
    BY <1>1, <1>2, <1>3, <1>4, <1>5 DEF ReadInv, ResolvedInv
  <1> DEFINE L == Lists[target]
  <1>7. L \in Seq(Placements) /\ DOMAIN L = 1..Len(L) /\ \A k \in DOMAIN L : L[k] \in Placements
    BY <1>2, ListsShape
  <1>8. Len(L) \in Nat
    BY <1>7
  <1>9. /\ target \in 1..Len(Lists) /\ pending \in Seq(Placements) /\ Len(pending) <= Len(L)
        /\ \A j \in 1..Len(pending) : pending[j] = L[Len(L) - Len(pending) + j]
    BY <1>2 DEF ReadInv, ScanInv
  <1>10. /\ topics \in [{"repository", "domain"} -> SUBSET Range(Topic)]
         /\ \A kind \in {"repository", "domain"} : \A t \in topics[kind] :
              /\ t # NoTopic
              /\ \E q \in Range(L) : q.kind = kind /\ \E s \in past : Says(s, q, t)
         /\ \A k \in DOMAIN L :
              L[k].kind # "universal" /\ Passed(k) =>
                \A t \in Range(Topic) :
                  t # NoTopic /\ (\A s \in past : Says(s, L[k], t)) => t \in topics[L[k].kind]
    BY <1>2 DEF ReadInv, TopicsInv
  <1>11. EntriesInv'
    <2>1. ASSUME NEW e \in Range(entries) PROVE EntrySound(e)'
      <3>1. EntrySound(e)
        BY <1>2 DEF ReadInv, EntriesInv
      <3> QED
        BY <1>1, <1>2, <1>3, <3>1 DEF EntrySound, Matches
    <2>2. \A n, p : SourceComplete(n, p)' <=> SourceComplete(n, p)
      BY <1>1, <1>2, <1>3 DEF SourceComplete, Matches
    <2>3. ASSUME NEW n \in 1..target, NEW k \in DOMAIN Lists[n], SourceRead(n, k)'
          PROVE  n < target
      <3>1. CASE n = target
        <4>1. phase' = "rows" /\ Passed(k)'
          BY <1>2, <1>5, <2>3, <3>1 DEF SourceRead
        <4>2. pending' = L
          BY <1>2, <4>1 DEF ReadTopics, Lists
        <4>3. k <= Len(L) - Len(L) /\ k \in 1..Len(L)
          BY <1>2, <1>3, <1>7, <3>1, <4>1, <4>2 DEF Passed
        <4> QED
          BY <1>8, <4>3
      <3> QED
        BY <1>2, <1>9, <2>3, <3>1 DEF SourceRead
    <2>4. \A n \in 1..target : \A k \in DOMAIN Lists[n] :
            n < target => SourceComplete(n, Lists[n][k])
      <3>1. \A n, k : n < target => SourceRead(n, k)
        BY DEF SourceRead
      <3>2. \A n \in 1..target : \A k \in DOMAIN Lists[n] :
              SourceRead(n, k) => SourceComplete(n, Lists[n][k])
        BY <1>2 DEF ReadInv, EntriesInv
      <3> QED
        BY <3>1, <3>2
    <2>5. \A n \in 1..target : \A k \in DOMAIN Lists[n] :
            SourceRead(n, k)' => SourceComplete(n, Lists[n][k])'
      BY <1>3, <2>2, <2>3, <2>4
    <2>6. entries' \in Seq(ReadRow)
      BY <1>2 DEF ReadInv, EntriesInv
    <2> QED
      BY <1>2, <1>3, <2>1, <2>5, <2>6 DEF EntriesInv
  <1>12. CASE pending = <<>>
    <2>1. phase' = "rows" /\ pending' = L /\ UNCHANGED topics
      BY <1>12 DEF ReadTopics, Lists
    <2>2. \A j \in 1..Len(L) : L[j] = L[Len(L) - Len(L) + j]
      BY <1>8
    <2>3. L # <<>>
      BY <1>2, ListsShape
    <2>4. ScanInv'
      BY <1>2, <1>3, <1>5, <1>7, <1>8, <1>9, <2>1, <2>2, <2>3 DEF ScanInv
    <2>5. \A k \in DOMAIN L : Passed(k)
      BY <1>7, <1>8, <1>12 DEF Passed
    <2>6. TopicsInv'
      BY <1>1, <1>2, <1>3, <1>10, <2>1, <2>5 DEF TopicsInv
    <2> QED
      BY <1>1, <1>6, <1>11, <2>4, <2>6 DEF ReadInv
  <1>13. CASE pending # <<>>
    <2> DEFINE q == Head(pending)
               k == Len(L) - Len(pending) + 1
    <2>1. phase' = "topics" /\ pending' = Tail(pending)
      BY <1>2, <1>13 DEF ReadTopics
    <2>2. topics' = IF q.kind = "universal" THEN topics
                    ELSE [topics EXCEPT ![q.kind] = @ \cup SourceTopics(q)]
      BY <1>13 DEF ReadTopics
    <2>3. Len(pending) \in Nat /\ Len(pending) # 0 /\ q = pending[1]
      BY <1>9, <1>13
    <2>4. k \in DOMAIN L /\ L[k] = q
      <3>1. k \in 1..Len(L)
        BY <1>8, <1>9, <2>3
      <3>2. 1 \in 1..Len(pending)
        BY <2>3
      <3> QED
        BY <1>7, <1>9, <2>3, <3>1, <3>2
    <2>5. q \in Placements /\ q \in Range(L)
      BY <1>7, <2>4 DEF Range
    <2>6. /\ Tail(pending) \in Seq(Placements) /\ Len(Tail(pending)) = Len(pending) - 1
          /\ \A j \in 1..(Len(pending) - 1) : Tail(pending)[j] = pending[j + 1]
      BY <1>9, <1>13
    <2> HIDE DEF q, k
    <2>7. ScanInv'
      <3>1. Len(pending') <= Len(L)
        BY <1>8, <1>9, <2>1, <2>3, <2>6
      <3>2. ASSUME NEW j \in 1..Len(pending') PROVE pending'[j] = L[Len(L) - Len(pending') + j]
        <4>1. j + 1 \in 1..Len(pending) /\ j \in 1..(Len(pending) - 1)
          BY <2>1, <2>3, <2>6, <3>2
        <4>2. pending'[j] = pending[j + 1]
          BY <2>1, <2>6, <4>1
        <4>3. Len(L) - Len(pending) + (j + 1) = Len(L) - Len(pending') + j
          <5>1. Len(pending') = Len(pending) - 1 /\ j \in Nat
            BY <2>1, <2>6, <4>1
          <5>2. \A a, b \in Nat, i \in Nat : a - b + (i + 1) = a - (b - 1) + i
            OBVIOUS
          <5> HIDE DEF L
          <5> QED
            BY <1>8, <2>3, <5>1, <5>2
        <4> QED
          BY <1>9, <4>1, <4>2, <4>3
      <3> QED
        BY <1>2, <1>3, <1>9, <2>1, <2>6, <3>1, <3>2 DEF ScanInv
    <2>8. \A j \in DOMAIN L : Passed(j)' => Passed(j) \/ j = k
      BY <1>2, <1>3, <1>7, <1>8, <2>1, <2>3, <2>6 DEF Passed, k
    <2>9. CASE q.kind = "universal"
      <3>1. UNCHANGED topics
        BY <2>2, <2>9
      <3>2. \A j \in DOMAIN L : L[j].kind # "universal" /\ Passed(j)' => Passed(j)
        BY <2>4, <2>8, <2>9
      <3>3. TopicsInv'
        BY <1>1, <1>2, <1>3, <1>10, <2>1, <3>1, <3>2 DEF TopicsInv
      <3> QED
        BY <1>1, <1>6, <1>11, <2>7, <3>3 DEF ReadInv
    <2>10. CASE q.kind # "universal"
      <3>1. q.kind \in {"repository", "domain"}
        BY <2>5, <2>10, PlacementKinds
      <3>2. topics' = [topics EXCEPT ![q.kind] = topics[q.kind] \cup SourceTopics(q)]
        BY <2>2, <2>10
      <3>3. \A t : t \in SourceTopics(q) <=> t # NoTopic /\ Says(Store, q, t)
        BY <2>5, SourceTopicsFact
      <3>4. SourceTopics(q) \in SUBSET Range(Topic)
        <4>1. \A i \in Live : memories[i].text \in Texts
          BY DEF ReadInv, StoreInv, TypeOK, IsTable, Memory, Live
        <4> QED
          BY <4>1, TopicAssumption DEF SourceTopics, Range
      <3>5. topics' \in [{"repository", "domain"} -> SUBSET Range(Topic)]
        BY <1>10, <3>1, <3>2, <3>4
      <3>6. \A kind \in {"repository", "domain"} :
              topics'[kind] = IF kind = q.kind THEN topics[kind] \cup SourceTopics(q) ELSE topics[kind]
        BY <1>10, <3>1, <3>2
      <3>7. Store \in past
        BY DEF ReadInv
      <3>8. ASSUME NEW kind \in {"repository", "domain"}, NEW t \in topics'[kind]
            PROVE  /\ t # NoTopic
                   /\ \E x \in Range(L) : x.kind = kind /\ \E s \in past : Says(s, x, t)
        <4>1. CASE t \in topics[kind]
          BY <1>10, <4>1
        <4>2. CASE kind = q.kind /\ t \in SourceTopics(q)
          BY <2>5, <3>3, <3>7, <4>2
        <4> QED
          BY <3>6, <3>8, <4>1, <4>2
      <3>9. ASSUME NEW j \in DOMAIN L, L[j].kind # "universal", Passed(j)', NEW t \in Range(Topic),
                   t # NoTopic, \A s \in past : Says(s, L[j], t)
            PROVE  t \in topics'[L[j].kind]
        <4>1. L[j].kind \in {"repository", "domain"}
          BY <1>7, <3>9, PlacementKinds
        <4>2. CASE Passed(j)
          BY <1>10, <3>6, <3>9, <4>1, <4>2
        <4>3. CASE j = k
          BY <2>4, <3>3, <3>6, <3>7, <3>9, <4>1, <4>3
        <4> QED
          BY <2>8, <3>9, <4>2, <4>3
      <3>10. TopicsInv'
        BY <1>1, <1>2, <1>3, <2>1, <3>5, <3>8, <3>9 DEF TopicsInv
      <3> QED
        BY <1>1, <1>6, <1>11, <2>7, <3>10 DEF ReadInv
    <2> QED
      BY <2>9, <2>10
  <1> QED
    BY <1>12, <1>13

\* What a step of the rows phase appends.
NewRows(order, p, source) == [n \in DOMAIN order |-> EntryOf(order[n], p, source)]

LEMMA NewRowsFacts ==
  ASSUME ReadInv, phase = "rows", pending # <<>>, NEW source \in Nat,
         NEW order \in RowOrders({i \in Live : AtPlacement(i, Head(pending)) /\ Hit(i)})
  PROVE  LET p == Head(pending)
             rows == NewRows(order, p, source)
         IN  /\ rows \in Seq(ReadRow)
             /\ \A e \in Range(rows) :
                  /\ e.target = target /\ e.placement = p /\ e.id \in Live
                  /\ e.text = memories[e.id].text /\ RowOf(Store, e.id, p) /\ Matches(e.text)
                  /\ e.visible = ~ShadowedAt(p, Topic[e.text])
             /\ \A i \in MemoryIds :
                  RowOf(Store, i, p) /\ Matches(Store.memories[i].text) =>
                    \E e \in Range(rows) : Key(e) = <<p, i>> /\ e.text = Store.memories[i].text
  <1> DEFINE p == Head(pending)
             ids == {i \in Live : AtPlacement(i, p) /\ Hit(i)}
             rows == NewRows(order, p, source)
  <1>1. pending \in Seq(Placements) /\ target \in Nat
    BY DEF ReadInv, ScanInv, Reading
  <1>2. p \in Placements
    BY <1>1
  <1>3. TypeOK
    BY DEF ReadInv, StoreInv
  <1>4. /\ Live \subseteq MemoryIds /\ IsFiniteSet(Live)
        /\ \A i \in Live : memories[i].text \in Texts /\ memories[i].placement \in Placements
    <2>1. Live \subseteq MemoryIds
      BY <1>3 DEF TypeOK, IsTable, Live
    <2>2. IsFiniteSet(MemoryIds)
      BY MaxIdAssumption, FS_Interval DEF MemoryIds
    <2>3. IsFiniteSet(Live)
      BY <2>1, <2>2, FS_Subset
    <2> QED
      BY <1>3, <2>1, <2>3 DEF TypeOK, IsTable, Memory, Live
  <1>5. ids \subseteq Live /\ IsFiniteSet(ids)
    BY <1>4, FS_Subset
  <1>6. order \in SetToSeqs(ids)
    BY DEF RowOrders
  <1>7. \A i \in ids : RowOf(Store, i, p) /\ Matches(memories[i].text)
    BY DEF AtPlacement, Hit, Matches, RowOf, Store, Live
  <1>8. \A i \in Live : RowOf(Store, i, p) /\ Matches(memories[i].text) => i \in ids
    BY DEF AtPlacement, Hit, Matches, RowOf, Store, Live
  <1> HIDE DEF ids, p
  <1>9. /\ order \in Seq(ids) /\ DOMAIN order = 1..Len(order)
        /\ \A n \in DOMAIN order : order[n] \in ids
        /\ \A i \in ids : \E n \in DOMAIN order : order[n] = i
    BY <1>5, <1>6, SetToSeqsOnto
  <1>10. DOMAIN rows = DOMAIN order /\ \A n \in DOMAIN order : rows[n] = EntryOf(order[n], p, source)
    BY DEF NewRows
  <1>11. ASSUME NEW i \in ids PROVE EntryOf(i, p, source) \in ReadRow
    BY <1>1, <1>2, <1>4, <1>5, <1>11 DEF EntryOf, ReadRow, ShadowedAt
  <1>12. rows \in Seq(ReadRow)
    <2>1. Len(order) \in Nat
      BY <1>9
    <2>2. rows = [n \in 1..Len(order) |-> EntryOf(order[n], p, source)]
      BY <1>9 DEF NewRows
    <2>3. \A n \in 1..Len(order) : EntryOf(order[n], p, source) \in ReadRow
      BY <1>9, <1>11
    <2> HIDE DEF rows
    <2> QED
      BY <2>1, <2>2, <2>3
  <1> HIDE DEF rows
  <1>13. ASSUME NEW e \in Range(rows)
         PROVE  /\ e.target = target /\ e.placement = p /\ e.id \in Live
                /\ e.text = memories[e.id].text /\ RowOf(Store, e.id, p) /\ Matches(e.text)
                /\ e.visible = ~ShadowedAt(p, Topic[e.text])
    <2>1. PICK n \in DOMAIN order : e = EntryOf(order[n], p, source)
      BY <1>10 DEF Range
    <2>2. order[n] \in ids
      BY <1>9
    <2> QED
      BY <1>5, <1>7, <2>1, <2>2 DEF EntryOf
  <1>14. ASSUME NEW i \in MemoryIds, RowOf(Store, i, p), Matches(Store.memories[i].text)
         PROVE  \E e \in Range(rows) : Key(e) = <<p, i>> /\ e.text = Store.memories[i].text
    <2>1. Store.memories = memories /\ i \in Live
      BY <1>14 DEF RowOf, Store, Live
    <2>2. PICK n \in DOMAIN order : order[n] = i
      BY <1>8, <1>9, <1>14, <2>1
    <2>3. rows[n] \in Range(rows) /\ rows[n] = EntryOf(i, p, source)
      BY <1>10, <2>2 DEF Range
    <2> QED
      BY <2>1, <2>3 DEF EntryOf, Key
  <1> QED
    BY <1>12, <1>13, <1>14 DEF p, rows

\* A topic of the rows phase shadows what a source of the list has or had.
LEMMA ShadowedSound ==
  ASSUME ReadInv, phase = "rows", NEW p \in Range(Lists[target]), NEW text \in Texts
  PROVE  IF ~ShadowedAt(p, Topic[text])
         THEN \A q \in Range(Lists[target]) :
                Outranks(q, p) /\ Topic[text] # NoTopic => \E s \in past : ~Says(s, q, Topic[text])
         ELSE /\ Topic[text] # NoTopic
              /\ \E q \in Range(Lists[target]) :
                   Outranks(q, p) /\ \E s \in past : Says(s, q, Topic[text])
  <1> DEFINE L == Lists[target]
             t == Topic[text]
  <1>1. t \in Range(Topic)
    BY TopicAssumption DEF Range
  <1>2. \A k \in DOMAIN L : L[k] \in Placements
    BY ListsShape DEF Reading
  <1>3. p \in Placements /\ \A q \in Range(L) : q \in Placements
    BY <1>2 DEF Range
  <1>4. \A kind \in {"repository", "domain"} : \A u \in topics[kind] :
          u # NoTopic /\ \E q \in Range(L) : q.kind = kind /\ \E s \in past : Says(s, q, u)
    BY DEF ReadInv, TopicsInv
  <1>5. ASSUME NEW q \in Range(L), q.kind # "universal", t # NoTopic, \A s \in past : Says(s, q, t)
        PROVE  t \in topics[q.kind]
    <2>1. PICK k \in DOMAIN L : q = L[k]
      BY DEF Range
    <2>2. L[k].kind # "universal" => (t # NoTopic /\ (\A s \in past : Says(s, L[k], t)) => t \in topics[L[k].kind])
      BY <1>1 DEF ReadInv, TopicsInv
    <2> QED
      BY <1>5, <2>1, <2>2
  <1> HIDE DEF L, t
  <1>6. CASE ShadowedAt(p, t)
    <2>1. PICK kind \in {"repository", "domain"} :
            t \in topics[kind] /\ (p.kind = "universal" \/ (p.kind = "domain" /\ kind = "repository"))
      BY <1>3, <1>6, PlacementKinds DEF ShadowedAt
    <2>2. PICK q \in Range(L) : q.kind = kind /\ \E s \in past : Says(s, q, t)
      BY <1>4, <2>1
    <2>3. Outranks(q, p)
      BY <2>1, <2>2 DEF Outranks, Rank
    <2> QED
      BY <1>4, <1>6, <2>1, <2>2, <2>3 DEF L, t
  <1>7. CASE ~ShadowedAt(p, t)
    <2>1. ASSUME NEW q \in Range(L), Outranks(q, p), t # NoTopic, \A s \in past : Says(s, q, t)
          PROVE  FALSE
      <3>1. /\ q.kind \in {"universal", "repository", "domain"}
            /\ p.kind \in {"universal", "repository", "domain"}
        BY <1>3, PlacementKinds
      <3>2. /\ q.kind \in {"repository", "domain"} /\ p.kind \in {"domain", "universal"}
            /\ p.kind = "domain" => q.kind = "repository"
        BY <2>1, <3>1 DEF Outranks, Rank
      <3>3. t \in topics[q.kind]
        BY <1>5, <2>1, <3>2
      <3> QED
        BY <1>7, <3>2, <3>3 DEF ShadowedAt
    <2> QED
      BY <1>7, <2>1 DEF L, t
  <1> QED
    BY <1>6, <1>7 DEF t

LEMMA RangeAppended ==
  ASSUME NEW S, NEW s \in Seq(S), NEW t \in Seq(S)
  PROVE  /\ s \o t \in Seq(S)
         /\ \A x : x \in Range(s \o t) <=> x \in Range(s) \/ x \in Range(t)
  <1>1. /\ Len(s) \in Nat /\ Len(t) \in Nat /\ DOMAIN s = 1..Len(s) /\ DOMAIN t = 1..Len(t)
        /\ s \o t \in Seq(S) /\ DOMAIN (s \o t) = 1..(Len(s) + Len(t))
    OBVIOUS
  <1>2. /\ \A i \in 1..Len(s) : i \in DOMAIN (s \o t) /\ (s \o t)[i] = s[i]
        /\ \A i \in 1..Len(t) : Len(s) + i \in DOMAIN (s \o t) /\ (s \o t)[Len(s) + i] = t[i]
    BY <1>1
  <1>3. ASSUME NEW i \in DOMAIN (s \o t)
        PROVE  i \in 1..Len(s) \/ \E j \in 1..Len(t) : i = Len(s) + j
    <2>1. i \in 1..Len(s) \/ (i - Len(s) \in 1..Len(t) /\ i = Len(s) + (i - Len(s)))
      BY <1>1
    <2> QED
      BY <2>1
  <1>4. \A x : x \in Range(s \o t) => x \in Range(s) \/ x \in Range(t)
    BY <1>1, <1>2, <1>3 DEF Range
  <1>5. \A x : x \in Range(s) \/ x \in Range(t) => x \in Range(s \o t)
    BY <1>1, <1>2 DEF Range
  <1> QED
    BY <1>1, <1>4, <1>5

LEMMA ReadRowsRead ==
  ASSUME ReadInv, ReadRows, UNCHANGED <<storeVars, past>>
  PROVE  ReadInv'
  <1>1. /\ UNCHANGED Store /\ UNCHANGED past /\ (Store \in past)' /\ StoreInv' /\ Store \in past
    BY ReadKeepsStore DEF ReadInv
  <1>2. /\ UNCHANGED call /\ UNCHANGED resolved
        /\ phase = "rows" /\ Reading /\ pending # <<>>
    BY DEF ReadRows, Reading
  <1>3. UNCHANGED Resolutions /\ UNCHANGED Context /\ UNCHANGED Lists
    BY <1>2 DEF Resolutions, Context, Lists, Searched
  <1>4. \A n : NthRepository(n)' = NthRepository(n) /\ NthPlacement(n)' = NthPlacement(n)
    BY <1>2, <1>3 DEF NthRepository, NthPlacement
  <1>5. phase' \in {"topics", "rows"} /\ Reading'
    BY <1>2 DEF ReadRows, Reading
  <1>6. ResolvedInv'
    BY <1>1, <1>2, <1>3, <1>4, <1>5 DEF ReadInv, ResolvedInv
  <1> DEFINE L == Lists[target]
             p == Head(pending)
             source == Len(L) - Len(pending)
             k == source + 1
  <1>7. /\ Lists \in Seq(Seq(Placements)) /\ Len(Lists) \in Nat /\ target \in 1..Len(Lists)
        /\ \A n \in 1..Len(Lists) : /\ Lists[n] \in Seq(Placements) /\ DOMAIN Lists[n] = 1..Len(Lists[n])
                                    /\ Len(Lists[n]) \in Nat
    <2>1. \A n \in 1..Len(Lists) : Lists[n] \in Seq(Placements) => Len(Lists[n]) \in Nat
      OBVIOUS
    <2> QED
      BY <1>2, <2>1, ListsShape
  <1>8. L \in Seq(Placements) /\ DOMAIN L = 1..Len(L) /\ Len(L) \in Nat
    BY <1>7
  <1>9. /\ pending \in Seq(Placements) /\ Len(pending) <= Len(L)
        /\ \A j \in 1..Len(pending) : pending[j] = L[Len(L) - Len(pending) + j]
    BY <1>2 DEF ReadInv, ScanInv
  <1>10. Len(pending) \in Nat \ {0} /\ p = pending[1]
    BY <1>2, <1>9
  <1>11. source \in Nat /\ k \in DOMAIN L /\ L[k] = p /\ p \in Range(L)
    <2>1. k \in 1..Len(L) /\ source \in Nat
      BY <1>8, <1>9, <1>10
    <2>2. 1 \in 1..Len(pending)
      BY <1>10
    <2> QED
      BY <1>8, <1>9, <1>10, <2>1, <2>2 DEF Range
  <1> DEFINE ids == {i \in Live : AtPlacement(i, p) /\ Hit(i)}
  <1>12. PICK order \in RowOrders(ids) : entries' = entries \o NewRows(order, p, source)
    BY DEF ReadRows, NewRows, Lists
  <1> DEFINE rows == NewRows(order, p, source)
  <1>13. /\ rows \in Seq(ReadRow)
         /\ \A e \in Range(rows) :
              /\ e.target = target /\ e.placement = p /\ e.id \in Live
              /\ e.text = memories[e.id].text /\ RowOf(Store, e.id, p) /\ Matches(e.text)
              /\ e.visible = ~ShadowedAt(p, Topic[e.text])
         /\ \A i \in MemoryIds :
              RowOf(Store, i, p) /\ Matches(Store.memories[i].text) =>
                \E e \in Range(rows) : Key(e) = <<p, i>> /\ e.text = Store.memories[i].text
    BY <1>2, <1>11, <1>12, NewRowsFacts
  <1>14. \/ /\ Len(pending) = 1 /\ target < Len(Lists)
            /\ phase' = "topics" /\ target' = target + 1 /\ topics' = NoTopics
            /\ pending' = Lists[target + 1]
         \/ /\ ~(Len(pending) = 1 /\ target < Len(Lists))
            /\ phase' = "rows" /\ target' = target /\ topics' = topics
            /\ pending' = Tail(pending)
    BY <1>2 DEF ReadRows, Lists
  <1> HIDE DEF rows, p, source, k, ids
  <1>15. entries' \in Seq(ReadRow) /\ \A e : e \in Range(entries') <=> e \in Range(entries) \/ e \in Range(rows)
    <2>1. entries \in Seq(ReadRow) /\ entries' = entries \o rows
      BY <1>12 DEF ReadInv, EntriesInv, rows
    <2> HIDE DEF ReadRow
    <2> QED
      BY <1>13, <2>1, RangeAppended
  <1>16. target' \in 1..Len(Lists) /\ target \in 1..target' /\ target \in Nat /\ target' \in Nat
    BY <1>7, <1>14
  <1>17. ASSUME NEW e \in Range(entries') PROVE EntrySound(e)'
    <2>1. CASE e \in Range(entries)
      <3>1. EntrySound(e)
        BY <1>2, <2>1 DEF ReadInv, EntriesInv
      <3>2. e.target \in 1..target'
        BY <1>16, <3>1 DEF EntrySound
      <3> QED
        BY <1>1, <1>2, <1>3, <3>1, <3>2 DEF EntrySound, Matches
    <2>2. CASE e \in Range(rows)
      <3>1. /\ e.target = target /\ e.placement = p /\ e.id \in Live
            /\ e.text = memories[e.id].text /\ RowOf(Store, e.id, p) /\ Matches(e.text)
            /\ e.visible = ~ShadowedAt(p, Topic[e.text])
        BY <1>13, <2>2
      <3>2. e.text \in Texts
        BY <3>1 DEF ReadInv, StoreInv, TypeOK, IsTable, Memory, Live
      <3>3. IF e.visible
            THEN \A q \in Range(Lists[target]) :
                   Outranks(q, p) /\ Topic[e.text] # NoTopic => \E s \in past : ~Says(s, q, Topic[e.text])
            ELSE /\ Topic[e.text] # NoTopic
                 /\ \E q \in Range(Lists[target]) :
                      Outranks(q, p) /\ \E s \in past : Says(s, q, Topic[e.text])
        BY <1>2, <1>11, <3>1, <3>2, ShadowedSound
      <3>4. Store.memories[e.id].text = e.text
        BY <3>1 DEF Store
      <3> QED
        BY <1>1, <1>2, <1>3, <1>11, <1>16, <3>1, <3>3, <3>4 DEF EntrySound, Matches
    <2> QED
      BY <1>15, <2>1, <2>2
  <1>18. \A n, q : SourceComplete(n, q) => SourceComplete(n, q)'
    <2>1. \A e \in Range(entries) : e \in Range(entries')
      BY <1>15
    <2> QED
      BY <1>1, <1>2, <2>1 DEF SourceComplete, Matches
  <1>19. ASSUME NEW n, NEW q, n = target, q = p PROVE SourceComplete(n, q)'
    <2>1. \A i \in MemoryIds :
            RowOf(Store, i, q) /\ Matches(Store.memories[i].text) =>
              \E e \in Range(entries') :
                Key(e) = <<q, i>> /\ e.text = Store.memories[i].text /\ e.target = n
      BY <1>13, <1>15, <1>19
    <2> QED
      BY <1>1, <1>2, <2>1 DEF SourceComplete, Matches
  <1>20. ASSUME NEW n \in 1..target', NEW j \in DOMAIN Lists[n], SourceRead(n, j)'
         PROVE  (n <= target /\ SourceRead(n, j)) \/ (n = target /\ j = k)
    <2>1. n \in Nat /\ n \in 1..Len(Lists) /\ j \in 1..Len(Lists[n])
      BY <1>7, <1>16
    <2>2. CASE n < target
      BY <1>16, <2>1, <2>2 DEF SourceRead
    <2>3. CASE n = target
      <3>1. k = Len(L) - Len(pending) + 1 /\ j \in 1..Len(L)
        BY <2>1, <2>3 DEF k, source
      <3>2. j <= Len(L) - Len(pending) \/ j = k
        <4>1. CASE Len(pending) = 1
          BY <1>8, <3>1, <4>1
        <4>2. CASE Len(pending) # 1
          <5>1. target' = target /\ phase' = "rows" /\ pending' = Tail(pending)
            BY <1>14, <4>2
          <5>2. Passed(j)'
            BY <1>16, <1>20, <2>3, <5>1 DEF SourceRead
          <5>3. j <= Len(L) - Len(pending')
            BY <1>3, <5>1, <5>2 DEF Passed
          <5>4. Len(pending') = Len(pending) - 1
            BY <1>9, <1>10, <5>1
          <5> QED
            BY <1>8, <1>10, <3>1, <5>3, <5>4
        <4> QED
          BY <4>1, <4>2
      <3> QED
        BY <1>2, <2>3, <3>2 DEF SourceRead, Passed
    <2>4. CASE n > target
      <3>1. target' = target + 1 /\ phase' = "topics" /\ n = target'
        BY <1>14, <1>16, <2>1, <2>4
      <3>2. ~(n < target')
        BY <1>16, <3>1
      <3>3. ~SourceRead(n, j)'
        BY <3>1, <3>2 DEF SourceRead
      <3> QED
        BY <1>20, <3>3
    <2> QED
      BY <1>16, <2>1, <2>2, <2>3, <2>4
  <1>21. EntriesInv'
    <2>1. \A n \in 1..target : \A j \in DOMAIN Lists[n] :
            SourceRead(n, j) => SourceComplete(n, Lists[n][j])
      BY <1>2 DEF ReadInv, EntriesInv
    <2>2. ASSUME NEW n \in 1..target', NEW j \in DOMAIN Lists[n], SourceRead(n, j)',
                 NEW q, q = Lists[n][j]
          PROVE  SourceComplete(n, q)'
      <3>1. CASE n <= target /\ SourceRead(n, j)
        <4>1. n \in 1..target
          BY <1>16, <3>1
        <4> QED
          BY <1>18, <2>1, <2>2, <3>1, <4>1
      <3>2. CASE n = target /\ j = k
        BY <1>11, <1>19, <2>2, <3>2
      <3> QED
        BY <1>20, <2>2, <3>1, <3>2
    <2>3. \A n \in 1..target' : \A j \in DOMAIN Lists'[n] :
            SourceRead(n, j)' => SourceComplete(n, Lists[n][j])'
      BY <1>3, <2>2
    <2> QED
      BY <1>15, <1>17, <2>3 DEF EntriesInv
  <1>22. CASE /\ phase' = "topics" /\ target' = target + 1 /\ topics' = NoTopics
              /\ pending' = Lists[target + 1]
    <2>1. target + 1 \in 1..Len(Lists)
      BY <1>16, <1>22
    <2> DEFINE M == Lists[target + 1]
    <2>2. M \in Seq(Placements) /\ Len(M) \in Nat
      BY <1>7, <2>1
    <2>3. \A j \in 1..Len(M) : M[j] = M[Len(M) - Len(M) + j]
      BY <2>2
    <2>4. ScanInv'
      BY <1>3, <1>22, <2>1, <2>2, <2>3 DEF ScanInv
    <2>5. FreshTarget'
      BY <1>3, <1>22, <2>2 DEF FreshTarget
    <2>6. TopicsInv'
      BY <2>5, NoTopicsYet, PTL
    <2> QED
      BY <1>1, <1>6, <1>21, <2>4, <2>6 DEF ReadInv
  <1>23. CASE /\ ~(Len(pending) = 1 /\ target < Len(Lists))
              /\ phase' = "rows" /\ target' = target /\ topics' = topics
              /\ pending' = Tail(pending)
    <2>1. /\ pending' \in Seq(Placements) /\ Len(pending') = Len(pending) - 1
          /\ \A j \in 1..(Len(pending) - 1) : pending'[j] = pending[j + 1]
      BY <1>9, <1>10, <1>23
    <2>2. ASSUME NEW j \in 1..Len(pending') PROVE pending'[j] = L[Len(L) - Len(pending') + j]
      <3>1. j + 1 \in 1..Len(pending) /\ j \in 1..(Len(pending) - 1) /\ j \in Nat
        BY <1>10, <2>1
      <3>2. \A a, b \in Nat, i \in Nat : a - b + (i + 1) = a - (b - 1) + i
        OBVIOUS
      <3> HIDE DEF L
      <3>3. Len(L) - Len(pending) + (j + 1) = Len(L) - Len(pending') + j
        BY <1>8, <1>10, <2>1, <3>1, <3>2
      <3> QED
        BY <1>9, <2>1, <3>1, <3>3
    <2>3. Len(pending') <= Len(L)
      BY <1>8, <1>9, <1>10, <2>1
    <2>4. pending' = <<>> => target = Len(Lists)
      <3>1. pending' = <<>> => Len(pending) = 1
        BY <1>10, <2>1
      <3> QED
        BY <1>7, <1>16, <1>23, <3>1
    <2>5. ScanInv'
      BY <1>3, <1>16, <1>23, <2>1, <2>2, <2>3, <2>4 DEF ScanInv
    <2>6. TopicsInv'
      BY <1>1, <1>2, <1>3, <1>23 DEF ReadInv, TopicsInv
    <2> QED
      BY <1>1, <1>6, <1>21, <2>5, <2>6 DEF ReadInv
  <1> QED
    BY <1>14, <1>22, <1>23

LEMMA FinishRead ==
  ASSUME ReadInv, Finish, UNCHANGED <<storeVars, past>>
  PROVE  ReadInv'
  <1>1. /\ UNCHANGED Store /\ UNCHANGED past /\ (Store \in past)' /\ StoreInv'
    BY ReadKeepsStore
  <1>2. /\ UNCHANGED call /\ UNCHANGED resolved /\ UNCHANGED target /\ UNCHANGED entries
        /\ UNCHANGED pending /\ pending = <<>> /\ phase = "rows" /\ phase' = "done"
        /\ Reading /\ Reading'
    BY DEF Finish, Reading
  <1>3. UNCHANGED Resolutions /\ UNCHANGED Context /\ UNCHANGED Lists
    BY <1>2 DEF Resolutions, Context, Lists, Searched
  <1>4. \A n : NthRepository(n)' = NthRepository(n) /\ NthPlacement(n)' = NthPlacement(n)
    BY <1>2, <1>3 DEF NthRepository, NthPlacement
  <1>5. ResolvedInv'
    BY <1>1, <1>2, <1>3, <1>4 DEF ReadInv, ResolvedInv
  <1>6. ScanInv'
    BY <1>2, <1>3 DEF ReadInv, ScanInv
  <1>7. TopicsInv'
    BY <1>2 DEF TopicsInv
  <1>8. ASSUME NEW e \in Range(entries) PROVE EntrySound(e)'
    <2>1. EntrySound(e)
      BY <1>2 DEF ReadInv, EntriesInv
    <2> QED
      BY <1>1, <1>2, <1>3, <2>1 DEF EntrySound, Matches
  <1>9. ASSUME NEW n \in 1..target, NEW k \in DOMAIN Lists[n] PROVE SourceRead(n, k)
    <2>1. target \in 1..Len(Lists) /\ n \in 1..Len(Lists) /\ n \in Nat /\ target \in Nat
      BY <1>2, ListsShape
    <2>2. k \in 1..Len(Lists[n]) /\ Len(Lists[n]) \in Nat
      <3>1. Lists[n] \in Seq(Placements) /\ DOMAIN Lists[n] = 1..Len(Lists[n])
        BY <1>2, <2>1, ListsShape
      <3>2. Lists[n] \in Seq(Placements) => Len(Lists[n]) \in Nat
        OBVIOUS
      <3> QED
        BY <3>1, <3>2
    <2>3. Len(pending) = 0
      BY <1>2
    <2> QED
      BY <1>2, <2>1, <2>2, <2>3 DEF SourceRead, Passed
  <1>10. \A n, q : SourceComplete(n, q)' <=> SourceComplete(n, q)
    BY <1>1, <1>2 DEF SourceComplete, Matches
  <1>11. \A n \in 1..target : \A k \in DOMAIN Lists[n] : SourceComplete(n, Lists[n][k])'
    BY <1>2, <1>3, <1>9, <1>10 DEF ReadInv, EntriesInv
  <1>12. entries' \in Seq(ReadRow)
    BY <1>2 DEF ReadInv, EntriesInv
  <1>13. EntriesInv'
    BY <1>2, <1>3, <1>8, <1>11, <1>12 DEF EntriesInv
  <1> QED
    BY <1>1, <1>5, <1>6, <1>7, <1>13 DEF ReadInv

LEMMA StepReadInv == ReadInv /\ [ReadNext]_stackVars => ReadInv'
  <1> SUFFICES ASSUME ReadInv, [ReadNext]_stackVars PROVE ReadInv'
    OBVIOUS
  <1>1. CASE Read /\ UNCHANGED <<storeVars, past>>
    BY <1>1, ResolveRead, RefuseRead, ReadTopicsRead, ReadRowsRead, FinishRead DEF Read
  <1>2. CASE Commit
    <2>1. past \subseteq past' /\ Store' \in past' /\ UNCHANGED readVars
      BY <1>2 DEF Commit
    <2>2. StoreInv'
      BY <1>2, StepStoreInv DEF Commit, ReadInv
    <2> QED
      BY <2>1, <2>2, WatchedRead
  <1>3. CASE UNCHANGED stackVars
    <2>1. UNCHANGED <<storeVars, past>> /\ UNCHANGED readVars /\ UNCHANGED past
      BY <1>3 DEF stackVars
    <2>2. (Store \in past)' /\ StoreInv'
      BY <2>1, ReadKeepsStore
    <2> QED
      BY <2>1, <2>2, WatchedRead
  <1> QED
    BY <1>1, <1>2, <1>3 DEF ReadNext
-----------------------------------------------------------------------------
(* What the invariant says of a finished call.                             *)

\* A list that was read, compared with the stack of its repository.
LEMMA ListFacts ==
  ASSUME ReadInv, phase = "done", NEW n \in 1..Len(Lists)
  PROVE  LET r == NthRepository(n)
             L == Lists[n]
         IN  /\ \A q \in Range(L) :
                  (\E s \in past : Stacked(s, r, q)) \/ (call.exact /\ L = <<call.placement>>)
             /\ \A p \in Placements : Asked(p) /\ (\A s \in past : Stacked(s, r, p)) => p \in Range(L)
             /\ WholeStack /\ (call.exact => \A s \in past : Stacked(s, r, call.placement)) =>
                  \A q \in Placements : (\A s \in past : Stacked(s, r, q)) => q \in Range(L)
             /\ ~WholeStack => L = <<call.placement>>
  <1> DEFINE L == Lists[n]
             Judged(list, r, p) ==
               \E s \in past : Returned(s, r, p, list)
  <1>1. call \in Calls /\ resolved \in Seq(Seq(Placements)) /\ Len(resolved) = Resolutions
    BY DEF ReadInv, ResolvedInv, Reading
  <1>2. \A m \in 1..Resolutions : Judged(resolved[m], NthRepository(m), NthPlacement(m))
    BY <1>1 DEF ReadInv, ResolvedInv
  <1>3. CASE call.command = "recall"
    <2>1. ~call.exact /\ L = resolved[n] /\ n \in 1..Resolutions
      BY <1>1, <1>3, SearchedShape, CallFacts DEF Lists, Resolutions
    <2>2. NthPlacement(n) = call.placement
      BY <1>3 DEF NthPlacement
    <2>3. PICK s \in past : Returned(s, NthRepository(n), call.placement, L)
      BY <1>2, <2>1, <2>2
    <2> HIDE DEF L
    <2> QED
      BY <2>1, <2>3 DEF Returned, WholeStack, Asked, Range, L
  <1>4. CASE call.command = "list"
    <2>1. n = 1 /\ L = Lists[1] /\ \A m : NthRepository(m) = Context
      <3>1. Len(Lists) = 1
        BY <1>1, <1>4, SearchedShape DEF Lists
      <3>2. n \in 1..1
        BY <3>1
      <3> QED
        BY <1>4, <3>2 DEF NthRepository
    <2>2. CASE ~call.exact
      <3>1. L = resolved[3] /\ 3 \in 1..Resolutions /\ NthPlacement(3) = call.placement
        BY <1>1, <1>4, <2>1, <2>2, SearchedShape DEF Lists, Resolutions, NthPlacement
      <3>2. PICK s \in past : Returned(s, Context, call.placement, L)
        BY <1>2, <2>1, <3>1
      <3> HIDE DEF L
      <3> QED
        BY <2>1, <2>2, <3>2 DEF Returned, WholeStack, Asked, Range, L
    <2>3. CASE call.exact
      <3>1. 1 \in 1..Resolutions /\ NthPlacement(1) = NoPlacement /\ WholeStack
        BY <1>4, <2>3 DEF Resolutions, NthPlacement, WholeStack
      <3>2. PICK s \in past : Returned(s, Context, NoPlacement, resolved[1])
        BY <1>2, <2>1, <3>1
      <3>3. call.placement \in Placements /\ call.placement # NoPlacement
        BY <1>1, <2>3, CallFacts, NoPlacementAssumption
      <3>4. \A p : Asked(p) => p = call.placement
        BY <3>3 DEF Asked
      <3>5. /\ \A q \in Range(resolved[1]) : Stacked(s, Context, q)
            /\ \A q \in Placements : Stacked(s, Context, q) => q \in Range(resolved[1])
        BY <3>2 DEF Returned
      <3>6. CASE L = resolved[1] /\ call.placement \in Range(resolved[1])
        BY <2>1, <3>1, <3>4, <3>5, <3>6
      <3>7. CASE L # resolved[1] \/ call.placement \notin Range(resolved[1])
        <4>1. L = <<call.placement>> /\ call.placement \notin Range(resolved[1])
          BY <1>1, <2>1, <2>3, <3>7, SearchedShape DEF Lists
        <4>2. Range(L) = {call.placement}
          BY <4>1 DEF Range
        <4>3. ~\A x \in past : Stacked(x, Context, call.placement)
          BY <3>3, <3>5, <4>1
        <4> QED
          BY <2>1, <2>3, <3>1, <3>4, <4>1, <4>2, <4>3
      <3> QED
        BY <3>6, <3>7
    <2> QED
      BY <2>2, <2>3
  <1> QED
    BY <1>1, <1>3, <1>4, CallFacts

\* All rows of all sources of all lists have been read.
LEMMA DoneFacts ==
  ASSUME ReadInv, phase = "done"
  PROVE  /\ call \in Calls /\ target = Len(Lists)
         /\ \A n \in 1..Len(Lists), p \in Placements : p \in Range(Lists[n]) => SourceComplete(n, p)
         /\ \A e \in Range(entries) : EntrySound(e) /\ e.target \in 1..Len(Lists)
         /\ \A n \in 1..Len(Lists) : \A q \in Range(Lists[n]) : q \in Placements
  <1>1. Reading /\ call \in Calls /\ target = Len(Lists)
    BY DEF ReadInv, ResolvedInv, ScanInv, Reading
  <1>2. ASSUME NEW n \in 1..Len(Lists), NEW p \in Placements, p \in Range(Lists[n])
        PROVE  SourceComplete(n, p)
    <2>1. PICK k \in DOMAIN Lists[n] : p = Lists[n][k]
      BY <1>2 DEF Range
    <2>2. SourceRead(n, k)
      <3>1. Len(Lists) \in Nat
        BY <1>1, ListsShape
      <3>2. n < target \/ n = target
        BY <1>1, <3>1
      <3> QED
        BY <3>2 DEF SourceRead
    <2>3. SourceRead(n, k) => SourceComplete(n, Lists[n][k])
      BY <1>1 DEF ReadInv, EntriesInv
    <2> QED
      BY <2>1, <2>2, <2>3
  <1>3. \A e \in Range(entries) : EntrySound(e) /\ e.target \in 1..Len(Lists)
    BY <1>1 DEF ReadInv, EntriesInv, EntrySound
  <1>4. \A n \in 1..Len(Lists) : \A q \in Range(Lists[n]) : q \in Placements
    BY <1>1, ListsShape DEF Range
  <1> QED
    BY <1>1, <1>2, <1>3, <1>4

\* The first visible entry of a record represents it in the merged answer.
LEMMA MergedFacts ==
  ASSUME ReadInv
  PROVE  /\ \A j \in DOMAIN entries : entries[j].visible =>
              \E i \in Showing(Key(entries[j])) : MergedResult(entries[i]) \in Range(Merged)
         /\ \A m \in Range(Merged) : \E i \in Firsts : m = MergedResult(entries[i])
  <1>1. entries \in Seq(ReadRow)
    BY DEF ReadInv, EntriesInv
  <1>2. DOMAIN entries = 1..Len(entries) /\ Len(entries) \in Nat
    BY <1>1
  <1>3. DOMAIN entries \in SUBSET Nat /\ IsFiniteSet(DOMAIN entries)
    BY <1>2, FS_Interval
  <1>4. Firsts \in SUBSET Nat /\ IsFiniteSet(Firsts) /\ Firsts \subseteq DOMAIN entries
    BY <1>3, FS_Subset DEF Firsts
  <1>5. ASSUME NEW i \in Firsts PROVE MergedResult(entries[i]) \in Range(Merged)
    <2>1. PICK n \in 1..Cardinality(Firsts) : Nth(Firsts, n) = i
      BY <1>4, NthOnto
    <2> QED
      BY <2>1 DEF Merged, Range
  <1>6. ASSUME NEW m \in Range(Merged) PROVE \E i \in Firsts : m = MergedResult(entries[i])
    <2>1. PICK n \in 1..Cardinality(Firsts) : m = MergedResult(entries[Nth(Firsts, n)])
      BY DEF Merged, Range
    <2>2. Nth(Firsts, n) \in Firsts
      BY <1>4, NthOnto
    <2> QED
      BY <2>1, <2>2
  <1>7. ASSUME NEW j \in DOMAIN entries, entries[j].visible
        PROVE  \E i \in Showing(Key(entries[j])) : MergedResult(entries[i]) \in Range(Merged)
    <2> DEFINE T == Showing(Key(entries[j]))
    <2>1. j \in T /\ T \in SUBSET Nat /\ T \subseteq DOMAIN entries /\ IsFiniteSet(T)
      BY <1>3, <1>7, FS_Subset DEF Showing
    <2>2. PICK i \in T : \A x \in T : i <= x
      <3> HIDE DEF T
      <3> QED
        BY <2>1, LeastOf
    <2>3. entries[i].visible /\ Key(entries[i]) = Key(entries[j])
      BY <2>2 DEF Showing
    <2>4. i \in Firsts
      BY <2>1, <2>2, <2>3 DEF Firsts
    <2> QED
      BY <1>5, <2>4
  <1> QED
    BY <1>5, <1>6, <1>7

LEMMA RecallAnswers ==
  ASSUME ReadInv, phase = "done", call.command = "recall"
  PROVE  RecallBetween
  <1>1. call \in Calls /\ ~call.exact
    BY DoneFacts, CallFacts
  <1>2. /\ Len(Lists) = Len(call.targets) /\ \A n : NthRepository(n) = call.targets[n]
    <2>1. resolved \in Seq(Seq(Placements)) /\ Len(resolved) = Resolutions
      BY DEF ReadInv, ResolvedInv, Reading
    <2> QED
      BY <1>1, <2>1, SearchedShape DEF Lists, NthRepository
  <1>3. DOMAIN call.targets = 1..Len(call.targets)
    BY <1>1, CallFacts
  <1>4. ASSUME NEW r \in Range(call.targets), NEW i \in MemoryIds, NEW p \in Placements,
               NEW text \in Hits, Lasting(r, i, p, text), ~MayBeShadowed(r, p, Topic[text])
        PROVE  \E m \in Range(Merged) : Key(m) = <<p, i>> /\ m.text = text /\ r \in m.applies
    <2>1. PICK n \in 1..Len(Lists) : r = call.targets[n]
      BY <1>2, <1>3 DEF Range
    <2> DEFINE L == Lists[n]
    <2>2. p \in Range(L)
      BY <1>2, <1>4, <2>1, ListFacts DEF Lasting
    <2>3. SourceComplete(n, p)
      BY <2>2, DoneFacts
    <2>4. PICK e \in Range(entries) : Key(e) = <<p, i>> /\ e.text = text /\ e.target = n
      <3>1. PICK s \in past : \A x \in MemoryIds :
              RowOf(s, x, p) /\ Matches(s.memories[x].text) =>
                \E e \in Range(entries) : Key(e) = <<p, x>> /\ e.text = s.memories[x].text /\ e.target = n
        BY <2>3 DEF SourceComplete
      <3>2. RowOf(s, i, p) /\ s.memories[i].text = text /\ Matches(text)
        BY <1>4, <3>1 DEF Lasting, Matches
      <3> QED
        BY <3>1, <3>2
    <2>5. EntrySound(e) /\ e.placement = p /\ e.id = i
      BY <2>4, DoneFacts DEF Key
    <2>6. e.visible
      <3>1. SUFFICES ASSUME ~e.visible PROVE FALSE
        OBVIOUS
      <3>2. PICK q \in Range(L) : Outranks(q, p) /\ \E s \in past : Says(s, q, Topic[text])
        BY <2>4, <2>5, <3>1 DEF EntrySound
      <3>3. Topic[text] # NoTopic
        BY <2>4, <2>5, <3>1 DEF EntrySound
      <3>4. WholeStack
        <4>1. ASSUME ~WholeStack PROVE q = p
          <5>1. L = <<call.placement>>
            BY <4>1, ListFacts
          <5>2. Range(L) = {call.placement}
            BY <5>1 DEF Range
          <5> QED
            BY <2>2, <5>2
        <4>2. q.kind \in {"universal", "repository", "domain"}
          BY DoneFacts, PlacementKinds
        <4> QED
          BY <3>2, <4>1, <4>2 DEF Outranks, Rank
      <3>5. \E s \in past : Stacked(s, r, q)
        BY <1>1, <1>2, <2>1, ListFacts
      <3>6. q \in Placements
        BY DoneFacts
      <3>7. MayBeShadowed(r, p, Topic[text])
        BY <1>1, <3>2, <3>3, <3>4, <3>5, <3>6 DEF MayBeShadowed
      <3> QED
        BY <1>4, <3>7
    <2>7. PICK j \in DOMAIN entries : e = entries[j]
      BY DEF Range
    <2>8. PICK x \in Showing(Key(e)) : MergedResult(entries[x]) \in Range(Merged)
      BY <2>6, <2>7, MergedFacts
    <2>9. x \in DOMAIN entries /\ Key(entries[x]) = <<p, i>> /\ entries[x] \in Range(entries)
      BY <2>4, <2>8 DEF Showing, Range
    <2>10. entries[x].text = text
      <3>1. EntrySound(entries[x]) /\ entries[x].placement = p /\ entries[x].id = i
        BY <2>9, DoneFacts DEF Key
      <3> QED
        BY <1>4, <3>1 DEF EntrySound, Lasting
    <2>11. j \in Showing(Key(entries[x])) /\ call.targets[entries[j].target] = r
      BY <2>1, <2>4, <2>6, <2>7, <2>9 DEF Showing
    <2>12. Key(MergedResult(entries[x])) = <<p, i>> /\ MergedResult(entries[x]).text = text
      BY <2>9, <2>10 DEF MergedResult, Key
    <2>13. r \in MergedResult(entries[x]).applies
      BY <2>11 DEF MergedResult
    <2> QED
      BY <2>8, <2>12, <2>13
  <1>5. ASSUME NEW m \in Range(Merged), NEW r \in m.applies
        PROVE  /\ \E s \in past : Stacked(s, r, m.placement)
               /\ \E s \in past :
                    /\ RowOf(s, m.id, m.placement)
                    /\ s.memories[m.id].text \in Hits
                    /\ ~MustBeShadowed(r, m.placement, Topic[s.memories[m.id].text])
    <2>1. PICK i \in Firsts : m = MergedResult(entries[i])
      BY MergedFacts
    <2>2. PICK j \in Showing(Key(entries[i])) : r = call.targets[entries[j].target]
      BY <2>1 DEF MergedResult
    <2> DEFINE e == entries[j]
               n == e.target
               L == Lists[n]
    <2>3. e \in Range(entries) /\ e.visible /\ e.placement = m.placement /\ e.id = m.id
      BY <2>1, <2>2 DEF Showing, Range, Key, MergedResult
    <2>4. EntrySound(e) /\ n \in 1..Len(Lists)
      BY <2>3, DoneFacts
    <2> HIDE DEF e
    <2>5. m.placement \in Range(L)
      BY <2>3, <2>4 DEF EntrySound
    <2>6. \E s \in past : Stacked(s, r, m.placement)
      BY <1>1, <1>2, <2>2, <2>4, <2>5, ListFacts DEF e
    <2>7. PICK s \in past : RowOf(s, m.id, m.placement) /\ s.memories[m.id].text = e.text
      BY <2>3, <2>4 DEF EntrySound
    <2>8. e.text \in Hits
      BY <2>4 DEF EntrySound, Matches
    <2>9. ~MustBeShadowed(r, m.placement, Topic[e.text])
      <3>1. SUFFICES ASSUME MustBeShadowed(r, m.placement, Topic[e.text]) PROVE FALSE
        OBVIOUS
      <3>2. PICK q \in Placements : Outranks(q, m.placement) /\ \A x \in past : Stacked(x, r, q) /\ Says(x, q, Topic[e.text])
        BY <3>1 DEF MustBeShadowed
      <3>3. Topic[e.text] # NoTopic /\ WholeStack
        BY <3>1 DEF MustBeShadowed
      <3>4. q \in Range(L)
        BY <1>1, <1>2, <2>2, <2>4, <3>2, <3>3, ListFacts DEF e
      <3> QED
        BY <2>3, <2>4, <3>2, <3>3, <3>4 DEF EntrySound
    <2> QED
      BY <2>6, <2>7, <2>8, <2>9
  <1> QED
    BY <1>4, <1>5 DEF RecallBetween

LEMMA ListAnswers ==
  ASSUME ReadInv, phase = "done", call.command = "list"
  PROVE  ListBetween
  <1>1. call \in Calls /\ (call.exact => call.placement \in Placements)
    BY DoneFacts, CallFacts
  <1>2. Len(Lists) = 1 /\ \A n : NthRepository(n) = Context
    <2>1. resolved \in Seq(Seq(Placements)) /\ Len(resolved) = Resolutions
      BY DEF ReadInv, ResolvedInv, Reading
    <2> QED
      BY <1>1, <2>1, SearchedShape DEF Lists, NthRepository
  <1> DEFINE L == Lists[1]
  <1>3. 1 \in 1..Len(Lists)
    BY <1>2
  <1>4. ASSUME L = <<call.placement>> PROVE \A q \in Range(L) : q = call.placement
    BY <1>4 DEF Range
  <1>5. ASSUME NEW i \in MemoryIds, NEW p \in Placements, NEW text \in Texts,
               Lasting(Context, i, p, text)
        PROVE  \E e \in Range(entries) : Wanted(e) /\ Key(e) = <<p, i>> /\ e.text = text
    <2>1. p \in Range(L)
      BY <1>2, <1>3, <1>5, ListFacts DEF Lasting
    <2>2. SourceComplete(1, p)
      BY <1>3, <2>1, DoneFacts
    <2>3. PICK s \in past : \A x \in MemoryIds :
            RowOf(s, x, p) /\ Matches(s.memories[x].text) =>
              \E e \in Range(entries) : Key(e) = <<p, x>> /\ e.text = s.memories[x].text /\ e.target = 1
      BY <2>2 DEF SourceComplete
    <2>4. RowOf(s, i, p) /\ s.memories[i].text = text /\ Matches(text)
      BY <1>5, <2>3 DEF Lasting, Matches
    <2>5. PICK e \in Range(entries) : Key(e) = <<p, i>> /\ e.text = text
      BY <2>3, <2>4
    <2>6. Wanted(e)
      <3>1. call.exact => p = call.placement
        BY <1>1, <1>5, NoPlacementAssumption DEF Lasting, Asked
      <3> QED
        BY <2>5, <3>1 DEF Wanted, Key
    <2> QED
      BY <2>5, <2>6
  <1>6. ASSUME NEW e \in Range(entries), Wanted(e)
        PROVE  /\ Asked(e.placement)
               /\ \E s \in past : RowOf(s, e.id, e.placement) /\ s.memories[e.id].text = e.text
               /\ call.exact \/ \E s \in past : Stacked(s, Context, e.placement)
               /\ IF e.visible THEN ~MustBeShadowed(Context, e.placement, Topic[e.text])
                  ELSE MayBeShadowed(Context, e.placement, Topic[e.text])
    <2> DEFINE p == e.placement
               t == Topic[e.text]
    <2>1. EntrySound(e) /\ e.target = 1
      <3>1. EntrySound(e) /\ e.target \in 1..Len(Lists)
        BY DoneFacts
      <3>2. e.target \in 1..1
        BY <1>2, <3>1
      <3> QED
        BY <3>1, <3>2
    <2>2. p \in Range(L) /\ p \in Placements
      BY <1>3, <2>1, DoneFacts DEF EntrySound
    <2>3. /\ \E s \in past : RowOf(s, e.id, p) /\ s.memories[e.id].text = e.text
          /\ IF e.visible
             THEN \A q \in Range(L) :
                    Outranks(q, p) /\ t # NoTopic => \E s \in past : ~Says(s, q, t)
             ELSE t # NoTopic /\ \E q \in Range(L) : Outranks(q, p) /\ \E s \in past : Says(s, q, t)
      BY <2>1 DEF EntrySound
    <2>4. call.exact => p = call.placement
      BY <1>6 DEF Wanted
    <2>5. Asked(p)
      <3>1. CASE WholeStack
        BY <2>4, <3>1 DEF WholeStack, Asked
      <3>2. CASE ~WholeStack
        <4>1. L = <<call.placement>>
          BY <1>3, <3>2, ListFacts
        <4> QED
          BY <1>4, <2>2, <4>1 DEF Asked
      <3> QED
        BY <3>1, <3>2
    <2>6. call.exact \/ \E s \in past : Stacked(s, Context, p)
      BY <1>2, <1>3, <2>2, ListFacts
    <2>7. CASE e.visible
      <3>1. ASSUME MustBeShadowed(Context, p, t) PROVE FALSE
        <4>1. PICK q \in Placements :
                Outranks(q, p) /\ \A x \in past : Stacked(x, Context, q) /\ Says(x, q, t)
          BY <3>1 DEF MustBeShadowed
        <4>2. t # NoTopic /\ WholeStack /\ (call.exact => \A s \in past : Stacked(s, Context, call.placement))
          BY <2>4, <3>1 DEF MustBeShadowed
        <4>3. q \in Range(L)
          BY <1>2, <1>3, <4>1, <4>2, ListFacts
        <4> QED
          BY <2>3, <2>7, <4>1, <4>2, <4>3
      <3> QED
        BY <2>3, <2>5, <2>6, <2>7, <3>1
    <2>8. CASE ~e.visible
      <3>1. t # NoTopic
        BY <2>3, <2>8
      <3>2. PICK q \in Range(L) : Outranks(q, p) /\ \E s \in past : Says(s, q, t)
        BY <2>3, <2>8
      <3>3. q \in Placements /\ q # p
        <4>1. q \in Placements
          BY <1>3, DoneFacts
        <4> QED
          BY <2>2, <3>2, <4>1, PlacementKinds DEF Outranks, Rank
      <3>4. L # <<call.placement>>
        BY <1>4, <2>2, <3>3
      <3>5. WholeStack
        BY <1>3, <3>4, ListFacts
      <3>6. (\E s \in past : Stacked(s, Context, p)) /\ \E s \in past : Stacked(s, Context, q)
        BY <1>2, <1>3, <2>2, <3>4, ListFacts
      <3>7. MayBeShadowed(Context, p, t)
        BY <3>1, <3>2, <3>3, <3>5, <3>6 DEF MayBeShadowed
      <3> QED
        BY <2>3, <2>5, <2>6, <2>8, <3>7
    <2> QED
      BY <2>7, <2>8
  <1> QED
    BY <1>5, <1>6 DEF ListBetween

(* The invariant of a read: what it resolved, scanned and holds is what    *)
(* the SELECTs of src/operation/reads.rs returned from stores of the call. *)
THEOREM StackReads == StackSpec => []ReadInv
  <1> QED
    BY InitReadInv, StepReadInv, PTL DEF StackSpec

(* A recall or list that runs while others write answers what some store   *)
(* of the call holds: nothing that stayed and was unshadowed is left out,  *)
(* nothing that was never there or always shadowed is shown, for every     *)
(* stack, query and number of other commits (src/operation/reads.rs).      *)
THEOREM StackAnswerBetween == StackSpec => []AnswerBetween
  <1>1. ReadInv => AnswerBetween
    <2> SUFFICES ASSUME ReadInv, phase = "done"
                 PROVE  IF call.command = "recall" THEN RecallBetween ELSE ListBetween
      BY DEF AnswerBetween
    <2>1. call.command \in {"recall", "list"}
      BY DoneFacts, CallFacts
    <2> QED
      BY <2>1, RecallAnswers, ListAnswers
  <1> QED
    BY <1>1, StackReads, PTL
-----------------------------------------------------------------------------
(* Recursion and induction up to a number.                                 *)

\* Induction: what holds of 0 and is handed on holds up to N.
LEMMA InductionUpTo ==
  ASSUME NEW N \in Nat, NEW S, 0 \in S, \A n \in 0..(N - 1) : n \in S => n + 1 \in S
  PROVE  \A n \in 0..N : n \in S
  <1> SUFFICES ASSUME NEW m \in 0..N, m \notin S PROVE FALSE
    OBVIOUS
  <1> DEFINE T == (0..N) \ S
  <1>1. T \in SUBSET Nat /\ IsFiniteSet(T) /\ T # {}
    <2>1. IsFiniteSet(0..N) /\ T \subseteq 0..N
      BY FS_Interval
    <2>2. IsFiniteSet(T)
      <3> HIDE DEF T
      <3> QED
        BY <2>1, FS_Subset
    <2> QED
      BY <2>1, <2>2
  <1> HIDE DEF T
  <1>2. PICK i \in T : \A j \in T : i <= j
    BY <1>1, LeastOf
  <1>3. i \in 0..N /\ i \notin S
    BY <1>2 DEF T
  <1>4. i # 0
    BY <1>3
  <1>5. i - 1 \in 0..(N - 1) /\ (i - 1) + 1 = i /\ i - 1 < i
    BY <1>3, <1>4
  <1>6. i - 1 \in S
    <2>1. i - 1 \notin T
      BY <1>2, <1>5
    <2> QED
      BY <1>5, <2>1 DEF T
  <1> QED
    BY <1>3, <1>5, <1>6

Recurs(f, N, R, base, step) ==
  f \in [0..N -> R] /\ f[0] = base /\ \A n \in 1..N : f[n] = step[n][f[n - 1]]

Steps(N, R) == [1..N -> [R -> R]]

\* Recursion: a step for every number defines a function.
LEMMA RecursionUpTo ==
  ASSUME NEW N \in Nat, NEW R, NEW base \in R, NEW step \in Steps(N, R)
  PROVE  \E f : Recurs(f, N, R, base, step)
  <1> USE DEF Steps
  <1> DEFINE Follows(f, k) == f[0] = base /\ \A n \in 1..k : f[n] = step[n][f[n - 1]]
             S == {k \in 0..N : \E f \in [0..k -> R] : Follows(f, k)}
  <1>1. 0 \in S
    <2> DEFINE f == [n \in 0..0 |-> base]
    <2>1. f \in [0..0 -> R] /\ f[0] = base /\ 0 \in 0..N
      OBVIOUS
    <2> HIDE DEF f
    <2>2. Follows(f, 0)
      BY <2>1
    <2> HIDE DEF Follows
    <2> QED
      BY <2>1, <2>2
  <1>2. ASSUME NEW k \in 0..(N - 1), k \in S PROVE k + 1 \in S
    <2>1. PICK f \in [0..k -> R] : Follows(f, k)
      BY <1>2
    <2> DEFINE g == [n \in 0..(k + 1) |-> IF n = k + 1 THEN step[k + 1][f[k]] ELSE f[n]]
    <2>2. k \in Nat /\ k \in 0..k /\ k + 1 \in 1..N /\ f[k] \in R
      OBVIOUS
    <2>3. step[k + 1][f[k]] \in R
      BY <2>2
    <2>4. g \in [0..(k + 1) -> R]
      BY <2>3
    <2>5. g[0] = base
      BY <2>1
    <2>6. ASSUME NEW n \in 1..(k + 1) PROVE g[n] = step[n][g[n - 1]]
      <3>1. CASE n = k + 1
        BY <2>2, <3>1
      <3>2. CASE n # k + 1
        <4>1. n \in 1..k /\ n - 1 \in 0..k /\ n - 1 # k + 1 /\ n \in 0..(k + 1) /\ n - 1 \in 0..(k + 1)
          BY <3>2
        <4>2. f[n] = step[n][f[n - 1]]
          BY <2>1, <4>1
        <4> QED
          BY <3>2, <4>1, <4>2
      <3> QED
        BY <3>1, <3>2
    <2> HIDE DEF g
    <2>7. Follows(g, k + 1)
      BY <2>5, <2>6
    <2>8. k + 1 \in 0..N
      OBVIOUS
    <2> HIDE DEF Follows
    <2> QED
      BY <2>4, <2>7, <2>8
  <1> HIDE DEF S
  <1>3. N \in S
    <2>1. \A n \in 0..N : n \in S
      BY <1>1, <1>2, InductionUpTo
    <2> QED
      BY <2>1
  <1> QED
    BY <1>3 DEF S, Recurs
-----------------------------------------------------------------------------
(* Widths.                                                                 *)

Totals(s, f) ==
  /\ f \in [0..Len(s) -> Nat] /\ f[0] = 0
  /\ \A n \in 1..Len(s) : f[n] = f[n - 1] + Width[s[n].text]

Texted(s) == Len(s) \in Nat /\ \A n \in 1..Len(s) : s[n].text \in Texts

\* The running totals of a sequence exist, and its width is the last.
LEMMA WidthTotal ==
  ASSUME NEW s, Texted(s)
  PROVE  \E f : Totals(s, f) /\ WidthOf(s) = f[Len(s)]
  <1> DEFINE N == Len(s)
             w(n) == Width[s[n].text]
             step == [n \in 1..N |-> [r \in Nat |-> r + w(n)]]
             Next1(g) == [n \in 0..N |-> IF n = 0 THEN 0 ELSE g[n - 1] + w(n)]
  <1>1. N \in Nat /\ \A n \in 1..N : w(n) \in Nat
    BY WidthAssumption DEF Texted
  <1>2. step \in [1..N -> [Nat -> Nat]]
    BY <1>1
  <1>3. \E f \in [0..N -> Nat] : f[0] = 0 /\ \A n \in 1..N : f[n] = step[n][f[n - 1]]
    <2> DEFINE zero == 0
    <2>1. N \in Nat /\ zero \in Nat /\ step \in Steps(N, Nat)
      BY <1>1, <1>2 DEF Steps
    <2> HIDE DEF N, step, zero
    <2>3. \E f : Recurs(f, N, Nat, zero, step)
      BY <2>1, RecursionUpTo
    <2> QED
      BY <2>3 DEF zero, Recurs
  <1>4. PICK g \in [0..N -> Nat] : g[0] = 0 /\ \A n \in 1..N : g[n] = step[n][g[n - 1]]
    BY <1>3
  <1>5. \A n \in 1..N : n - 1 \in 0..N /\ n \in 0..N /\ g[n] = g[n - 1] + w(n)
    <2> SUFFICES ASSUME NEW n \in 1..N PROVE n - 1 \in 0..N /\ n \in 0..N /\ g[n] = g[n - 1] + w(n)
      OBVIOUS
    <2>1. n - 1 \in 0..N /\ n \in 0..N
      BY <1>1
    <2>2. g[n - 1] \in Nat /\ g[n] = step[n][g[n - 1]]
      BY <1>4, <2>1
    <2>3. step[n] = [r \in Nat |-> r + w(n)]
      OBVIOUS
    <2> HIDE DEF w, N, step
    <2> QED
      BY <2>1, <2>2, <2>3
  <1>6. g = Next1(g)
    <2> HIDE DEF w, step
    <2>1. \A n \in 0..N : g[n] = Next1(g)[n]
      BY <1>1, <1>4, <1>5
    <2> QED
      BY <1>4, <2>1
  <1> DEFINE f == CHOOSE h : h = Next1(h)
  <1>7. f = Next1(f)
    <2> HIDE DEF Next1
    <2> QED
      BY <1>6
  <1>8. WidthOf(s) = f[N]
    BY DEF WidthOf
  <1> HIDE DEF f
  <1>9. f[0] = 0 /\ \A n \in 1..N : f[n] = f[n - 1] + w(n)
    BY <1>1, <1>7
  <1>10. \A n \in 0..N : f[n] \in Nat
    <2> DEFINE S == {n \in 0..N : f[n] \in Nat}
    <2>1. 0 \in S
      BY <1>1, <1>9
    <2>2. ASSUME NEW n \in 0..(N - 1), n \in S PROVE n + 1 \in S
      <3>1. n + 1 \in 1..N /\ n + 1 \in 0..N /\ (n + 1) - 1 = n /\ f[n] \in Nat /\ w(n + 1) \in Nat
        <4>1. n + 1 \in 1..N /\ n + 1 \in 0..N /\ (n + 1) - 1 = n
          BY <1>1
        <4> QED
          BY <1>1, <2>2, <4>1
      <3>2. f[n + 1] = f[n] + w(n + 1)
        BY <1>9, <3>1
      <3> HIDE DEF w
      <3> QED
        BY <3>1, <3>2
    <2> HIDE DEF S, N
    <2>3. \A n \in 0..N : n \in S
      BY <1>1, <2>1, <2>2, InductionUpTo
    <2> QED
      BY <2>3 DEF S
  <1>11. Totals(s, f)
    <2>1. f \in [0..N -> Nat]
      BY <1>7, <1>10
    <2> QED
      BY <1>9, <2>1 DEF Totals
  <1> QED
    BY <1>8, <1>11

\* The width of a prefix is the running total there.
LEMMA WidthOfPrefix ==
  ASSUME NEW s, Texted(s), NEW f, Totals(s, f), NEW n \in 0..Len(s)
  PROVE  WidthOf(SubSeq(s, 1, n)) = f[n]
  <1> DEFINE t == SubSeq(s, 1, n)
             X == {s[i] : i \in 1..n}
  <1>1. n \in Nat /\ Len(s) \in Nat /\ n <= Len(s)
    BY DEF Texted
  <1>2. \A i \in 1..n : s[i] \in X
    OBVIOUS
  <1>3. Len(t) = n /\ \A i \in 1..n : t[i] = s[i]
    <2> HIDE DEF X
    <2>1. 1 \in Int /\ n \in Int
      BY <1>1
    <2>2. /\ Len(SubSeq(s, 1, n)) = IF 1 <= n THEN n - 1 + 1 ELSE 0
          /\ \A i \in 1..(n - 1 + 1) : SubSeq(s, 1, n)[i] = s[1 + i - 1]
      BY <1>2, <2>1, SubSeqProperties
    <2>3. n - 1 + 1 = n /\ \A i \in 1..n : 1 + i - 1 = i
      BY <1>1
    <2> QED
      BY <1>1, <2>2, <2>3
  <1> HIDE DEF t, X
  <1>4. Texted(t)
    BY <1>1, <1>3 DEF Texted
  <1>5. PICK h : Totals(t, h) /\ WidthOf(t) = h[Len(t)]
    BY <1>4, WidthTotal
  <1>6. \A k \in 0..n : h[k] = f[k]
    <2> DEFINE S == {k \in 0..n : h[k] = f[k]}
    <2>1. 0 \in S
      BY <1>1, <1>5 DEF Totals
    <2>2. ASSUME NEW k \in 0..(n - 1), k \in S PROVE k + 1 \in S
      <3>1. k + 1 \in 1..n /\ k + 1 \in 1..Len(s) /\ (k + 1) - 1 = k /\ k + 1 \in 0..n
        BY <1>1
      <3>2. h[k + 1] = h[k] + Width[t[k + 1].text] /\ f[k + 1] = f[k] + Width[s[k + 1].text]
        BY <1>3, <1>5, <3>1 DEF Totals
      <3>3. h[k] = f[k]
        BY <2>2
      <3> QED
        BY <1>3, <3>1, <3>2, <3>3
    <2> HIDE DEF S
    <2>3. \A k \in 0..n : k \in S
      BY <1>1, <2>1, <2>2, InductionUpTo
    <2> QED
      BY <2>3 DEF S
  <1>7. n \in 0..n
    BY <1>1
  <1> QED
    BY <1>3, <1>5, <1>6, <1>7 DEF t

\* Running totals grow.
LEMMA TotalsGrow ==
  ASSUME NEW s, Texted(s), NEW f, Totals(s, f), NEW i \in 0..Len(s), NEW j \in 0..Len(s), i <= j
  PROVE  f[i] \in Nat /\ f[j] \in Nat /\ f[i] <= f[j]
  <1> DEFINE N == Len(s)
             S == {k \in 0..N : k < i \/ f[i] <= f[k]}
  <1>1. N \in Nat /\ i \in Nat /\ \A k \in 0..N : f[k] \in Nat
    BY DEF Texted, Totals
  <1>2. 0 \in S
    BY <1>1
  <1>3. ASSUME NEW k \in 0..(N - 1), k \in S PROVE k + 1 \in S
    <2>1. k + 1 \in 1..N /\ k + 1 \in 0..N /\ k \in 0..N /\ (k + 1) - 1 = k
      BY <1>1
    <2>2. f[k + 1] = f[k] + Width[s[k + 1].text] /\ Width[s[k + 1].text] \in Nat
      BY <2>1, WidthAssumption DEF Totals, Texted
    <2>3. f[k] \in Nat /\ f[k + 1] \in Nat /\ f[i] \in Nat
      BY <1>1, <2>1
    <2>4. CASE k + 1 <= i
      <3>1. k + 1 < i \/ k + 1 = i
        BY <1>1, <2>1, <2>4
      <3> QED
        BY <2>1, <2>3, <3>1
    <2>5. CASE ~(k + 1 <= i)
      <3>1. ~(k < i)
        BY <1>1, <2>1, <2>5
      <3>2. f[i] <= f[k]
        BY <1>3, <3>1
      <3> QED
        BY <2>1, <2>2, <2>3, <3>2
    <2> QED
      BY <2>4, <2>5
  <1> HIDE DEF S
  <1>4. \A k \in 0..N : k \in S
    <2> HIDE DEF N
    <2> QED
      BY <1>1, <1>2, <1>3, InductionUpTo
  <1>5. j \in 0..N /\ j \in Nat /\ ~(j < i)
    BY <1>1
  <1> QED
    BY <1>1, <1>4, <1>5 DEF S

LEMMA CountTo ==
  ASSUME NEW m \in Nat
  PROVE  IsFiniteSet(1..m) /\ Cardinality(1..m) = m
  <1>1. IsFiniteSet(1..m) /\ Cardinality(1..m) = IF 1 > m THEN 0 ELSE m - 1 + 1
    BY FS_Interval
  <1> QED
    BY <1>1

\* A set of numbers that has all the smaller ones is an interval.
LEMMA ClosedBelow ==
  ASSUME NEW N \in Nat, NEW F \in SUBSET (1..N), \A i \in F, j \in 1..N : j <= i => j \in F
  PROVE  Cardinality(F) \in 0..N /\ F = 1..Cardinality(F)
  <1> DEFINE T == (1..N) \ F
  <1>1. CASE T = {}
    <2>1. F = 1..N
      BY <1>1
    <2>2. Cardinality(F) = N
      BY <2>1, CountTo
    <2> QED
      BY <2>1, <2>2
  <1>2. CASE T # {}
    <2>1. T \in SUBSET Nat /\ IsFiniteSet(T)
      <3>1. IsFiniteSet(1..N) /\ T \subseteq 1..N
        BY FS_Interval
      <3>2. IsFiniteSet(T)
        <4> HIDE DEF T
        <4> QED
          BY <3>1, FS_Subset
      <3> QED
        BY <3>2
    <2> HIDE DEF T
    <2>2. PICK m \in T : \A j \in T : m <= j
      BY <1>2, <2>1, LeastOf
    <2>3. m \in 1..N /\ m \notin F
      BY DEF T
    <2>4. F = 1..(m - 1)
      <3>1. ASSUME NEW x \in F PROVE x \in 1..(m - 1)
        <4>1. x \in 1..N /\ ~(m <= x)
          BY <2>3
        <4> QED
          BY <2>3, <4>1
      <3>2. ASSUME NEW x \in 1..(m - 1) PROVE x \in F
        <4>1. x \in 1..N /\ ~(m <= x)
          BY <2>3
        <4>2. x \notin T
          BY <2>2, <4>1
        <4> QED
          BY <4>1, <4>2 DEF T
      <3> QED
        BY <3>1, <3>2
    <2>5. Cardinality(1..(m - 1)) = m - 1
      <3>1. m - 1 \in Nat
        BY <2>3
      <3> QED
        BY <3>1, CountTo
    <2> QED
      BY <2>3, <2>4, <2>5
  <1> QED
    BY <1>1, <1>2

\* What a record and its predecessors weigh fits.
FitsIn(s, chars, n) == n = 1 \/ chars = NoBudget \/ WidthOf(SubSeq(s, 1, n)) <= chars

\* A prefix of a prefix.
LEMMA PrefixOfPrefix ==
  ASSUME NEW X, NEW s \in Seq(X), NEW m \in 0..Len(s), NEW n \in 0..m
  PROVE  /\ SubSeq(s, 1, m) \in Seq(X) /\ Len(SubSeq(s, 1, m)) = m
         /\ \A i \in 1..m : SubSeq(s, 1, m)[i] = s[i]
         /\ SubSeq(SubSeq(s, 1, m), 1, n) = SubSeq(s, 1, n)
  <1>0. Len(s) \in Nat /\ m \in Nat /\ n \in Nat /\ n <= m /\ m <= Len(s) /\ \A i \in 1..Len(s) : s[i] \in X
    OBVIOUS
  <1>1. ASSUME NEW t \in Seq(X), NEW k \in 0..Len(t)
        PROVE  /\ SubSeq(t, 1, k) \in Seq(X) /\ Len(SubSeq(t, 1, k)) = k
               /\ \A i \in 1..k : SubSeq(t, 1, k)[i] = t[i]
    <2>1. k \in Nat /\ 1 \in Int /\ k \in Int /\ \A i \in 1..k : t[i] \in X
      <3>1. Len(t) \in Nat
        OBVIOUS
      <3> QED
        BY <3>1
    <2>2. /\ SubSeq(t, 1, k) \in Seq(X)
          /\ Len(SubSeq(t, 1, k)) = IF 1 <= k THEN k - 1 + 1 ELSE 0
          /\ \A i \in 1..(k - 1 + 1) : SubSeq(t, 1, k)[i] = t[1 + i - 1]
      BY <2>1, SubSeqProperties
    <2>3. k - 1 + 1 = k /\ \A i \in 1..k : 1 + i - 1 = i
      BY <2>1
    <2> QED
      BY <2>1, <2>2, <2>3
  <1> DEFINE t == SubSeq(s, 1, m)
             u == SubSeq(t, 1, n)
             v == SubSeq(s, 1, n)
  <1>2. t \in Seq(X) /\ Len(t) = m /\ \A i \in 1..m : t[i] = s[i]
    BY <1>1
  <1>3. n \in 0..Len(t) /\ n \in 0..Len(s)
    BY <1>0, <1>2
  <1>4. u \in Seq(X) /\ Len(u) = n /\ \A i \in 1..n : u[i] = t[i]
    <2> HIDE DEF t
    <2> QED
      BY <1>1, <1>2, <1>3
  <1>5. v \in Seq(X) /\ Len(v) = n /\ \A i \in 1..n : v[i] = s[i]
    BY <1>1, <1>3
  <1>6. u = v
    <2> HIDE DEF u, v, t
    <2>1. \A i \in 1..n : u[i] = v[i]
      BY <1>0, <1>2, <1>4, <1>5
    <2> QED
      BY <1>4, <1>5, <2>1
  <1> QED
    BY <1>2, <1>6

LEMMA TextedSeq ==
  ASSUME NEW X, \A x \in X : x.text \in Texts, NEW s \in Seq(X)
  PROVE  Texted(s)
  BY DEF Texted

\* A heavier prefix fits no better.
LEMMA FitsClosed ==
  ASSUME NEW s, Texted(s), NEW chars \in Nat \cup {NoBudget},
         NEW i \in 1..Len(s), NEW j \in 1..Len(s), j <= i, FitsIn(s, chars, i)
  PROVE  FitsIn(s, chars, j)
  <1>0. Len(s) \in Nat /\ i \in 0..Len(s) /\ j \in 0..Len(s)
    BY DEF Texted
  <1>1. PICK f : Totals(s, f)
    BY WidthTotal
  <1>2. WidthOf(SubSeq(s, 1, i)) = f[i] /\ WidthOf(SubSeq(s, 1, j)) = f[j]
    BY <1>0, <1>1, WidthOfPrefix
  <1>3. f[j] \in Nat /\ f[i] \in Nat /\ f[j] <= f[i]
    BY <1>0, <1>1, TotalsGrow
  <1>4. CASE i = 1
    BY <1>4 DEF FitsIn
  <1>5. CASE chars = NoBudget
    BY <1>5 DEF FitsIn
  <1>6. CASE i # 1 /\ chars # NoBudget
    <2>1. chars \in Nat /\ f[i] <= chars
      BY <1>2, <1>6 DEF FitsIn
    <2> QED
      BY <1>2, <1>3, <2>1 DEF FitsIn
  <1> QED
    BY <1>4, <1>5, <1>6

\* Budget is the longest prefix within the limit that fits.
LEMMA BudgetCut ==
  ASSUME NEW X, \A x \in X : x.text \in Texts, NEW s \in Seq(X),
         NEW limit \in Nat, NEW chars \in Nat \cup {NoBudget}
  PROVE  \E c \in 0..Len(s) :
           /\ Budget(s, limit, chars) = SubSeq(s, 1, c)
           /\ \A n \in 1..Len(s) : n <= c <=> n <= limit /\ FitsIn(s, chars, n)
  <1> DEFINE m == IF limit < Len(s) THEN limit ELSE Len(s)
             kept == SubSeq(s, 1, m)
             F == {i \in DOMAIN kept : FitsIn(kept, chars, i)}
             c == Cardinality(F)
  <1>1. Len(s) \in Nat /\ m \in 0..Len(s) /\ m \in Nat /\ \A n \in 1..Len(s) : n <= m <=> n <= limit
    OBVIOUS
  <1> HIDE DEF m
  <1>2. kept \in Seq(X) /\ Len(kept) = m /\ DOMAIN kept = 1..m /\ 0 \in 0..m
    <2>1. 0 \in 0..m
      BY <1>1
    <2>2. kept \in Seq(X) /\ Len(kept) = m
      BY <1>1, <2>1, PrefixOfPrefix
    <2> QED
      BY <2>1, <2>2
  <1>3. \A n \in 0..m : SubSeq(kept, 1, n) = SubSeq(s, 1, n)
    BY <1>1, PrefixOfPrefix
  <1>4. Budget(s, limit, chars) = SubSeq(kept, 1, c)
    <2>1. Limited(s, limit) = kept
      BY DEF Limited, m
    <2> HIDE DEF kept
    <2> QED
      BY <2>1 DEF Budget, FitsIn
  <1> HIDE DEF kept
  <1>5. \A n \in 1..m : FitsIn(kept, chars, n) <=> FitsIn(s, chars, n)
    <2>1. \A n \in 1..m : n \in 0..m
      BY <1>1
    <2> QED
      BY <1>3, <2>1 DEF FitsIn
  <1>6. c \in 0..m /\ F = 1..c
    <2>1. Texted(kept)
      BY <1>2, TextedSeq
    <2>2. ASSUME NEW i \in F, NEW j \in 1..m, j <= i PROVE j \in F
      <3>1. i \in 1..Len(kept) /\ j \in 1..Len(kept) /\ FitsIn(kept, chars, i)
        BY <1>2
      <3>2. FitsIn(kept, chars, j)
        BY <2>1, <2>2, <3>1, FitsClosed
      <3> QED
        BY <1>2, <3>2
    <2>3. F \in SUBSET (1..m)
      BY <1>2
    <2> HIDE DEF F
    <2> QED
      BY <1>1, <2>2, <2>3, ClosedBelow
  <1>7. ASSUME NEW n \in 1..Len(s) PROVE n <= c <=> n <= limit /\ FitsIn(s, chars, n)
    <2> HIDE DEF c
    <2>1. n \in Nat /\ c \in Nat /\ c <= m
      BY <1>1, <1>6
    <2>2. n <= c <=> n \in F
      BY <1>6, <2>1
    <2>3. n \in F <=> n <= m /\ FitsIn(s, chars, n)
      BY <1>1, <1>2, <1>5, <2>1
    <2> QED
      BY <1>1, <2>2, <2>3
  <1> HIDE DEF c
  <1>8. c \in 0..Len(s) /\ c \in 0..m
    BY <1>1, <1>6
  <1> QED
    BY <1>3, <1>4, <1>7, <1>8

Outputs == [kept : Nat, total : Nat, closed : BOOLEAN]

\* One record of take_char_budget.
Taken(o, n, w, chars) ==
  IF o.closed \/ (o.kept # 0 /\ o.total + w > chars) THEN [o EXCEPT !.closed = TRUE]
  ELSE [kept |-> n, total |-> o.total + w, closed |-> FALSE]

\* What has been taken of the first n records.
TakenOK(o, f, chars, n) ==
  /\ o \in Outputs /\ o.kept <= n /\ o.total = f[o.kept]
  /\ IF o.closed THEN o.kept # 0 /\ o.kept < n /\ f[o.kept + 1] > chars ELSE o.kept = n
  /\ \A i \in 1..o.kept : i = 1 \/ f[i] <= chars

LEMMA TakenStep ==
  ASSUME NEW s, Texted(s), NEW f, Totals(s, f), NEW chars \in Nat, NEW n \in 1..Len(s),
         NEW o, TakenOK(o, f, chars, n - 1)
  PROVE  TakenOK(Taken(o, n, Width[s[n].text], chars), f, chars, n)
  <1> DEFINE w == Width[s[n].text]
  <1>1. Len(s) \in Nat /\ n \in Nat /\ n - 1 \in Nat /\ n - 1 < n /\ w \in Nat /\ f[n] = f[n - 1] + w /\ n # 0
    BY WidthAssumption DEF Texted, Totals
  <1>2. o \in Outputs /\ o.kept \in Nat /\ o.total \in Nat /\ o.closed \in BOOLEAN
    BY DEF TakenOK, Outputs
  <1>3. CASE o.closed \/ (o.kept # 0 /\ o.total + w > chars)
    <2> DEFINE p == [o EXCEPT !.closed = TRUE]
    <2>1. Taken(o, n, w, chars) = p
      BY <1>3 DEF Taken
    <2>2. p \in Outputs /\ p.kept = o.kept /\ p.total = o.total /\ p.closed
      BY <1>2 DEF Outputs
    <2>3. p.kept # 0 /\ p.kept < n /\ f[p.kept + 1] > chars
      <3>1. CASE o.closed
        BY <1>1, <1>2, <2>2, <3>1 DEF TakenOK
      <3>2. CASE ~o.closed
        <4>1. o.kept = n - 1 /\ o.total = f[n - 1]
          BY <3>2 DEF TakenOK
        <4>2. (n - 1) + 1 = n
          BY <1>1
        <4>3. o.kept + 1 = n /\ f[n] = o.total + w
          BY <1>1, <4>1, <4>2
        <4>4. o.kept # 0 /\ f[o.kept + 1] > chars
          BY <1>3, <3>2, <4>3
        <4> QED
          BY <1>1, <2>2, <4>1, <4>4
      <3> QED
        BY <3>1, <3>2
    <2>4. p.total = f[p.kept] /\ \A i \in 1..p.kept : i = 1 \/ f[i] <= chars
      BY <2>2 DEF TakenOK
    <2> HIDE DEF p, w
    <2>5. p.kept <= n
      BY <1>1, <2>2, <2>3, <1>2
    <2> QED
      BY <2>1, <2>2, <2>3, <2>4, <2>5 DEF TakenOK, w
  <1>4. CASE ~(o.closed \/ (o.kept # 0 /\ o.total + w > chars))
    <2> DEFINE p == [kept |-> n, total |-> o.total + w, closed |-> FALSE]
    <2>1. Taken(o, n, w, chars) = p
      BY <1>4 DEF Taken
    <2>2. p \in Outputs /\ p.kept = n /\ p.total = o.total + w /\ ~p.closed
      BY <1>1, <1>2 DEF Outputs
    <2>3. o.kept = n - 1 /\ o.total = f[n - 1]
      BY <1>4 DEF TakenOK
    <2>4. p.total = f[n]
      BY <1>1, <2>2, <2>3
    <2>5. ASSUME NEW i \in 1..n PROVE i = 1 \/ f[i] <= chars
      <3>1. CASE i = n
        <4>1. i # 1 => o.kept # 0
          BY <1>1, <2>3, <3>1
        <4>2. i # 1 => ~(o.total + w > chars)
          BY <1>4, <4>1
        <4> HIDE DEF w
        <4>3. o.total + w \in Nat
          BY <1>1, <1>2
        <4> QED
          BY <1>1, <2>3, <3>1, <4>2, <4>3
      <3>2. CASE i # n
        <4>1. i \in 1..o.kept
          BY <1>1, <2>3, <3>2
        <4> QED
          BY <4>1 DEF TakenOK
      <3> QED
        BY <3>1, <3>2
    <2> HIDE DEF p, w
    <2>6. p.kept <= n
      BY <1>1, <2>2
    <2> QED
      BY <2>1, <2>2, <2>4, <2>5, <2>6 DEF TakenOK, w
  <1> QED
    BY <1>3, <1>4

LEMMA TakenType ==
  ASSUME NEW o \in Outputs, NEW n \in Nat, NEW w \in Nat, NEW chars
  PROVE  Taken(o, n, w, chars) \in Outputs
  <1>1. o.total + w \in Nat
    BY DEF Outputs
  <1>2. [o EXCEPT !.closed = TRUE] \in Outputs /\ [kept |-> n, total |-> o.total + w, closed |-> FALSE] \in Outputs
    BY <1>1 DEF Outputs
  <1> QED
    BY <1>2 DEF Taken

\* The library's cut is the longest prefix that fits, too.
LEMMA LibraryCut ==
  ASSUME NEW X, \A x \in X : x.text \in Texts, NEW s \in Seq(X), NEW chars \in Nat \cup {NoBudget}
  PROVE  \E k \in 0..Len(s) :
           /\ TakeCharBudget(s, chars) = SubSeq(s, 1, k)
           /\ \A n \in 1..Len(s) : n <= k <=> FitsIn(s, chars, n)
  <1>0. Len(s) \in Nat /\ Len(s) \in 0..Len(s) /\ Texted(s)
    BY TextedSeq
  <1>1. CASE chars = NoBudget
    <2>1. TakeCharBudget(s, chars) = s /\ SubSeq(s, 1, Len(s)) = s
      BY <1>1, SubSeqFull DEF TakeCharBudget
    <2>2. \A n \in 1..Len(s) : n <= Len(s) <=> FitsIn(s, chars, n)
      BY <1>0, <1>1 DEF FitsIn
    <2> QED
      BY <1>0, <2>1, <2>2
  <1>2. CASE chars # NoBudget
    <2> DEFINE N == Len(s)
               empty == [kept |-> 0, total |-> 0, closed |-> FALSE]
               w(n) == Width[s[n].text]
               step == [n \in 1..N |-> [o \in Outputs |-> Taken(o, n, w(n), chars)]]
               After(g) == [n \in 0..N |-> IF n = 0 THEN empty ELSE Taken(g[n - 1], n, w(n), chars)]
    <2>0. chars \in Nat
      BY <1>2
    <2>1. N \in Nat /\ empty \in Outputs /\ \A n \in 1..N : n \in Nat /\ w(n) \in Nat
      BY <1>0, WidthAssumption DEF Texted, Outputs
    <2>2. step \in Steps(N, Outputs)
      <3>1. \A n \in 1..N, o \in Outputs : Taken(o, n, w(n), chars) \in Outputs
        <4> HIDE DEF w
        <4> QED
          BY <2>1, TakenType
      <3> QED
        BY <3>1 DEF Steps
    <2>3. \E g : Recurs(g, N, Outputs, empty, step)
      <3> HIDE DEF N, step, empty
      <3> QED
        BY <2>1, <2>2, RecursionUpTo
    <2>4. PICK g : Recurs(g, N, Outputs, empty, step)
      BY <2>3
    <2>5. g = After(g)
      <3>1. g \in [0..N -> Outputs] /\ g[0] = empty
        BY <2>4 DEF Recurs
      <3>2. ASSUME NEW n \in 1..N PROVE g[n] = Taken(g[n - 1], n, w(n), chars)
        <4>1. n - 1 \in 0..N
          BY <2>1
        <4>2. g[n - 1] \in Outputs /\ g[n] = step[n][g[n - 1]]
          BY <2>4, <3>1, <4>1 DEF Recurs
        <4>3. step[n] = [o \in Outputs |-> Taken(o, n, w(n), chars)]
          OBVIOUS
        <4> HIDE DEF step, w, N
        <4> QED
          BY <4>2, <4>3
      <3> HIDE DEF w, step, empty
      <3>3. \A n \in 0..N : n = 0 \/ n \in 1..N
        BY <2>1
      <3>4. \A n \in 0..N : g[n] = After(g)[n]
        BY <2>1, <3>1, <3>2, <3>3
      <3> QED
        BY <3>1, <3>4
    <2> DEFINE output == CHOOSE h : h = After(h)
    <2>6. output = After(output)
      <3> HIDE DEF After
      <3> QED
        BY <2>5
    <2>7. TakeCharBudget(s, chars) = SubSeq(s, 1, output[N].kept)
      BY <1>2 DEF TakeCharBudget, Taken
    <2> HIDE DEF output
    <2>8. PICK f : Totals(s, f)
      BY <1>0, WidthTotal
    <2>9. TakenOK(output[N], f, chars, N)
      <3> DEFINE S == {n \in 0..N : TakenOK(output[n], f, chars, n)}
      <3>1. 0 \in S
        <4>1. output[0] = empty /\ 0 \in 0..N
          BY <2>1, <2>6
        <4>2. f[0] = 0
          BY <2>8 DEF Totals
        <4>3. TakenOK(empty, f, chars, 0)
          BY <2>1, <4>2 DEF TakenOK, Outputs
        <4> HIDE DEF empty
        <4> QED
          BY <4>1, <4>3
      <3>2. ASSUME NEW n \in 0..(N - 1), n \in S PROVE n + 1 \in S
        <4>1. n + 1 \in 1..N /\ n + 1 \in 0..N /\ (n + 1) - 1 = n /\ n + 1 # 0
          BY <2>1
        <4>2. output[n + 1] = Taken(output[n], n + 1, w(n + 1), chars)
          <5> HIDE DEF w, empty
          <5> QED
            BY <2>6, <4>1
        <4>3. TakenOK(output[n], f, chars, (n + 1) - 1)
          BY <3>2, <4>1
        <4>4. TakenOK(Taken(output[n], n + 1, Width[s[n + 1].text], chars), f, chars, n + 1)
          BY <1>0, <2>0, <2>8, <4>1, <4>3, TakenStep
        <4>5. TakenOK(output[n + 1], f, chars, n + 1)
          BY <4>2, <4>4
        <4> QED
          BY <4>1, <4>5
      <3> HIDE DEF S
      <3>3. \A n \in 0..N : n \in S
        <4> HIDE DEF N
        <4> QED
          BY <2>1, <3>1, <3>2, InductionUpTo
      <3>4. N \in S
        BY <2>1, <3>3
      <3> QED
        BY <3>4 DEF S
    <2> DEFINE k == output[N].kept
    <2>10. k \in 0..N /\ k \in Nat
      BY <2>1, <2>9 DEF TakenOK, Outputs
    <2>11. ASSUME NEW n \in 1..N PROVE n <= k <=> FitsIn(s, chars, n)
      <3>0. n \in Nat /\ n \in 0..N
        BY <2>1
      <3>1. WidthOf(SubSeq(s, 1, n)) = f[n]
        BY <1>0, <2>8, <3>0, WidthOfPrefix
      <3>2. CASE n <= k
        <4>1. n \in 1..k
          BY <2>10, <3>0, <3>2
        <4>2. n = 1 \/ f[n] <= chars
          BY <2>9, <4>1 DEF TakenOK
        <4> QED
          BY <3>1, <3>2, <4>2 DEF FitsIn
      <3>3. CASE ~(n <= k)
        <4>1. output[N].closed /\ k # 0 /\ k < N /\ f[k + 1] > chars
          BY <2>9, <2>1, <3>0, <3>3 DEF TakenOK
        <4>2. k + 1 \in 0..N /\ k + 1 <= n /\ n # 1
          BY <2>1, <2>10, <3>0, <3>3, <4>1
        <4>3. f[k + 1] \in Nat /\ f[n] \in Nat /\ f[k + 1] <= f[n]
          BY <1>0, <2>8, <3>0, <4>2, TotalsGrow
        <4>4. ~(f[n] <= chars)
          BY <2>0, <4>1, <4>3
        <4> QED
          BY <1>2, <3>1, <3>3, <4>2, <4>4 DEF FitsIn
      <3> QED
        BY <3>2, <3>3
    <2> QED
      BY <2>7, <2>10, <2>11
  <1> QED
    BY <1>1, <1>2
-----------------------------------------------------------------------------
(* The order of what was read, and the answer.                             *)

Distinct(list) == \A i, j \in DOMAIN list : i # j => list[i] # list[j]

\* An entry is where its target's list has its placement, and was passed.
Placed(e) ==
  /\ e.source + 1 \in DOMAIN Lists[e.target] /\ Lists[e.target][e.source + 1] = e.placement
  /\ e.target < target \/ (e.target = target /\ phase # "topics" /\ Passed(e.source + 1))

\* Targets and sources are read in order, and a source names a record once.
Follows(e, f) == Before(e, f) /\ (e.target = f.target /\ e.source = f.source => e.id # f.id)

OrderInv ==
  /\ \A n \in 1..Len(resolved) : Distinct(resolved[n])
  /\ Reading => \A i \in DOMAIN entries : Placed(entries[i])
  /\ Reading => \A i, j \in DOMAIN entries : i < j => Follows(entries[i], entries[j])

AnswerInv ==
  phase = "done" /\ call.command = "recall" =>
    LET results == Budget(Merged, call.limit, call.chars)
    IN  answer = [results |-> results, truncated |-> Len(results) < Len(Merged)]

CutInv == ReadInv /\ OrderInv /\ AnswerInv

LEMMA SetToSeqsDistinct ==
  ASSUME NEW S, NEW f \in SetToSeqs(S)
  PROVE  Distinct(f)
  BY DEF SetToSeqs, Distinct

LEMMA SourcesDistinct ==
  ASSUME TypeOK, NEW r \in Repositories, NEW p, NEW list \in Sources(r, p)
  PROVE  Distinct(list)
  <1>1. CASE p = NoPlacement
    <2>1. attached[r] \in SUBSET Domains /\ IsFiniteSet(attached[r])
      BY DomainsAssumption, FS_Subset DEF TypeOK
    <2>2. PICK order \in SetToSeqs(attached[r]) :
            list = <<RepositoryAt(r)>> \o [i \in DOMAIN order |-> DomainAt(order[i])] \o <<Universal>>
      BY <1>1 DEF Sources, VisibleSources
    <2> DEFINE mid == [i \in DOMAIN order |-> DomainAt(order[i])]
               N == Len(order)
    <2>3. /\ order \in Seq(attached[r]) /\ DOMAIN order = 1..N
          /\ \A i \in DOMAIN order : order[i] \in attached[r]
      BY <2>1, SetToSeqsOnto
    <2>4. N \in Nat /\ \A i, j \in 1..N : i # j => order[i] # order[j]
      BY <2>3, SetToSeqsDistinct DEF Distinct
    <2>5. mid \in Seq(Placements) /\ Len(mid) = N
      BY <2>1, <2>3, <2>4, PlacementNames
    <2>6. \A i \in 1..N : mid[i] = DomainAt(order[i])
      BY <2>3
    <2> HIDE DEF mid, N
    <2> DEFINE front == <<RepositoryAt(r)>> \o mid
    <2>7. RepositoryAt(r) \in Placements /\ Universal \in Placements
      BY PlacementNames
    <2>8. /\ front \in Seq(Placements) /\ Len(front) = N + 1
          /\ front[1] = RepositoryAt(r) /\ \A i \in 2..(N + 1) : front[i] = mid[i - 1]
      BY <2>4, <2>5, <2>7
    <2> HIDE DEF front
    <2>9. list = front \o <<Universal>>
      BY <2>2 DEF front, mid
    <2>10. /\ Len(list) = N + 2 /\ list[N + 2] = Universal
           /\ \A i \in 1..(N + 1) : list[i] = front[i]
           /\ DOMAIN list = 1..(N + 2)
      BY <2>4, <2>7, <2>8, <2>9
    <2>11. \A i \in 1..(N + 2) :
             /\ i = 1 => list[i].kind = "repository"
             /\ i \in 2..(N + 1) => list[i] = DomainAt(order[i - 1]) /\ i - 1 \in 1..N
             /\ i = N + 2 => list[i].kind = "universal"
             /\ i = 1 \/ i \in 2..(N + 1) \/ i = N + 2
      <3> SUFFICES ASSUME NEW i \in 1..(N + 2)
                   PROVE  /\ i = 1 => list[i].kind = "repository"
                          /\ i \in 2..(N + 1) => list[i] = DomainAt(order[i - 1]) /\ i - 1 \in 1..N
                          /\ i = N + 2 => list[i].kind = "universal"
                          /\ i = 1 \/ i \in 2..(N + 1) \/ i = N + 2
        OBVIOUS
      <3>1. i = 1 => list[i].kind = "repository"
        BY <2>4, <2>8, <2>10 DEF RepositoryAt
      <3>2. i \in 2..(N + 1) => list[i] = DomainAt(order[i - 1]) /\ i - 1 \in 1..N
        <4> SUFFICES ASSUME i \in 2..(N + 1) PROVE list[i] = DomainAt(order[i - 1]) /\ i - 1 \in 1..N
          OBVIOUS
        <4>1. i - 1 \in 1..N /\ i \in 1..(N + 1)
          BY <2>4
        <4> QED
          BY <2>6, <2>8, <2>10, <4>1
      <3>3. i = N + 2 => list[i].kind = "universal"
        BY <2>10 DEF Universal
      <3> QED
        BY <2>4, <3>1, <3>2, <3>3
    <2> SUFFICES ASSUME NEW i \in 1..(N + 2), NEW j \in 1..(N + 2), i # j PROVE list[i] # list[j]
      BY <2>10 DEF Distinct
    <2>12. \A d : DomainAt(d).kind = "domain" /\ DomainAt(d).id = d
      BY DEF DomainAt
    <2>13. CASE i \in 2..(N + 1) /\ j \in 2..(N + 1)
      <3>1. i - 1 \in 1..N /\ j - 1 \in 1..N /\ i - 1 # j - 1
        BY <2>4, <2>13
      <3>2. order[i - 1] # order[j - 1]
        BY <2>4, <3>1
      <3> QED
        BY <2>11, <2>12, <2>13, <3>2
    <2>14. CASE ~(i \in 2..(N + 1) /\ j \in 2..(N + 1))
      <3>1. list[i].kind # list[j].kind
        BY <2>4, <2>11, <2>12, <2>14
      <3> QED
        BY <3>1
    <2> QED
      BY <2>13, <2>14
  <1>2. CASE p # NoPlacement
    <2>1. list = <<p>>
      BY <1>2 DEF Sources
    <2> QED
      BY <2>1 DEF Distinct
  <1> QED
    BY <1>1, <1>2

LEMMA InitCutInv == StackInit => CutInv
  <1> SUFFICES ASSUME StackInit PROVE CutInv
    OBVIOUS
  <1>1. ReadInv
    BY InitReadInv
  <1>2. phase = "resolving" /\ ~Reading /\ resolved = <<>>
    BY DEF StackInit, ReadInit, Reading
  <1> QED
    BY <1>1, <1>2 DEF CutInv, OrderInv, AnswerInv

\* A step that reads nothing new keeps the order.
LEMMA OrderStays ==
  ASSUME OrderInv, Reading, UNCHANGED <<call, resolved, entries>>, Reading',
         target' = target, phase' # "topics", pending' = Lists[target] \/ pending' = pending,
         phase = "topics" \/ pending' = pending
  PROVE  OrderInv'
  <1>1. UNCHANGED Lists /\ UNCHANGED resolved /\ UNCHANGED entries
    BY DEF Lists, Searched
  <1>2. ASSUME NEW e, Placed(e) PROVE Placed(e)'
    <2>1. /\ e.source + 1 \in DOMAIN Lists'[e.target] /\ Lists'[e.target][e.source + 1] = e.placement
          /\ e.target < target \/ (e.target = target /\ phase # "topics" /\ Passed(e.source + 1))
      BY <1>1, <1>2 DEF Placed
    <2>2. phase # "topics" => pending' = pending
      OBVIOUS
    <2>3. phase # "topics" /\ Passed(e.source + 1) => Passed(e.source + 1)'
      BY <1>1, <2>2 DEF Passed
    <2> QED
      BY <2>1, <2>3 DEF Placed
  <1>3. \A e, f : Follows(e, f) <=> Follows(e, f)'
    BY DEF Follows, Before
  <1>4. \A n \in 1..Len(resolved') : Distinct(resolved'[n])
    BY <1>1 DEF OrderInv
  <1>5. \A i \in DOMAIN entries' : Placed(entries[i])'
    BY <1>1, <1>2 DEF OrderInv
  <1>6. \A i, j \in DOMAIN entries' : i < j => Follows(entries[i], entries[j])
    BY <1>1 DEF OrderInv
  <1> QED
    BY <1>1, <1>3, <1>4, <1>5, <1>6 DEF OrderInv, Distinct

LEMMA ResolveCut ==
  ASSUME CutInv, Resolve, UNCHANGED <<storeVars, past>>
  PROVE  OrderInv' /\ AnswerInv'
  <1>1. /\ phase = "resolving" /\ entries = <<>>
        /\ call \in Calls /\ resolved \in Seq(Seq(Placements)) /\ Len(resolved) < Resolutions
    BY DEF Resolve, CutInv, ReadInv, ResolvedInv
  <1>2. UNCHANGED entries /\ phase' # "done"
    BY <1>1 DEF Resolve
  <1> DEFINE n == Len(resolved) + 1
  <1>3. PICK sources \in Sources(NthRepository(n), NthPlacement(n)) : resolved' = Append(resolved, sources)
    BY DEF Resolve
  <1>4. Resolutions \in Nat /\ Len(resolved) \in Nat /\ n \in 1..Resolutions
    BY <1>1, NumberedCalls
  <1>5. Distinct(sources)
    <2>1. TypeOK /\ NthRepository(n) \in Repositories
      BY <1>1, <1>4, NumberedCalls DEF CutInv, ReadInv, StoreInv
    <2> QED
      BY <1>3, <2>1, SourcesDistinct
  <1>6. /\ Len(resolved') = n /\ resolved'[n] = sources
        /\ \A m \in 1..Len(resolved) : resolved'[m] = resolved[m]
    BY <1>1, <1>3, <1>4
  <1>7. ASSUME NEW m \in 1..Len(resolved') PROVE Distinct(resolved'[m])
    <2>1. m \in 1..Len(resolved) \/ m = n
      BY <1>4, <1>6
    <2>2. \A x \in 1..Len(resolved) : Distinct(resolved[x])
      BY DEF CutInv, OrderInv
    <2> QED
      BY <1>5, <1>6, <2>1, <2>2
  <1>8. DOMAIN entries' = {}
    BY <1>1, <1>2
  <1> QED
    BY <1>2, <1>7, <1>8 DEF OrderInv, AnswerInv, Distinct

LEMMA RefuseCut ==
  ASSUME CutInv, Refuse, UNCHANGED <<storeVars, past>>
  PROVE  OrderInv' /\ AnswerInv'
  <1>1. phase' = "failed" /\ ~Reading' /\ UNCHANGED resolved
    BY DEF Refuse, Reading
  <1> QED
    BY <1>1 DEF CutInv, OrderInv, AnswerInv, Distinct

LEMMA ReadTopicsCut ==
  ASSUME CutInv, ReadTopics, UNCHANGED <<storeVars, past>>
  PROVE  OrderInv' /\ AnswerInv'
  <1>1. phase = "topics" /\ Reading /\ UNCHANGED <<call, resolved, entries>> /\ target' = target
    BY DEF ReadTopics, Reading
  <1>2. CASE pending = <<>>
    <2>1. phase' = "rows" /\ pending' = Lists[target] /\ Reading'
      BY <1>2 DEF ReadTopics, Lists, Reading
    <2>2. OrderInv'
      BY <1>1, <2>1, OrderStays DEF CutInv
    <2> QED
      BY <2>1, <2>2 DEF AnswerInv
  <1>3. CASE pending # <<>>
    <2>1. phase' = "topics"
      BY <1>1, <1>3 DEF ReadTopics
    <2>2. UNCHANGED Lists /\ UNCHANGED resolved /\ UNCHANGED entries
      BY <1>1 DEF Lists, Searched
    <2>3. ASSUME NEW e, Placed(e) PROVE Placed(e)'
      BY <1>1, <2>1, <2>2, <2>3 DEF Placed
    <2>4. \A n \in 1..Len(resolved') : Distinct(resolved'[n])
      BY <2>2 DEF CutInv, OrderInv
    <2>5. \A i \in DOMAIN entries' : Placed(entries[i])'
      BY <1>1, <2>2, <2>3 DEF CutInv, OrderInv
    <2>6. \A i, j \in DOMAIN entries' : i < j => Follows(entries[i], entries[j])
      BY <1>1, <2>2 DEF CutInv, OrderInv
    <2> QED
      BY <2>1, <2>2, <2>4, <2>5, <2>6 DEF OrderInv, AnswerInv, Distinct, Follows, Before
  <1> QED
    BY <1>2, <1>3

LEMMA FinishCut ==
  ASSUME CutInv, Finish, UNCHANGED <<storeVars, past>>
  PROVE  OrderInv' /\ AnswerInv'
  <1>1. /\ phase = "rows" /\ phase' = "done" /\ Reading /\ Reading' /\ UNCHANGED call /\ UNCHANGED entries
        /\ UNCHANGED <<call, resolved, entries>> /\ target' = target /\ pending' = pending
    BY DEF Finish, Reading
  <1>2. OrderInv'
    BY <1>1, OrderStays DEF CutInv
  <1>3. UNCHANGED Merged
    BY <1>1 DEF Merged, MergedResult, Firsts, Showing, Key
  <1>4. call.command = "recall" =>
          LET results == Budget(Merged, call.limit, call.chars)
          IN  answer' = [results |-> results, truncated |-> Len(results) < Len(Merged)]
    BY DEF Finish
  <1>5. AnswerInv'
    BY <1>1, <1>3, <1>4 DEF AnswerInv
  <1> QED
    BY <1>2, <1>5

\* Others' commits and stuttering leave the read alone.
LEMMA WatchedCut ==
  ASSUME CutInv, UNCHANGED readVars
  PROVE  OrderInv' /\ AnswerInv'
  <1>1. /\ UNCHANGED call /\ UNCHANGED phase /\ UNCHANGED resolved /\ UNCHANGED target
        /\ UNCHANGED pending /\ UNCHANGED entries /\ UNCHANGED answer
    BY DEF readVars
  <1>2. UNCHANGED Lists /\ UNCHANGED Reading
    BY <1>1 DEF Lists, Searched, Reading
  <1>3. UNCHANGED Merged
    BY <1>1 DEF Merged, MergedResult, Firsts, Showing, Key
  <1>4. OrderInv'
    BY <1>1, <1>2 DEF CutInv, OrderInv, Distinct, Placed, Passed, Follows, Before
  <1>5. AnswerInv'
    BY <1>1, <1>3 DEF CutInv, AnswerInv
  <1> QED
    BY <1>4, <1>5

\* Rows appended to entries keep their order when each half has it.
LEMMA FollowsAppended ==
  ASSUME NEW S, NEW s \in Seq(S), NEW t \in Seq(S),
         \A i, j \in DOMAIN s : i < j => Follows(s[i], s[j]),
         \A i, j \in DOMAIN t : i < j => Follows(t[i], t[j]),
         \A i \in DOMAIN s, j \in DOMAIN t : Follows(s[i], t[j])
  PROVE  \A i, j \in DOMAIN (s \o t) : i < j => Follows((s \o t)[i], (s \o t)[j])
  <1>1. /\ Len(s) \in Nat /\ Len(t) \in Nat /\ DOMAIN s = 1..Len(s) /\ DOMAIN t = 1..Len(t)
        /\ s \o t \in Seq(S) /\ DOMAIN (s \o t) = 1..(Len(s) + Len(t))
    OBVIOUS
  <1> DEFINE u == s \o t
  <1>2. /\ \A i \in 1..Len(s) : u[i] = s[i]
        /\ \A i \in 1..(Len(s) + Len(t)) : ~(i <= Len(s)) => i - Len(s) \in 1..Len(t) /\ u[i] = t[i - Len(s)]
    BY <1>1
  <1>3. DOMAIN u = 1..(Len(s) + Len(t))
    BY <1>1
  <1> HIDE DEF u
  <1> SUFFICES ASSUME NEW i \in DOMAIN u, NEW j \in DOMAIN u, i < j PROVE Follows(u[i], u[j])
    BY DEF u
  <1>4. i \in 1..(Len(s) + Len(t)) /\ j \in 1..(Len(s) + Len(t)) /\ i \in Nat /\ j \in Nat
    BY <1>1, <1>3
  <1>5. CASE j <= Len(s)
    <2>1. i \in DOMAIN s /\ j \in DOMAIN s
      BY <1>1, <1>4, <1>5
    <2> QED
      BY <1>1, <1>2, <2>1
  <1>6. CASE ~(j <= Len(s)) /\ i <= Len(s)
    <2>1. i \in DOMAIN s /\ j - Len(s) \in DOMAIN t
      BY <1>1, <1>2, <1>4, <1>6
    <2> QED
      BY <1>1, <1>2, <1>4, <1>6, <2>1
  <1>7. CASE ~(i <= Len(s)) /\ ~(j <= Len(s))
    <2> DEFINE a == i - Len(s)
               b == j - Len(s)
    <2>1. a \in DOMAIN t /\ b \in DOMAIN t /\ a < b
      BY <1>1, <1>2, <1>4, <1>7
    <2>2. u[i] = t[a] /\ u[j] = t[b]
      BY <1>2, <1>4, <1>7
    <2> HIDE DEF a, b
    <2> QED
      BY <2>1, <2>2
  <1> QED
    BY <1>5, <1>6, <1>7

LEMMA ReadRowsCut ==
  ASSUME CutInv, ReadRows, UNCHANGED <<storeVars, past>>
  PROVE  OrderInv' /\ AnswerInv'
  <1>0. ReadInv /\ OrderInv
    BY DEF CutInv
  <1>2. /\ UNCHANGED call /\ UNCHANGED resolved
        /\ phase = "rows" /\ Reading /\ pending # <<>>
    BY DEF ReadRows, Reading
  <1>3. UNCHANGED Lists
    BY <1>2 DEF Lists, Searched
  <1>5. phase' \in {"topics", "rows"} /\ Reading'
    BY <1>2 DEF ReadRows, Reading
  <1> DEFINE L == Lists[target]
             p == Head(pending)
             source == Len(L) - Len(pending)
             k == source + 1
  <1>7. Lists \in Seq(Seq(Placements)) /\ Len(Lists) \in Nat /\ target \in 1..Len(Lists)
    BY <1>0, <1>2, ListsShape
  <1>8. L \in Seq(Placements) /\ DOMAIN L = 1..Len(L) /\ Len(L) \in Nat
    BY <1>7
  <1>9. /\ pending \in Seq(Placements) /\ Len(pending) <= Len(L)
        /\ \A j \in 1..Len(pending) : pending[j] = L[Len(L) - Len(pending) + j]
    BY <1>0, <1>2 DEF ReadInv, ScanInv
  <1>10. Len(pending) \in Nat \ {0} /\ p = pending[1]
    BY <1>2, <1>9
  <1>11. source \in Nat /\ k \in DOMAIN L /\ L[k] = p
    <2>1. k \in 1..Len(L) /\ source \in Nat
      BY <1>8, <1>9, <1>10
    <2>2. 1 \in 1..Len(pending)
      BY <1>10
    <2> QED
      BY <1>8, <1>9, <1>10, <2>1, <2>2
  <1> DEFINE ids == {i \in Live : AtPlacement(i, p) /\ Hit(i)}
  <1>12. PICK order \in RowOrders(ids) : entries' = entries \o NewRows(order, p, source)
    BY DEF ReadRows, NewRows, Lists
  <1> DEFINE rows == NewRows(order, p, source)
  <1>13. rows \in Seq(ReadRow)
    BY <1>0, <1>2, <1>11, <1>12, NewRowsFacts
  <1>14. \/ /\ phase' = "topics" /\ target' = target + 1
         \/ /\ phase' = "rows" /\ target' = target /\ pending' = Tail(pending)
    BY <1>2 DEF ReadRows, Lists
  <1>15. Distinct(order)
    BY <1>12, SetToSeqsDistinct DEF RowOrders
  <1>16. /\ DOMAIN rows = DOMAIN order
         /\ \A n \in DOMAIN rows : /\ rows[n].target = target /\ rows[n].source = source
                                   /\ rows[n].placement = p /\ rows[n].id = order[n]
    BY DEF NewRows, EntryOf
  <1>17. entries \in Seq(ReadRow) /\ entries' = entries \o rows
    BY <1>0, <1>12 DEF ReadInv, EntriesInv
  <1>18. target \in Nat /\ target' \in Nat /\ target <= target'
    BY <1>7, <1>14
  <1>24. k = Len(L) - Len(pending) + 1 /\ k = source + 1
    OBVIOUS
  <1> HIDE DEF rows, p, source, k, ids
  <1>19. ASSUME NEW i \in DOMAIN entries PROVE entries[i].source \in Nat /\ entries[i].target \in Nat
    <2>1. entries[i] \in ReadRow
      BY <1>17
    <2> QED
      BY <2>1 DEF ReadRow
  <1>20. \A i \in DOMAIN entries : Placed(entries[i])
    BY <1>0, <1>2 DEF OrderInv
  <1>21. \A i, j \in DOMAIN entries : i < j => Follows(entries[i], entries[j])
    BY <1>0, <1>2 DEF OrderInv
  <1>22. \A i, j \in DOMAIN rows : i < j => Follows(rows[i], rows[j])
    <2> SUFFICES ASSUME NEW i \in DOMAIN rows, NEW j \in DOMAIN rows, i < j PROVE Follows(rows[i], rows[j])
      OBVIOUS
    <2>1. DOMAIN rows = 1..Len(rows) /\ Len(rows) \in Nat
      BY <1>13
    <2>2. i # j /\ order[i] # order[j]
      BY <1>15, <1>16, <2>1 DEF Distinct
    <2> QED
      BY <1>11, <1>16, <2>2 DEF Follows, Before
  <1>23. \A i \in DOMAIN entries, j \in DOMAIN rows : Follows(entries[i], rows[j])
    <2> SUFFICES ASSUME NEW i \in DOMAIN entries, NEW j \in DOMAIN rows PROVE Follows(entries[i], rows[j])
      OBVIOUS
    <2> DEFINE e == entries[i]
    <2>1. e.source \in Nat /\ e.target \in Nat
      BY <1>19
    <2>2. e.target < target \/ (e.target = target /\ e.source < source)
      <3>1. e.target < target \/ (e.target = target /\ e.source + 1 <= Len(L) - Len(pending))
        BY <1>20 DEF Placed, Passed
      <3> QED
        BY <1>11, <1>24, <2>1, <3>1 DEF source
    <2>3. rows[j].target = target /\ rows[j].source = source
      BY <1>16
    <2> HIDE DEF e
    <2> QED
      BY <1>11, <1>18, <2>1, <2>2, <2>3 DEF Follows, Before, e
  <1>25. \A i, j \in DOMAIN entries' : i < j => Follows(entries'[i], entries'[j])
    <2> HIDE DEF ReadRow
    <2> QED
      BY <1>13, <1>17, <1>21, <1>22, <1>23, FollowsAppended
  <1>26. ASSUME NEW e, e.source + 1 \in DOMAIN Lists[e.target], Lists[e.target][e.source + 1] = e.placement,
                e.target \in Nat, e.source \in Nat,
                e.target < target \/ (e.target = target /\ e.source <= source)
         PROVE  Placed(e)'
    <2>1. e.source + 1 \in DOMAIN Lists'[e.target] /\ Lists'[e.target][e.source + 1] = e.placement
      BY <1>3, <1>26
    <2>2. e.target < target' \/ (e.target = target' /\ phase' # "topics" /\ Passed(e.source + 1)')
      <3>1. CASE e.target < target \/ target' = target + 1
        BY <1>18, <1>26, <3>1
      <3>2. CASE phase' = "rows" /\ target' = target /\ pending' = Tail(pending) /\ e.target = target
        <4>1. Len(pending') = Len(pending) - 1
          BY <1>9, <1>10, <3>2
        <4>2. e.source + 1 <= Len(L) - Len(pending')
          BY <1>8, <1>10, <1>18, <1>26, <3>2, <4>1 DEF source
        <4>3. Lists'[target'] = L
          BY <1>3, <3>2
        <4> QED
          BY <3>2, <4>2, <4>3 DEF Passed
      <3> QED
        BY <1>14, <1>26, <3>1, <3>2
    <2> QED
      BY <2>1, <2>2 DEF Placed
  <1>27. ASSUME NEW i \in DOMAIN entries, NEW e, e = entries[i] PROVE Placed(e)'
    <2>1. e.source \in Nat /\ e.target \in Nat
      BY <1>19, <1>27
    <2>2. /\ e.source + 1 \in DOMAIN Lists[e.target] /\ Lists[e.target][e.source + 1] = e.placement
          /\ e.target < target \/ (e.target = target /\ e.source + 1 <= Len(L) - Len(pending))
      BY <1>20, <1>27 DEF Placed, Passed
    <2>3. e.target < target \/ (e.target = target /\ e.source <= source)
      BY <1>11, <2>1, <2>2 DEF source
    <2> QED
      BY <1>26, <2>1, <2>2, <2>3
  <1>28. ASSUME NEW e, e.target = target, e.source = source, e.placement = p PROVE Placed(e)'
    <2>1. source <= source
      BY <1>11
    <2> QED
      BY <1>11, <1>18, <1>24, <1>26, <1>28, <2>1
  <1>29. \A e \in Range(entries') : Placed(e)'
    <2>1. \A e : e \in Range(entries') <=> e \in Range(entries) \/ e \in Range(rows)
      <3> HIDE DEF ReadRow
      <3> QED
        BY <1>13, <1>17, RangeAppended
    <2> SUFFICES ASSUME NEW e \in Range(entries') PROVE Placed(e)'
      OBVIOUS
    <2>2. CASE e \in Range(entries)
      BY <1>27, <2>2 DEF Range
    <2>3. CASE e \in Range(rows)
      BY <1>16, <1>28, <2>3 DEF Range
    <2> QED
      BY <2>1, <2>2, <2>3
  <1>30. \A n \in 1..Len(resolved') : Distinct(resolved'[n])
    BY <1>0, <1>2 DEF OrderInv
  <1>31. \A i \in DOMAIN entries' : Placed(entries[i])'
    BY <1>29 DEF Range, Placed
  <1>32. OrderInv'
    BY <1>25, <1>30, <1>31 DEF OrderInv, Distinct, Follows, Before
  <1>33. AnswerInv'
    BY <1>5 DEF AnswerInv
  <1> QED
    BY <1>32, <1>33

LEMMA StepCutInv == CutInv /\ [ReadNext]_stackVars => CutInv'
  <1> SUFFICES ASSUME CutInv, [ReadNext]_stackVars PROVE CutInv'
    OBVIOUS
  <1>1. ReadInv'
    BY StepReadInv DEF CutInv
  <1>2. CASE Read /\ UNCHANGED <<storeVars, past>>
    BY <1>1, <1>2, ResolveCut, RefuseCut, ReadTopicsCut, ReadRowsCut, FinishCut DEF Read, CutInv
  <1>3. CASE Commit
    BY <1>1, <1>3, WatchedCut DEF Commit, CutInv
  <1>4. CASE UNCHANGED stackVars
    BY <1>1, <1>4, WatchedCut DEF stackVars, CutInv
  <1> QED
    BY <1>2, <1>3, <1>4 DEF ReadNext

LEMMA StackCut == StackSpec => []CutInv
  <1> QED
    BY InitCutInv, StepCutInv, PTL DEF StackSpec
-----------------------------------------------------------------------------
(* What the order of the entries says of the answer.                       *)

LEMMA NthGrows ==
  ASSUME NEW S \in SUBSET Nat, IsFiniteSet(S),
         NEW m \in 1..Cardinality(S), NEW n \in 1..Cardinality(S), m < n
  PROVE  Nth(S, m) < Nth(S, n)
  <1> DEFINE a == Nth(S, m)
             b == Nth(S, n)
  <1>1. a \in S /\ b \in S /\ Cardinality(Upto(S, a)) = m /\ Cardinality(Upto(S, b)) = n
    BY NthOnto
  <1>2. Cardinality(S) \in Nat /\ m \in Nat /\ n \in Nat
    BY RankFacts
  <1> HIDE DEF a, b
  <1>3. a \in Nat /\ b \in Nat
    BY <1>1
  <1>4. CASE b <= a
    <2>1. Upto(S, b) \in SUBSET Upto(S, a)
      <3> SUFFICES ASSUME NEW j \in S, j <= b PROVE j <= a
        BY DEF Upto
      <3>1. j \in Nat
        OBVIOUS
      <3> QED
        BY <1>3, <1>4, <3>1
    <2>2. IsFiniteSet(Upto(S, a))
      <3>1. Upto(S, a) \in SUBSET S
        BY DEF Upto
      <3> QED
        BY <3>1, FS_Subset
    <2>3. Cardinality(Upto(S, b)) <= Cardinality(Upto(S, a))
      BY <2>1, <2>2, FS_Subset
    <2> QED
      BY <1>1, <1>2, <2>3
  <1> QED
    BY <1>3, <1>4 DEF a, b

\* The records of the entries, as merging names them.
MergedOf == {MergedResult(entries[i]) : i \in DOMAIN entries}

LEMMA EntriesFacts ==
  ASSUME ReadInv
  PROVE  /\ entries \in Seq(ReadRow) /\ DOMAIN entries \in SUBSET Nat /\ IsFiniteSet(DOMAIN entries)
         /\ \A i \in DOMAIN entries : entries[i] \in ReadRow
         /\ Firsts \in SUBSET Nat /\ IsFiniteSet(Firsts) /\ Firsts \subseteq DOMAIN entries
         /\ Shown \in SUBSET Nat /\ IsFiniteSet(Shown) /\ Shown \subseteq DOMAIN entries
         /\ Cardinality(Firsts) \in Nat /\ Cardinality(Shown) \in Nat
  <1>1. entries \in Seq(ReadRow)
    BY DEF ReadInv, EntriesInv
  <1>2. /\ DOMAIN entries = 1..Len(entries) /\ Len(entries) \in Nat
        /\ \A i \in DOMAIN entries : entries[i] \in ReadRow
    <2> HIDE DEF ReadRow
    <2> QED
      BY <1>1
  <1>3. DOMAIN entries \in SUBSET Nat /\ IsFiniteSet(DOMAIN entries)
    BY <1>2, FS_Interval
  <1>4. Firsts \in SUBSET Nat /\ IsFiniteSet(Firsts) /\ Firsts \subseteq DOMAIN entries
    BY <1>3, FS_Subset DEF Firsts
  <1>5. Shown \in SUBSET Nat /\ IsFiniteSet(Shown) /\ Shown \subseteq DOMAIN entries
    BY <1>3, FS_Subset DEF Shown
  <1> QED
    BY <1>1, <1>2, <1>3, <1>4, <1>5, FS_CardinalityType

LEMMA MergedSeq ==
  ASSUME ReadInv
  PROVE  /\ Merged \in Seq(MergedOf) /\ Len(Merged) = Cardinality(Firsts)
         /\ \A x \in MergedOf : x.text \in Texts
         /\ \A n \in 1..Len(Merged) : /\ Nth(Firsts, n) \in Firsts /\ Nth(Firsts, n) \in DOMAIN entries
                                      /\ Merged[n] = MergedResult(entries[Nth(Firsts, n)])
  <1> DEFINE N == Cardinality(Firsts)
  <1>1. N \in Nat /\ \A n \in 1..N : Nth(Firsts, n) \in Firsts /\ Nth(Firsts, n) \in DOMAIN entries
    BY EntriesFacts, NthOnto
  <1>2. \A n \in 1..N : MergedResult(entries[Nth(Firsts, n)]) \in MergedOf
    BY <1>1 DEF MergedOf
  <1>3. Merged \in [1..N -> MergedOf]
    BY <1>2 DEF Merged
  <1>4. Merged \in Seq(MergedOf) /\ Len(Merged) = N
    BY <1>1, <1>3
  <1>5. \A n \in 1..N : Merged[n] = MergedResult(entries[Nth(Firsts, n)])
    BY DEF Merged
  <1>6. ASSUME NEW x \in MergedOf PROVE x.text \in Texts
    <2>1. PICK i \in DOMAIN entries : x = MergedResult(entries[i])
      BY DEF MergedOf
    <2>2. entries[i] \in ReadRow
      BY EntriesFacts
    <2> QED
      BY <2>1, <2>2 DEF MergedResult, ReadRow
  <1> QED
    BY <1>1, <1>4, <1>5, <1>6

\* Merging keeps the order of the targets and of their sources.
LEMMA MergedInOrder ==
  ASSUME CutInv, phase = "done", NEW i \in 1..Len(Merged), NEW j \in 1..Len(Merged), i < j
  PROVE  Before(Merged[i], Merged[j])
  <1>0. ReadInv /\ Reading /\ OrderInv
    BY DEF CutInv, Reading
  <1> DEFINE a == Nth(Firsts, i)
             b == Nth(Firsts, j)
  <1>1. i \in 1..Cardinality(Firsts) /\ j \in 1..Cardinality(Firsts)
    BY <1>0, MergedSeq
  <1>2. a < b
    BY <1>0, <1>1, EntriesFacts, NthGrows
  <1>3. /\ a \in DOMAIN entries /\ b \in DOMAIN entries
        /\ Merged[i] = MergedResult(entries[a]) /\ Merged[j] = MergedResult(entries[b])
    BY <1>0, MergedSeq
  <1> HIDE DEF a, b
  <1>4. Follows(entries[a], entries[b])
    BY <1>0, <1>2, <1>3 DEF OrderInv
  <1> QED
    BY <1>3, <1>4 DEF Follows, Before, MergedResult

\* In the stack of one repository no record is read twice.
LEMMA SingleTarget ==
  ASSUME CutInv, phase = "done", call.command = "recall", Len(call.targets) = 1
  PROVE  Firsts = Shown
  <1>0. ReadInv /\ Reading /\ OrderInv
    BY DEF CutInv, Reading
  <1>1. Lists = resolved /\ Len(Lists) = 1
    <2>1. call \in Calls /\ resolved \in Seq(Seq(Placements)) /\ Len(resolved) = Resolutions
      BY <1>0 DEF ReadInv, ResolvedInv
    <2> QED
      BY <2>1, SearchedShape DEF Lists
  <1>2. Distinct(Lists[1])
    BY <1>0, <1>1 DEF OrderInv
  <1>3. ASSUME NEW i \in DOMAIN entries PROVE entries[i].target = 1
    <2>1. entries[i].target \in 1..Len(Lists)
      BY <1>0, DoneFacts DEF Range
    <2> QED
      BY <1>1, <2>1
  <1>4. ASSUME NEW i \in DOMAIN entries, NEW j \in DOMAIN entries, i < j
        PROVE  Key(entries[i]) # Key(entries[j])
    <2> DEFINE e == entries[i]
               f == entries[j]
    <2>1. Placed(e) /\ Placed(f) /\ Follows(e, f) /\ e.target = 1 /\ f.target = 1
      BY <1>0, <1>3, <1>4 DEF OrderInv
    <2>2. e.source \in Nat /\ f.source \in Nat
      BY <1>0, EntriesFacts DEF ReadRow
    <2> HIDE DEF e, f
    <2> SUFFICES ASSUME Key(e) = Key(f) PROVE FALSE
      BY DEF e, f
    <2>3. e.placement = f.placement /\ e.id = f.id
      BY DEF Key
    <2>4. /\ e.source + 1 \in DOMAIN Lists[1] /\ f.source + 1 \in DOMAIN Lists[1]
          /\ Lists[1][e.source + 1] = Lists[1][f.source + 1]
      BY <2>1, <2>3 DEF Placed
    <2>5. e.source + 1 = f.source + 1
      BY <1>2, <2>4 DEF Distinct
    <2>6. e.source = f.source
      BY <2>2, <2>5
    <2> QED
      BY <2>1, <2>3, <2>6 DEF Follows
  <1>5. ASSUME NEW i \in Shown PROVE i \in Firsts
    <2>1. i \in DOMAIN entries /\ entries[i].visible
      BY DEF Shown
    <2>2. \A j \in Showing(Key(entries[i])) : i <= j
      <3> SUFFICES ASSUME NEW j \in Showing(Key(entries[i])) PROVE i <= j
        OBVIOUS
      <3>1. j \in DOMAIN entries /\ Key(entries[j]) = Key(entries[i])
        BY DEF Showing
      <3>2. i \in Nat /\ j \in Nat
        BY <1>0, <2>1, <3>1, EntriesFacts
      <3>3. ~(j < i)
        BY <1>4, <2>1, <3>1
      <3> QED
        BY <3>2, <3>3
    <2> QED
      BY <2>1, <2>2 DEF Firsts
  <1>6. Firsts \subseteq Shown
    BY DEF Firsts, Shown
  <1> QED
    BY <1>5, <1>6

\* Sequences of the same texts weigh the same.
LEMMA SameTexts ==
  ASSUME NEW s, Texted(s), NEW t, Texted(t), Len(s) = Len(t),
         \A n \in 1..Len(s) : s[n].text = t[n].text, NEW chars, NEW n \in 1..Len(s)
  PROVE  FitsIn(s, chars, n) <=> FitsIn(t, chars, n)
  <1>1. PICK f : Totals(s, f)
    BY WidthTotal
  <1>2. Totals(t, f)
    BY <1>1 DEF Totals
  <1>3. n \in 0..Len(s) /\ n \in 0..Len(t)
    BY DEF Texted
  <1>4. WidthOf(SubSeq(s, 1, n)) = f[n] /\ WidthOf(SubSeq(t, 1, n)) = f[n]
    BY <1>1, <1>2, <1>3, WidthOfPrefix
  <1> QED
    BY <1>4 DEF FitsIn

\* For one repository merging changes neither the records nor their order.
LEMMA SingleMerged ==
  ASSUME CutInv, phase = "done", call.command = "recall", Len(call.targets) = 1
  PROVE  /\ VisibleEntries \in Seq(ReadRow) /\ Len(VisibleEntries) = Len(Merged)
         /\ \A n \in 1..Len(Merged) :
              VisibleEntries[n].text = Merged[n].text /\ Key(VisibleEntries[n]) = Key(Merged[n])
  <1>0. ReadInv
    BY DEF CutInv
  <1>1. Firsts = Shown
    BY SingleTarget
  <1> DEFINE N == Cardinality(Firsts)
  <1>2. N \in Nat /\ Len(Merged) = N
    BY <1>0, EntriesFacts, MergedSeq
  <1>3. \A n \in 1..N : VisibleEntries[n] = entries[Nth(Firsts, n)]
    BY <1>1 DEF VisibleEntries
  <1>4. \A n \in 1..N : entries[Nth(Firsts, n)] \in ReadRow
    <2> HIDE DEF ReadRow
    <2> QED
      BY <1>0, <1>2, EntriesFacts, MergedSeq
  <1>5. VisibleEntries \in [1..N -> ReadRow]
    <2> HIDE DEF ReadRow
    <2> QED
      BY <1>1, <1>4 DEF VisibleEntries
  <1>6. VisibleEntries \in Seq(ReadRow) /\ Len(VisibleEntries) = N
    <2> HIDE DEF ReadRow
    <2> QED
      BY <1>2, <1>5
  <1>7. \A n \in 1..N : Merged[n] = MergedResult(entries[Nth(Firsts, n)])
    BY <1>0, <1>2, MergedSeq
  <1>8. \A e : MergedResult(e).text = e.text /\ Key(MergedResult(e)) = Key(e)
    BY DEF MergedResult, Key
  <1>9. \A n \in 1..N : VisibleEntries[n].text = Merged[n].text /\ Key(VisibleEntries[n]) = Key(Merged[n])
    BY <1>3, <1>7, <1>8
  <1> QED
    BY <1>2, <1>6, <1>9

\* The library cuts the stack of one repository where the budget does.
LEMMA LibraryAgrees ==
  ASSUME CutInv, phase = "done", call.command = "recall", Len(call.targets) = 1,
         NEW limit \in Nat, NEW chars \in Nat \cup {NoBudget}, NEW c \in 0..Len(Merged),
         \A n \in 1..Len(Merged) : n <= c <=> n <= limit /\ FitsIn(Merged, chars, n)
  PROVE  LET library == TakeCharBudget(Limited(VisibleEntries, limit), chars)
             kept == SubSeq(Merged, 1, c)
         IN  [n \in DOMAIN library |-> Key(library[n])] = [n \in DOMAIN kept |-> Key(kept[n])]
  <1> DEFINE V == VisibleEntries
             N == Len(Merged)
             m == IF limit < N THEN limit ELSE N
             u == SubSeq(V, 1, m)
  <1>1. /\ V \in Seq(ReadRow) /\ Len(V) = N
        /\ \A n \in 1..N : V[n].text = Merged[n].text /\ Key(V[n]) = Key(Merged[n])
    BY SingleMerged
  <1>2. Merged \in Seq(MergedOf) /\ \A x \in MergedOf : x.text \in Texts
    BY MergedSeq DEF CutInv
  <1>3. \A x \in ReadRow : x.text \in Texts
    BY DEF ReadRow
  <1> HIDE DEF ReadRow
  <1>4. Texted(V) /\ Texted(Merged)
    <2>1. Texted(V)
      BY <1>1, <1>3, TextedSeq
    <2>2. Texted(Merged)
      BY <1>2, TextedSeq
    <2> QED
      BY <2>1, <2>2
  <1>5. N \in Nat /\ m \in 0..N /\ \A n \in 1..N : n <= m <=> n <= limit
    <2>1. N \in Nat
      BY <1>2
    <2> QED
      BY <2>1
  <1>6. Limited(V, limit) = u
    BY <1>1 DEF Limited
  <1>7. m \in 0..Len(V)
    BY <1>1, <1>5
  <1> HIDE DEF m, V
  <1>8. /\ u \in Seq(ReadRow) /\ Len(u) = m
        /\ \A n \in 0..m : SubSeq(u, 1, n) = SubSeq(V, 1, n)
    BY <1>1, <1>7, PrefixOfPrefix
  <1> HIDE DEF u
  <1>9. PICK k \in 0..Len(u) : /\ TakeCharBudget(u, chars) = SubSeq(u, 1, k)
                               /\ \A n \in 1..Len(u) : n <= k <=> FitsIn(u, chars, n)
    BY <1>3, <1>8, LibraryCut
  <1>10. k \in 0..m /\ m \in Nat /\ k \in Nat /\ c \in Nat /\ c <= N /\ k <= m
    BY <1>5, <1>8, <1>9
  <1>11. ASSUME NEW n \in 1..m PROVE n <= k <=> n <= c
    <2>1. n \in 1..N /\ n \in 0..m /\ n <= limit
      BY <1>5, <1>10
    <2>2. FitsIn(u, chars, n) <=> FitsIn(V, chars, n)
      BY <1>8, <2>1 DEF FitsIn
    <2>3. FitsIn(Merged, chars, n) <=> FitsIn(V, chars, n)
      BY <1>1, <1>4, <2>1, SameTexts
    <2> QED
      BY <1>8, <1>9, <2>1, <2>2, <2>3
  <1>12. k = c
    <2>1. c <= m
      <3>1. CASE c = 0
        BY <1>10, <3>1
      <3>2. CASE c # 0
        <4>1. c \in 1..N /\ c <= c
          BY <1>5, <1>10, <3>2
        <4> QED
          BY <1>5, <4>1
      <3> QED
        BY <3>1, <3>2
    <2>2. c <= k
      <3>1. CASE c = 0
        BY <1>10, <3>1
      <3>2. CASE c # 0
        <4>1. c \in 1..m /\ c <= c
          BY <1>10, <2>1, <3>2
        <4> QED
          BY <1>11, <4>1
      <3> QED
        BY <3>1, <3>2
    <2>3. k <= c
      <3>1. CASE k = 0
        BY <1>10, <3>1
      <3>2. CASE k # 0
        <4>1. k \in 1..m /\ k <= k
          BY <1>10, <3>2
        <4> QED
          BY <1>11, <4>1
      <3> QED
        BY <3>1, <3>2
    <2> QED
      BY <1>10, <2>2, <2>3
  <1> DEFINE library == TakeCharBudget(u, chars)
             kept == SubSeq(Merged, 1, c)
  <1>13. library = SubSeq(V, 1, c) /\ c \in 0..Len(V)
    BY <1>1, <1>8, <1>9, <1>10, <1>12
  <1>14. Len(library) = c /\ library \in Seq(ReadRow) /\ \A n \in 1..c : library[n] = V[n]
    <2> HIDE DEF library
    <2>1. c \in 0..c
      BY <1>10
    <2> QED
      BY <1>1, <1>13, PrefixOfPrefix, <2>1
  <1>15. Len(kept) = c /\ kept \in Seq(MergedOf) /\ \A n \in 1..c : kept[n] = Merged[n]
    <2>1. c \in 0..c
      BY <1>10
    <2> QED
      BY <1>2, PrefixOfPrefix, <2>1
  <1> HIDE DEF library, kept
  <1>16. DOMAIN library = 1..c /\ DOMAIN kept = 1..c
    BY <1>14, <1>15
  <1>17. \A n \in 1..c : Key(library[n]) = Key(kept[n])
    <2>1. \A n \in 1..c : n \in 1..N
      BY <1>5, <1>10
    <2>2. \A n \in 1..c : library[n] = V[n] /\ kept[n] = Merged[n]
      BY <1>14, <1>15
    <2>3. \A n \in 1..N : Key(V[n]) = Key(Merged[n])
      BY <1>1
    <2> QED
      BY <2>1, <2>2, <2>3
  <1>18. [n \in DOMAIN library |-> Key(library[n])] = [n \in DOMAIN kept |-> Key(kept[n])]
    BY <1>16, <1>17
  <1> QED
    BY <1>6, <1>18 DEF library, kept, V

\* The answer is cut where it must be.
LEMMA CutAnswers == CutInv => AnswerCut
  <1> SUFFICES ASSUME CutInv, phase = "done", call.command = "recall" PROVE
        LET kept == answer.results IN
        /\ kept = SubSeq(Merged, 1, Len(kept))
        /\ \A i, j \in DOMAIN kept : i < j => Before(kept[i], kept[j])
        /\ \A n \in 1..Len(Merged) : n <= Len(kept) <=> Fits(n)
        /\ answer.truncated <=> Len(kept) # Len(Merged)
        /\ Len(call.targets) = 1 =>
             LET library == TakeCharBudget(Limited(VisibleEntries, call.limit), call.chars)
             IN  [n \in DOMAIN library |-> Key(library[n])] = [n \in DOMAIN kept |-> Key(kept[n])]
    BY DEF AnswerCut
  <1>1. ReadInv /\ call \in Calls
    BY DEF CutInv, ReadInv, ResolvedInv
  <1>2. call.limit \in Nat /\ call.chars \in Nat \cup {NoBudget}
    BY <1>1, CallsAssumption DEF CallsOK
  <1>3. answer.results = Budget(Merged, call.limit, call.chars) /\ answer.truncated = (Len(answer.results) < Len(Merged))
    BY DEF CutInv, AnswerInv
  <1> DEFINE kept == answer.results
             N == Len(Merged)
  <1>4. Merged \in Seq(MergedOf) /\ \A x \in MergedOf : x.text \in Texts
    BY <1>1, MergedSeq
  <1>5. PICK c \in 0..N :
          /\ Budget(Merged, call.limit, call.chars) = SubSeq(Merged, 1, c)
          /\ \A n \in 1..N : n <= c <=> n <= call.limit /\ FitsIn(Merged, call.chars, n)
    BY <1>2, <1>4, BudgetCut
  <1>6. kept = SubSeq(Merged, 1, c)
    BY <1>3, <1>5
  <1>7. N \in Nat /\ c \in Nat /\ c <= N /\ c \in 0..c
    BY <1>4, <1>5
  <1>8. Len(kept) = c /\ kept \in Seq(MergedOf) /\ \A n \in 1..c : kept[n] = Merged[n]
    <2>1. /\ SubSeq(Merged, 1, c) \in Seq(MergedOf) /\ Len(SubSeq(Merged, 1, c)) = c
          /\ \A i \in 1..c : SubSeq(Merged, 1, c)[i] = Merged[i]
      BY <1>4, <1>7, PrefixOfPrefix
    <2> QED
      BY <1>6, <2>1
  <1> HIDE DEF kept
  <1>9. kept = SubSeq(Merged, 1, Len(kept))
    BY <1>6, <1>8
  <1>10. \A i, j \in DOMAIN kept : i < j => Before(kept[i], kept[j])
    <2> SUFFICES ASSUME NEW i \in DOMAIN kept, NEW j \in DOMAIN kept, i < j PROVE Before(kept[i], kept[j])
      OBVIOUS
    <2>1. i \in 1..c /\ j \in 1..c
      BY <1>8
    <2>2. i \in 1..N /\ j \in 1..N
      BY <1>7, <2>1
    <2>3. Before(Merged[i], Merged[j])
      BY <2>2, MergedInOrder
    <2> QED
      BY <1>8, <2>1, <2>3
  <1>11. \A n \in 1..N : n <= Len(kept) <=> Fits(n)
    BY <1>5, <1>8 DEF Fits, FitsIn
  <1>12. answer.truncated <=> Len(kept) # N
    <2>1. Len(kept) < N <=> Len(kept) # N
      BY <1>7, <1>8
    <2>2. answer.truncated = (Len(kept) < N)
      BY <1>3 DEF kept
    <2> QED
      BY <2>1, <2>2
  <1>13. Len(call.targets) = 1 =>
           LET library == TakeCharBudget(Limited(VisibleEntries, call.limit), call.chars)
           IN  [n \in DOMAIN library |-> Key(library[n])] = [n \in DOMAIN kept |-> Key(kept[n])]
    <2> SUFFICES ASSUME Len(call.targets) = 1
                 PROVE  LET library == TakeCharBudget(Limited(VisibleEntries, call.limit), call.chars)
                        IN  [n \in DOMAIN library |-> Key(library[n])] = [n \in DOMAIN kept |-> Key(kept[n])]
      OBVIOUS
    <2>1. \A n \in 1..Len(Merged) : n <= c <=> n <= call.limit /\ FitsIn(Merged, call.chars, n)
      BY <1>5
    <2>2. LET library == TakeCharBudget(Limited(VisibleEntries, call.limit), call.chars)
              cut == SubSeq(Merged, 1, c)
          IN  [n \in DOMAIN library |-> Key(library[n])] = [n \in DOMAIN cut |-> Key(cut[n])]
      BY <1>2, <1>5, <2>1, LibraryAgrees
    <2> QED
      BY <1>6, <2>2
  <1> QED
    BY <1>9, <1>10, <1>11, <1>12, <1>13 DEF kept

(* A recall is cut once, after merging: whatever is committed meanwhile,   *)
(* its results keep the order of targets and sources, are the longest      *)
(* prefix that the limit and the characters admit, say whether something   *)
(* was cut (budget_targeted_memories), and for one repository are what the *)
(* library's own cut keeps (take_char_budget).                             *)
THEOREM StackAnswerCut == StackSpec => []AnswerCut
  <1> QED
    BY StackCut, CutAnswers, PTL

-----------------------------------------------------------------------------
(* The inductive invariant of transfers.                                   *)

CallRecords ==
  [at : {"idle"} \cup Waits \cup Outcomes, path : Paths, request : Transfers,
   op : OperationIds, attempt : 1..2]

\* The ledger has the operation of c, with its request.
Told(c) ==
  transfer[c].op \in DOMAIN ledger /\ ledger[transfer[c].op].request = transfer[c].request

InFlight(c) == \E m \in net : m.client = c /\ m.kind = "transfer"

Refused(c) ==
  \E r \in replies :
    r.message.client = c /\ r.message.kind = "transfer" /\ r.verdict = "refused"

\* A command sends its transfer once; a refusal is the end of it.
ReceiptInv(c) ==
  /\ transfer[c].attempt = 1
  /\ transfer[c].at \in {"idle", "verify"} =>
       /\ commits[c] = 0
       /\ \A m \in net : m.client # c
       /\ \A r \in replies : r.message.client # c
  /\ InFlight(c) => commits[c] = 0
  /\ \A m \in net : m.client = c => m.attempt = 1
  /\ Refused(c) \/ transfer[c].at = "failed" => commits[c] = 0 /\ ~InFlight(c)

ClientInv(c) ==
  /\ commits[c] > 0 => Told(c)
  /\ \A r \in replies : r.message.client = c /\ r.verdict = "committed" => Told(c)
  /\ transfer[c].at = "committed" => Told(c)
  /\ transfer[c].path = "receipt" => ReceiptInv(c)

RecoveryInv ==
  /\ StoreInv
  /\ transfer \in [Clients -> CallRecords]
  /\ \A c \in Clients : transfer[c].op \in Keys \cup {DerivedId(transfer[c].request)}
  /\ net \subseteq Messages
  /\ replies \subseteq [message : Messages, verdict : Verdicts]
  /\ commits \in [Clients -> Nat]
  /\ OneEffect
  /\ \A c \in Clients : ClientInv(c)

LEMMA InitRecoveryInv == RecoveryInit => RecoveryInv
  <1> SUFFICES ASSUME RecoveryInit PROVE RecoveryInv
    OBVIOUS
  <1>1. StoreInv
    BY InitStoreInv DEF RecoveryInit
  <1>2. ASSUME NEW x \in NewCalls
        PROVE  x \in CallRecords /\ x.at = "idle" /\ x.attempt = 1
               /\ x.op \in Keys \cup {DerivedId(x.request)}
    <2>1. PICK q \in Transfers :
            x \in [at : {"idle"}, path : Paths, request : {q}, op : Keys \cup {DerivedId(q)},
                   attempt : {1}]
      BY <1>2 DEF NewCalls
    <2>2. q \in Requests
      BY TransfersAssumption
    <2> QED
      BY <2>1, <2>2 DEF CallRecords, OperationIds, DerivedId
  <1>3. /\ transfer \in [Clients -> CallRecords]
        /\ \A c \in Clients : /\ transfer[c].at = "idle" /\ transfer[c].attempt = 1
                              /\ transfer[c].op \in Keys \cup {DerivedId(transfer[c].request)}
    BY <1>2 DEF RecoveryInit
  <1>4. /\ net = {} /\ replies = {} /\ commits \in [Clients -> Nat]
        /\ \A c \in Clients : commits[c] = 0
    BY DEF RecoveryInit
  <1>5. OneEffect
    BY <1>4 DEF OneEffect
  <1>6. ASSUME NEW c \in Clients PROVE ClientInv(c)
    BY <1>3, <1>4 DEF ClientInv, ReceiptInv, InFlight, Refused
  <1> QED
    BY <1>1, <1>3, <1>4, <1>5, <1>6 DEF RecoveryInv

-----------------------------------------------------------------------------
(* What every step does.                                                   *)

\* A client keeps its transfer, and the ledger its entries.
Kept ==
  /\ transfer' \in [Clients -> CallRecords]
  /\ \A c \in Clients : /\ transfer'[c].op = transfer[c].op /\ transfer'[c].path = transfer[c].path
                        /\ transfer'[c].request = transfer[c].request
  /\ \A op \in DOMAIN ledger : op \in DOMAIN ledger' /\ ledger'[op] = ledger[op]
  /\ net' \subseteq Messages
  /\ replies' \subseteq [message : Messages, verdict : Verdicts]
  /\ commits' \in [Clients -> Nat]

\* A step that does not concern c.
Apart(c) ==
  /\ transfer'[c] = transfer[c] /\ commits'[c] = commits[c]
  /\ \A m \in net' \ net : m.client # c
  /\ \A r \in replies' \ replies : r.message.client # c

LEMMA ToldStays ==
  ASSUME Kept, NEW c \in Clients, Told(c)
  PROVE  Told(c)'
  BY DEF Kept, Told

LEMMA ApartInv ==
  ASSUME RecoveryInv, Kept, NEW c \in Clients, Apart(c)
  PROVE  ClientInv(c)'
  <1>1. ClientInv(c)
    BY DEF RecoveryInv
  <1>2. Told(c) => Told(c)'
    BY ToldStays
  <1>3. InFlight(c)' => InFlight(c)
    BY DEF InFlight, Apart
  <1>4. Refused(c)' => Refused(c)
    BY DEF Refused, Apart
  <1>5. ReceiptInv(c) => ReceiptInv(c)'
    BY <1>3, <1>4 DEF ReceiptInv, Apart
  <1>6. \A r \in replies' : r.message.client = c => r \in replies
    BY DEF Apart
  <1> QED
    BY <1>1, <1>2, <1>5, <1>6 DEF ClientInv, Apart

\* A step of the store alone, or of the network, put together.
LEMMA KeptInv ==
  ASSUME RecoveryInv, StoreInv', Kept, \A c \in Clients : ClientInv(c)', OneEffect'
  PROVE  RecoveryInv'
  BY DEF RecoveryInv, Kept

LEMMA SameEffects ==
  ASSUME RecoveryInv, Kept, UNCHANGED commits
  PROVE  OneEffect'
  BY DEF RecoveryInv, Kept, OneEffect

-----------------------------------------------------------------------------
(* Steps of a client.  None touches the store or commits anything.         *)

\* What one client may do: go on, and send at most one message, as it waits.
Advances(c) ==
  /\ \E at \in {"idle"} \cup Waits \cup Outcomes, attempt \in 1..2 :
       transfer' = [transfer EXCEPT ![c].at = at, ![c].attempt = attempt]
  /\ net' \subseteq net \cup {Waiting(c)'}
  /\ net' \subseteq Messages
  /\ replies' \subseteq replies
  /\ UNCHANGED <<storeVars, commits>>

LEMMA AdvancesKeeps ==
  ASSUME RecoveryInv, NEW c \in Clients, Advances(c)
  PROVE  Kept /\ \A d \in Clients \ {c} : Apart(d)
  <1>1. PICK at \in {"idle"} \cup Waits \cup Outcomes, attempt \in 1..2 :
          transfer' = [transfer EXCEPT ![c].at = at, ![c].attempt = attempt]
    BY DEF Advances
  <1>2. transfer \in [Clients -> CallRecords] /\ commits \in [Clients -> Nat]
        /\ replies \subseteq [message : Messages, verdict : Verdicts]
    BY DEF RecoveryInv
  <1>3. /\ transfer' \in [Clients -> CallRecords]
        /\ \A d \in Clients : /\ transfer'[d].op = transfer[d].op
                              /\ transfer'[d].path = transfer[d].path
                              /\ transfer'[d].request = transfer[d].request
        /\ \A d \in Clients \ {c} : transfer'[d] = transfer[d]
    BY <1>1, <1>2 DEF CallRecords
  <1>4. ledger' = ledger /\ commits' = commits
    BY DEF Advances, storeVars
  <1>5. \A m \in net' \ net : m.client = c
    BY DEF Advances, Waiting
  <1> QED
    BY <1>2, <1>3, <1>4, <1>5 DEF Advances, Kept, Apart

LEMMA AdvancesInv ==
  ASSUME RecoveryInv, NEW c \in Clients, Advances(c), ClientInv(c)'
  PROVE  RecoveryInv'
  <1>1. Kept /\ \A d \in Clients \ {c} : Apart(d)
    BY AdvancesKeeps
  <1>2. \A d \in Clients : ClientInv(d)'
    BY <1>1, ApartInv
  <1>3. StoreInv'
    BY StepStoreInv DEF RecoveryInv, Advances
  <1> QED
    BY <1>1, <1>2, <1>3, SameEffects, KeptInv DEF Advances

\* The facts a step of c needs of c itself.
LEMMA OfClient ==
  ASSUME RecoveryInv, NEW c \in Clients
  PROVE  /\ ClientInv(c)
         /\ transfer[c] \in CallRecords /\ transfer \in [Clients -> CallRecords]
         /\ net \subseteq Messages
  BY DEF RecoveryInv, CallRecords

LEMMA BecomeCall ==
  ASSUME RecoveryInv, NEW c \in Clients, NEW at \in {"idle"} \cup Waits \cup Outcomes,
         Become(c, at)
  PROVE  /\ transfer' = [transfer EXCEPT ![c].at = at, ![c].attempt = transfer[c].attempt]
         /\ transfer[c].attempt \in 1..2
         /\ transfer'[c].at = at /\ transfer'[c].attempt = transfer[c].attempt
         /\ transfer'[c].op = transfer[c].op /\ transfer'[c].path = transfer[c].path
         /\ transfer'[c].request = transfer[c].request
  BY OfClient DEF Become, CallRecords

\* A step that only reads answers: c goes on, sends nothing.
LEMMA QuietInv ==
  ASSUME RecoveryInv, NEW c \in Clients, NEW at \in Waits \cup Outcomes, Become(c, at),
         net' = net, replies' \subseteq replies, UNCHANGED <<storeVars, commits>>,
         at = "committed" => Told(c),
         at = "verify" => transfer[c].at = "idle",
         at = "failed" /\ transfer[c].path = "receipt" =>
           \/ transfer[c].at = "verify"
           \/ Refused(c)
  PROVE  RecoveryInv'
  <1>1. /\ transfer' = [transfer EXCEPT ![c].at = at, ![c].attempt = transfer[c].attempt]
        /\ transfer[c].attempt \in 1..2
        /\ transfer'[c].at = at /\ transfer'[c].attempt = transfer[c].attempt
        /\ transfer'[c].op = transfer[c].op /\ transfer'[c].path = transfer[c].path
        /\ transfer'[c].request = transfer[c].request
    BY BecomeCall
  <1>2. Advances(c)
    BY <1>1, OfClient DEF Advances
  <1>3. ClientInv(c)
    BY OfClient
  <1>4. Told(c) => Told(c)'
    BY <1>2, AdvancesKeeps, ToldStays
  <1>5. InFlight(c)' <=> InFlight(c)
    BY DEF InFlight
  <1>6. Refused(c)' => Refused(c)
    BY DEF Refused
  <1>7. transfer[c].path = "receipt" => ReceiptInv(c)'
    <2> SUFFICES ASSUME transfer[c].path = "receipt" PROVE ReceiptInv(c)'
      OBVIOUS
    <2>1. ReceiptInv(c)
      BY <1>3 DEF ClientInv
    <2>2. at \in {"idle", "verify"} => transfer[c].at = "idle"
      BY DEF Waits, Outcomes
    <2>3. at = "failed" => commits[c] = 0 /\ ~InFlight(c)
      <3>1. transfer[c].at = "verify" => commits[c] = 0 /\ ~InFlight(c)
        BY <2>1 DEF ReceiptInv, InFlight
      <3>2. Refused(c) => commits[c] = 0 /\ ~InFlight(c)
        BY <2>1 DEF ReceiptInv
      <3> QED
        BY <3>1, <3>2
    <2> QED
      BY <1>1, <1>5, <1>6, <2>1, <2>2, <2>3 DEF ReceiptInv
  <1>8. ClientInv(c)'
    BY <1>1, <1>3, <1>4, <1>7 DEF ClientInv
  <1> QED
    BY <1>2, <1>8, AdvancesInv

\* A step that sends: the transfer after "verify", a status after it.
LEMMA SendInv ==
  ASSUME RecoveryInv, NEW c \in Clients, NEW stage \in {"transfer", "status"},
         Send(c, stage), UNCHANGED <<storeVars, commits>>,
         stage = "transfer" => transfer[c].at = "verify",
         stage = "status" => transfer[c].at = "transfer"
  PROVE  RecoveryInv'
  <1> DEFINE m == [client |-> c, kind |-> stage, attempt |-> transfer[c].attempt]
  <1>1. /\ transfer' = [transfer EXCEPT ![c].at = stage, ![c].attempt = transfer[c].attempt]
        /\ transfer[c].attempt \in 1..2
        /\ transfer'[c].at = stage /\ transfer'[c].attempt = transfer[c].attempt
        /\ transfer'[c].op = transfer[c].op /\ transfer'[c].path = transfer[c].path
        /\ transfer'[c].request = transfer[c].request
    BY BecomeCall DEF Send, Waits
  <1>2. net' = net \cup {m} /\ replies' = replies
    BY DEF Send
  <1>3. m \in Messages /\ Waiting(c)' = m
    BY <1>1 DEF Messages, Waiting
  <1>4. m.client = c /\ m.kind = stage /\ m.attempt = transfer[c].attempt
    OBVIOUS
  <1> HIDE DEF m
  <1>5. Advances(c)
    BY <1>1, <1>2, <1>3, OfClient DEF Advances, Waits
  <1>6. ClientInv(c)
    BY OfClient
  <1>7. Told(c) => Told(c)'
    BY <1>5, AdvancesKeeps, ToldStays
  <1>8. transfer[c].path = "receipt" => ReceiptInv(c)'
    <2> SUFFICES ASSUME transfer[c].path = "receipt" PROVE ReceiptInv(c)'
      OBVIOUS
    <2>1. ReceiptInv(c)
      BY <1>6 DEF ClientInv
    <2>2. Refused(c)' <=> Refused(c)
      BY <1>2 DEF Refused
    <2>3. CASE stage = "transfer"
      <3>1. commits[c] = 0 /\ ~Refused(c)
        BY <2>1, <2>3 DEF ReceiptInv, Refused
      <3> QED
        BY <1>1, <1>2, <1>4, <2>1, <2>2, <2>3, <3>1 DEF ReceiptInv
    <2>4. CASE stage = "status"
      <3>1. InFlight(c)' <=> InFlight(c)
        BY <1>2, <1>4, <2>4 DEF InFlight
      <3> QED
        BY <1>1, <1>2, <1>4, <2>1, <2>2, <2>4, <3>1 DEF ReceiptInv
    <2> QED
      BY <2>3, <2>4
  <1>9. ClientInv(c)'
    BY <1>1, <1>2, <1>6, <1>7, <1>8 DEF ClientInv
  <1> QED
    BY <1>5, <1>9, AdvancesInv

\* The library client begins its second attempt.
LEMMA SecondInv ==
  ASSUME RecoveryInv, NEW c \in Clients, transfer[c].path = "library",
         transfer' = [transfer EXCEPT ![c].at = "verify", ![c].attempt = 2],
         net' = net, replies' \subseteq replies, UNCHANGED <<storeVars, commits>>
  PROVE  RecoveryInv'
  <1>1. /\ transfer'[c].at = "verify" /\ transfer'[c].path = "library"
        /\ transfer'[c].op = transfer[c].op /\ transfer'[c].request = transfer[c].request
    BY OfClient DEF CallRecords
  <1>2. Advances(c)
    <2>1. "verify" \in {"idle"} \cup Waits \cup Outcomes /\ 2 \in 1..2
      BY DEF Waits
    <2>2. net' \subseteq net \cup {Waiting(c)'} /\ net' \subseteq Messages
      BY OfClient
    <2> QED
      BY <2>1, <2>2 DEF Advances
  <1>3. Told(c) => Told(c)'
    BY <1>2, AdvancesKeeps, ToldStays
  <1>4. ClientInv(c)'
    BY <1>1, <1>3, OfClient DEF ClientInv
  <1> QED
    BY <1>2, <1>4, AdvancesInv

LEMMA TakeFacts ==
  ASSUME RecoveryInv, NEW c \in Clients, NEW verdict \in Verdicts, Take(c, verdict)
  PROVE  /\ replies' \subseteq replies /\ net' = net /\ UNCHANGED <<storeVars, commits>>
         /\ verdict = "committed" => Told(c)
         /\ verdict = "refused" /\ transfer[c].at = "transfer" => Refused(c)
  <1> DEFINE r == Answered(Waiting(c), verdict)
  <1>1. r \in replies /\ r.message.client = c /\ r.message.kind = transfer[c].at /\ r.verdict = verdict
    BY DEF Take, Answered, Waiting
  <1>2. ClientInv(c)
    BY OfClient
  <1> HIDE DEF r
  <1> QED
    BY <1>1, <1>2 DEF Take, ClientInv, Refused, Answered

LEMMA ClientStepInv ==
  ASSUME RecoveryInv, NEW c \in Clients, ClientStep(c) \/ Disconnect(c)
  PROVE  RecoveryInv'
  <1>1. CASE Start(c)
    BY <1>1, QuietInv DEF Start, netVars, Waits
  <1>2. CASE Verified(c)
    <2>1. CASE Send(c, "transfer")
      BY <1>2, <2>1, SendInv DEF Verified
    <2>2. CASE Settle(c, "failed")
      BY <1>2, <2>2, QuietInv DEF Verified, Settle, netVars, Outcomes
    <2> QED
      BY <1>2, <2>1, <2>2 DEF Verified
  <1>3. CASE TransferAnswered(c)
    <2>1. CASE Take(c, "committed") /\ Become(c, "committed")
      BY <2>1, TakeFacts, QuietInv DEF Verdicts, Outcomes
    <2>2. CASE Take(c, "refused") /\ Become(c, "failed")
      BY <1>3, <2>2, TakeFacts, QuietInv DEF Verdicts, Outcomes, TransferAnswered
    <2> QED
      BY <1>3, <2>1, <2>2 DEF TransferAnswered
  <1>4. CASE TransferUnanswered(c)
    BY <1>4, SendInv DEF TransferUnanswered, AfterAmbiguousSend
  <1>5. CASE StatusAnswered(c)
    <2>1. CASE Take(c, "committed") /\ Become(c, "committed")
      BY <2>1, TakeFacts, QuietInv DEF Verdicts, Outcomes
    <2>2. CASE Take(c, "not_found") /\ AfterNotFound(c)
      <3>1. CASE transfer[c].path = "library" /\ transfer[c].attempt = 1
        BY <2>2, <3>1, TakeFacts, SecondInv DEF AfterNotFound, Verdicts
      <3>2. CASE ~(transfer[c].path = "library" /\ transfer[c].attempt = 1)
        BY <2>2, <3>2, TakeFacts, QuietInv DEF AfterNotFound, Verdicts, Outcomes
      <3> QED
        BY <3>1, <3>2
    <2>3. CASE /\ \E verdict \in Verdicts : Take(c, verdict)
               /\ Become(c, IF transfer[c].path = "library" THEN "failed" ELSE "unknown")
      <3>1. PICK verdict \in Verdicts : Take(c, verdict)
        BY <2>3
      <3>2. /\ replies' \subseteq replies /\ net' = net /\ UNCHANGED <<storeVars, commits>>
        BY <3>1, TakeFacts
      <3>3. CASE transfer[c].path = "library"
        BY <2>3, <3>2, <3>3, QuietInv DEF Outcomes
      <3>4. CASE transfer[c].path # "library"
        BY <2>3, <3>2, <3>4, QuietInv DEF Outcomes
      <3> QED
        BY <3>3, <3>4
    <2> QED
      BY <1>5, <2>1, <2>2, <2>3 DEF StatusAnswered
  <1>6. CASE StatusUnanswered(c)
    BY <1>6, QuietInv DEF StatusUnanswered, Settle, netVars, Outcomes
  <1> QED
    BY <1>1, <1>2, <1>3, <1>4, <1>5, <1>6 DEF ClientStep, TimesOut, Disconnect

-----------------------------------------------------------------------------
(* Steps of the server and of the network.                                 *)

\* A message is taken, and answered if its client still waits for it.
Serves(m, verdict) ==
  /\ m \in net /\ net' = net \ {m}
  /\ replies' = IF Waiting(m.client) = m THEN replies \cup {Answered(m, verdict)} ELSE replies
  /\ UNCHANGED transfer

LEMMA ServesApart ==
  ASSUME RecoveryInv, NEW m \in Messages, NEW verdict \in Verdicts, Serves(m, verdict),
         \A op \in DOMAIN ledger : op \in DOMAIN ledger' /\ ledger'[op] = ledger[op],
         commits' \in [Clients -> Nat],
         \A c \in Clients \ {m.client} : commits'[c] = commits[c]
  PROVE  /\ Kept /\ m.client \in Clients
         /\ \A c \in Clients \ {m.client} : Apart(c)
  <1>1. Answered(m, verdict) \in [message : Messages, verdict : Verdicts]
    BY DEF Answered
  <1>2. \A r \in replies' \ replies : r.message.client = m.client
    BY DEF Serves, Answered
  <1>3. m.client \in Clients
    BY DEF Messages
  <1>4. Kept
    BY <1>1 DEF Kept, Serves, RecoveryInv
  <1>5. \A c \in Clients \ {m.client} : Apart(c)
    BY <1>2 DEF Apart, Serves
  <1> QED
    BY <1>3, <1>4, <1>5

\* The one client whose message was taken.
LEMMA ServedInv ==
  ASSUME RecoveryInv, NEW m \in Messages, NEW verdict \in Verdicts, Serves(m, verdict),
         Kept, commits'[m.client] \in Nat,
         verdict = "committed" => Told(m.client)',
         commits'[m.client] > 0 => Told(m.client)',
         m.kind = "transfer" /\ verdict = "refused" => commits' = commits,
         m.kind = "transfer" \/ commits' = commits
  PROVE  ClientInv(m.client)'
  <1> DEFINE c == m.client
             r == Answered(m, verdict)
  <1>1. c \in Clients
    BY DEF Messages
  <1>2. ClientInv(c) /\ (Told(c) => Told(c)')
    BY <1>1, OfClient, ToldStays
  <1>3. r.message = m /\ r.verdict = verdict
    BY DEF Answered
  <1>4. replies' = replies \/ (replies' = replies \cup {r} /\ m = Waiting(c))
    BY DEF Serves
  <1> HIDE DEF r
  <1>5. net' = net \ {m} /\ transfer' = transfer /\ m \in net
    BY DEF Serves
  <1>6. transfer[c].path = "receipt" => ReceiptInv(c)'
    <2> SUFFICES ASSUME transfer[c].path = "receipt" PROVE ReceiptInv(c)'
      OBVIOUS
    <2>1. ReceiptInv(c)
      BY <1>2 DEF ClientInv
    <2>2. transfer[c].at \notin {"idle", "verify"}
      BY <1>5, <2>1 DEF ReceiptInv
    <2>3. \A n \in net : n.client = c /\ n.kind = "transfer" =>
            n = [client |-> c, kind |-> "transfer", attempt |-> 1]
      BY <2>1, OfClient, <1>1 DEF ReceiptInv, Messages
    <2>4. CASE m.kind = "transfer"
      <3>1. ~InFlight(c)' /\ commits[c] = 0 /\ transfer[c].at # "failed" /\ ~Refused(c)
        BY <1>5, <2>1, <2>3, <2>4 DEF InFlight, ReceiptInv
      <3>2. Refused(c)' => commits'[c] = 0
        <4>1. Refused(c)' => verdict = "refused"
          BY <1>3, <1>4, <3>1 DEF Refused
        <4> QED
          BY <2>4, <3>1, <4>1
      <3> QED
        BY <1>5, <2>1, <2>2, <3>1, <3>2 DEF ReceiptInv
    <2>5. CASE m.kind # "transfer"
      <3>1. commits' = commits /\ (InFlight(c)' => InFlight(c))
        BY <1>5, <2>5 DEF InFlight
      <3>2. Refused(c)' => Refused(c)
        BY <1>3, <1>4, <2>5 DEF Refused
      <3> QED
        BY <1>5, <2>1, <2>2, <3>1, <3>2 DEF ReceiptInv
    <2> QED
      BY <2>4, <2>5
  <1>7. \A x \in replies' : x.message.client = c /\ x.verdict = "committed" => Told(c)'
    BY <1>2, <1>3, <1>4 DEF ClientInv
  <1>8. transfer'[c].at = "committed" => Told(c)'
    BY <1>2, <1>5 DEF ClientInv
  <1> QED
    BY <1>5, <1>6, <1>7, <1>8 DEF ClientInv

LEMMA ServeQuietInv ==
  ASSUME RecoveryInv, NEW m \in Messages, NEW verdict \in Verdicts, Serves(m, verdict),
         UNCHANGED <<storeVars, commits>>,
         verdict = "committed" => Told(m.client)
  PROVE  RecoveryInv'
  <1>1. ledger' = ledger /\ commits' = commits
    BY DEF storeVars
  <1>2. /\ Kept /\ m.client \in Clients
        /\ \A c \in Clients \ {m.client} : Apart(c)
    BY <1>1, ServesApart DEF RecoveryInv
  <1>3. Told(m.client) => Told(m.client)'
    BY <1>2, ToldStays
  <1>4. commits'[m.client] \in Nat /\ (commits'[m.client] > 0 => Told(m.client)')
    BY <1>1, <1>2, <1>3, OfClient DEF ClientInv, RecoveryInv
  <1>5. ClientInv(m.client)'
    BY <1>1, <1>2, <1>3, <1>4, ServedInv
  <1>6. \A c \in Clients : ClientInv(c)'
    BY <1>2, <1>5, ApartInv
  <1>7. StoreInv'
    BY StepStoreInv DEF RecoveryInv
  <1> QED
    BY <1>1, <1>2, <1>6, <1>7, SameEffects, KeptInv

LEMMA TransferStoreStep ==
  ASSUME RecoveryInv, NEW c \in Clients, CopyMove(transfer[c].op, transfer[c].request, NoDescriptor)
  PROVE  /\ Next /\ transfer[c].op \notin DOMAIN ledger
         /\ transfer[c].op \in DOMAIN ledger' /\ ledger'[transfer[c].op].request = transfer[c].request
         /\ \A op \in DOMAIN ledger : op \in DOMAIN ledger' /\ ledger'[op] = ledger[op]
  <1>1. transfer[c].request \in Requests /\ transfer[c].op \in Keys \cup {DerivedId(transfer[c].request)}
    BY OfClient, TransfersAssumption DEF RecoveryInv, CallRecords
  <1>2. NoDescriptor \in Descriptors
    BY DEF Descriptors
  <1>3. Next
    BY <1>1, <1>2 DEF Next
  <1>4. PICK id \in MemoryIds :
          ledger' = Put(ledger, transfer[c].op, [request |-> transfer[c].request, result |-> id])
    BY DEF CopyMove
  <1>5. transfer[c].op \notin DOMAIN ledger
    BY DEF CopyMove, NotCommitted
  <1> QED
    BY <1>3, <1>4, <1>5 DEF Put

LEMMA ServeCommitInv ==
  ASSUME RecoveryInv, NEW m \in Messages, Serves(m, "committed"), m.kind = "transfer",
         CopyMove(transfer[m.client].op, transfer[m.client].request, NoDescriptor),
         commits' = [commits EXCEPT ![m.client] = @ + 1]
  PROVE  RecoveryInv'
  <1> DEFINE c == m.client
  <1>1. c \in Clients /\ commits \in [Clients -> Nat]
    BY DEF Messages, RecoveryInv
  <1>2. /\ commits' \in [Clients -> Nat] /\ commits'[c] = commits[c] + 1
        /\ \A d \in Clients \ {c} : commits'[d] = commits[d]
    BY <1>1
  <1>3. /\ Next /\ transfer[c].op \notin DOMAIN ledger
        /\ transfer[c].op \in DOMAIN ledger' /\ ledger'[transfer[c].op].request = transfer[c].request
        /\ \A op \in DOMAIN ledger : op \in DOMAIN ledger' /\ ledger'[op] = ledger[op]
    BY <1>1, TransferStoreStep
  <1>4. Kept /\ \A d \in Clients \ {c} : Apart(d)
    BY <1>2, <1>3, ServesApart DEF Verdicts
  <1>5. Told(c)'
    BY <1>3 DEF Serves, Told
  <1>6. ClientInv(c)'
    BY <1>2, <1>1, <1>4, <1>5, ServedInv DEF Verdicts
  <1>7. \A d \in Clients : ClientInv(d)'
    BY <1>4, <1>6, ApartInv
  <1>8. OneEffect'
    <2>1. \A d \in Clients : transfer[d].op = transfer[c].op => commits[d] = 0
      BY <1>1, <1>3, OfClient DEF ClientInv, Told
    <2>2. \A d \in Clients : transfer'[d].op = transfer[d].op
      BY <1>4 DEF Kept
    <2> QED
      BY <1>1, <1>2, <2>1, <2>2 DEF OneEffect, RecoveryInv
  <1>9. StoreInv'
    BY <1>3, StepStoreInv DEF RecoveryInv
  <1> QED
    BY <1>4, <1>7, <1>8, <1>9, KeptInv

LEMMA DeliverInv ==
  ASSUME RecoveryInv, NEW m \in Messages, Deliver(m)
  PROVE  RecoveryInv'
  <1> DEFINE c == m.client
             q == transfer[c].request
             op == transfer[c].op
  <1>1. c \in Clients
    BY DEF Messages
  <1>2. CASE ServeTransfer(m)
    <2>1. CASE /\ CopyMove(op, q, NoDescriptor) /\ Serves(m, "committed")
               /\ commits' = [commits EXCEPT ![c] = @ + 1]
      BY <1>2, <2>1, ServeCommitInv DEF ServeTransfer
    <2>2. CASE /\ op \in DOMAIN ledger /\ ledger[op].request = q
               /\ Serves(m, "committed") /\ UNCHANGED <<storeVars, commits>>
      BY <2>2, ServeQuietInv DEF Told, Verdicts
    <2>3. CASE Serves(m, "refused") /\ UNCHANGED <<storeVars, commits>>
      BY <2>3, ServeQuietInv DEF Verdicts
    <2> QED
      BY <1>2, <2>1, <2>2, <2>3 DEF ServeTransfer, Serves, OperationOf
  <1>3. CASE ServeStatus(m)
    <2> DEFINE verdict == OperationStatus(op, q)
    <2>1. Serves(m, verdict) /\ UNCHANGED <<storeVars, commits>>
      BY <1>3 DEF ServeStatus, Serves
    <2>2. verdict \in Verdicts /\ (verdict = "committed" => Told(c))
      BY DEF OperationStatus, Verdicts, Told
    <2> HIDE DEF verdict
    <2> QED
      BY <2>1, <2>2, ServeQuietInv
  <1>4. CASE LoseMessage(m)
    <2>1. net' = net \ {m} /\ UNCHANGED <<storeVars, transfer, replies, commits>>
      BY <1>4 DEF LoseMessage
    <2>2. Kept /\ \A d \in Clients : Apart(d)
      BY <2>1 DEF Kept, Apart, RecoveryInv, storeVars
    <2>3. \A d \in Clients : ClientInv(d)'
      BY <2>2, ApartInv
    <2>4. StoreInv'
      BY <2>1, StepStoreInv DEF RecoveryInv
    <2> QED
      BY <2>1, <2>2, <2>3, <2>4, SameEffects, KeptInv
  <1> QED
    BY <1>2, <1>3, <1>4 DEF Deliver

LEMMA LoseReplyInv ==
  ASSUME RecoveryInv, NEW r, LoseReply(r)
  PROVE  RecoveryInv'
  <1>1. replies' = replies \ {r} /\ UNCHANGED <<storeVars, transfer, net, commits>>
    BY DEF LoseReply
  <1>2. Kept /\ \A d \in Clients : Apart(d)
    BY <1>1 DEF Kept, Apart, RecoveryInv, storeVars
  <1>3. \A d \in Clients : ClientInv(d)'
    BY <1>2, ApartInv
  <1>4. StoreInv'
    BY <1>1, StepStoreInv DEF RecoveryInv
  <1> QED
    BY <1>1, <1>2, <1>3, <1>4, SameEffects, KeptInv

LEMMA ElsewhereInv ==
  ASSUME RecoveryInv, Elsewhere
  PROVE  RecoveryInv'
  <1>1. Next /\ ledger' = ledger
    <2>1. NoDescriptor \in Descriptors /\ TRUE \in BOOLEAN
      BY DEF Descriptors
    <2>2. Next
      BY <2>1 DEF Elsewhere, Next
    <2>3. ledger' = ledger
      BY DEF Elsewhere, Remember, ForgetAt, CreateDomain, DeleteDomain, AttachDomain, DetachDomain
    <2> QED
      BY <2>2, <2>3
  <1>2. UNCHANGED <<transfer, net, replies, commits>>
    BY DEF Elsewhere, netVars
  <1>3. Kept /\ \A d \in Clients : Apart(d)
    BY <1>1, <1>2 DEF Kept, Apart, RecoveryInv
  <1>4. \A d \in Clients : ClientInv(d)'
    BY <1>3, ApartInv
  <1>5. StoreInv'
    BY <1>1, StepStoreInv DEF RecoveryInv
  <1> QED
    BY <1>2, <1>3, <1>4, <1>5, SameEffects, KeptInv

LEMMA StepRecoveryInv == RecoveryInv /\ [RecoveryNext]_recoveryVars => RecoveryInv'
  <1> SUFFICES ASSUME RecoveryInv, [RecoveryNext]_recoveryVars PROVE RecoveryInv'
    OBVIOUS
  <1>1. CASE \E c \in Clients : ClientStep(c) \/ Disconnect(c)
    BY <1>1, ClientStepInv
  <1>2. CASE \E m \in Messages : Deliver(m)
    BY <1>2, DeliverInv
  <1>3. CASE \E m \in Messages, verdict \in Verdicts : LoseReply(Answered(m, verdict))
    BY <1>3, LoseReplyInv
  <1>4. CASE Elsewhere
    BY <1>4, ElsewhereInv
  <1>5. CASE UNCHANGED recoveryVars
    <2>1. UNCHANGED <<storeVars, transfer, net, replies, commits>>
      BY <1>5 DEF recoveryVars, storeVars
    <2>2. Kept /\ \A d \in Clients : Apart(d)
      BY <2>1 DEF Kept, Apart, RecoveryInv, storeVars
    <2>3. \A d \in Clients : ClientInv(d)'
      BY <2>2, ApartInv
    <2>4. StoreInv'
      BY <2>1, StepStoreInv DEF RecoveryInv
    <2> QED
      BY <2>1, <2>2, <2>3, <2>4, SameEffects, KeptInv
  <1> QED
    BY <1>1, <1>2, <1>3, <1>4, <1>5 DEF RecoveryNext

-----------------------------------------------------------------------------
LEMMA RecoveryInvariant == RecoverySpec => []RecoveryInv
  BY InitRecoveryInv, StepRecoveryInv, PTL DEF RecoverySpec

(* Clients, messages and answers are of the form the server and the        *)
(* clients of src/remote expect.                                           *)
THEOREM RecoveryTyped == RecoverySpec => []RecoveryTypeOK
  <1>1. RecoveryInv => RecoveryTypeOK
    BY DEF RecoveryInv, RecoveryTypeOK, StoreInv, CallRecords
  <1> QED
    BY <1>1, RecoveryInvariant, PTL

(* A client that reports a committed transfer is right: the ledger has the *)
(* operation with its request (src/remote/receipts.rs, recovery.rs).       *)
THEOREM RecoveryTruthful == RecoverySpec => []CommittedTruthful
  <1>1. RecoveryInv => CommittedTruthful
    BY DEF RecoveryInv, ClientInv, Told, CommittedTruthful
  <1> QED
    BY <1>1, RecoveryInvariant, PTL

(* Sending again commits nothing twice, and two clients with the same      *)
(* operation identity commit once together.                                *)
THEOREM RecoveryOneEffect == RecoverySpec => []OneEffect
  <1>1. RecoveryInv => OneEffect
    BY DEF RecoveryInv
  <1> QED
    BY <1>1, RecoveryInvariant, PTL

(* The recovery handle of a client finds what its messages committed,      *)
(* however late the server took them.                                      *)
THEOREM RecoveryHandleFinds == RecoverySpec => []HandleFinds
  <1>1. RecoveryInv => HandleFinds
    BY DEF RecoveryInv, ClientInv, Told, HandleFinds, OperationStatus
  <1> QED
    BY <1>1, RecoveryInvariant, PTL

(* A command that reports a failed transfer is right for good: nothing it  *)
(* sent has committed, or can (src/remote/receipts.rs).                    *)
THEOREM RecoveryFailureFinal == RecoverySpec => []ReceiptFailureFinal
  <1>1. RecoveryInv => ReceiptFailureFinal
    BY DEF RecoveryInv, ClientInv, ReceiptInv, ReceiptFailureFinal
  <1> QED
    BY <1>1, RecoveryInvariant, PTL
-----------------------------------------------------------------------------
(* The server, its clients and the others change the store only as         *)
(* MemoryStore does.                                                       *)

LEMMA RecoveryStoreStep == RecoveryInv /\ [RecoveryNext]_recoveryVars => [Next]_storeVars
  <1> SUFFICES ASSUME RecoveryInv, [RecoveryNext]_recoveryVars PROVE [Next]_storeVars
    OBVIOUS
  <1>1. CASE UNCHANGED recoveryVars
    BY <1>1 DEF recoveryVars, storeVars
  <1>2. ASSUME NEW c \in Clients, ClientStep(c) \/ Disconnect(c) PROVE UNCHANGED storeVars
    BY <1>2 DEF ClientStep, Start, Verified, TransferAnswered, TransferUnanswered, TimesOut,
       StatusAnswered, StatusUnanswered, Disconnect, Take
  <1>3. ASSUME NEW m \in Messages, Deliver(m) PROVE [Next]_storeVars
    <2>1. m.client \in Clients
      BY DEF Messages
    <2>2. CASE CopyMove(transfer[m.client].op, transfer[m.client].request, NoDescriptor)
      BY <2>1, <2>2, TransferStoreStep
    <2>3. CASE UNCHANGED storeVars
      BY <2>3
    <2> QED
      BY <1>3, <2>2, <2>3 DEF Deliver, ServeTransfer, ServeStatus, LoseMessage, OperationOf
  <1>4. CASE Elsewhere
    <2>1. NoDescriptor \in Descriptors /\ TRUE \in BOOLEAN
      BY DEF Descriptors
    <2> QED
      BY <1>4, <2>1 DEF Elsewhere, Next
  <1>5. ASSUME NEW r, LoseReply(r) PROVE UNCHANGED storeVars
    BY <1>5 DEF LoseReply
  <1> QED
    BY <1>1, <1>2, <1>3, <1>4, <1>5 DEF RecoveryNext

(* Whatever is lost, late or sent twice, the store sees only transactions  *)
(* of MemoryStore, each as a whole: src/server.rs serves a transfer by the *)
(* same copy_move_observed that a local command calls.                     *)
THEOREM RecoveryImplementsStore == RecoverySpec => Spec
  <1>1. RecoveryInit => Init
    BY DEF RecoveryInit
  <1> QED
    BY <1>1, RecoveryStoreStep, RecoveryInvariant, PTL DEF RecoverySpec, Spec

(* In particular a transfer that arrives late commits its record, its      *)
(* provenance and its ledger entry together (src/store/transfers).         *)
THEOREM RecoveryTransferAtomic == RecoverySpec => TransferAtomic
  BY RecoveryImplementsStore, StoreTransferAtomic, PTL
=============================================================================
