---------------------------- MODULE Organization ----------------------------
(***************************************************************************)
(* Memory organization, src/organization: agents take snapshots of records *)
(* with page and read, think, and later apply one group of changes that a  *)
(* user confirmed.  Apply checks in its transaction that every record it   *)
(* names is still exactly as in its snapshot; everything else of           *)
(* MemoryStore goes on meanwhile, and other agents apply too.              *)
(*                                                                         *)
(* A text here is the stamp of the write that made it: content, kind, tags *)
(* and topic change only together with updated_at, and timestamps of       *)
(* different writes are taken to differ.  A copy keeps the stamp of its    *)
(* source.  Paging is reading record by record in some order.              *)
(***************************************************************************)
EXTENDS MemoryStore

CONSTANTS
  Agents,    \* hosts that organize
  MaxStamp   \* bound: writes of content

ASSUME StampAssumption == MaxStamp \in Nat /\ Texts = 1..MaxStamp

VARIABLES
  clock,      \* the stamp of the last write of content
  snapshots,  \* agent -> memory id -> what it read of the record
  covers,     \* history: stamp -> the writes whose content it carries on
  rewritten   \* history: agent -> ids whose row was rewritten or replaced
              \* after it read them

reviewVars == <<clock, snapshots, covers, rewritten>>
organizationVars == <<domains, attached, memories, provenance, ledger, identities,
                      clock, snapshots, covers, rewritten>>

Modes == {"pending", "all"}

-----------------------------------------------------------------------------
\* Fault: a snapshot of the memories row alone.
RowSnapshot(id) == [record |-> memories[id], provenance |-> {}]

\* reads::snapshot: all columns and the stored provenance, in one statement's view.
Snapshot(id) ==
  [record |-> memories[id],
   provenance |-> IF id \in DOMAIN provenance THEN {provenance[id]} ELSE {}]

Snapshots ==
  [record : Memory,
   provenance : {{}} \cup {{p} : p \in Provenance}]

TakeSnapshot(v, id) ==
  /\ id \in Live
  /\ snapshots' = [snapshots EXCEPT ![v] = Put(@, id, Snapshot(id))]
  /\ UNCHANGED <<storeVars, clock>>

(* The four groups by their effect: at most one record is kept, rewritten  *)
(* or only marked, and others are dropped.                                 *)
Groups ==
  LET keep(id) == [kept |-> {id}, dropped |-> {}, rewrite |-> FALSE]
      refine(id) == [kept |-> {id}, dropped |-> {}, rewrite |-> TRUE]
      delete(id) == [kept |-> {}, dropped |-> {id}, rewrite |-> FALSE]
      merge(id, sources) == [kept |-> {id}, dropped |-> sources, rewrite |-> TRUE]
  IN (UNION {{keep(id), refine(id), delete(id)} : id \in MemoryIds}) \cup
     (UNION {{merge(id, sources) : sources \in (SUBSET (MemoryIds \ {id})) \ {{}}} :
             id \in MemoryIds})

Participants(group) == group.kept \cup group.dropped

\* ApplyRequest::validate.
ValidRequest(v, group, dependencies) ==
  /\ Participants(group) \cup dependencies \subseteq DOMAIN snapshots[v]
  /\ Participants(group) \cap dependencies = {}
  /\ \A i, j \in Participants(group) :
       snapshots[v][i].record.placement = snapshots[v][j].record.placement

\* Fault: only the record that is kept is compared.
KeptUnchanged(v, mode, group, dependencies) ==
  /\ \A id \in Participants(group) : id \in Live
  /\ \A id \in group.kept : Snapshot(id) = snapshots[v][id]
  /\ mode = "pending" => \A id \in Participants(group) : ~snapshots[v][id].record.organized

\* apply::check_preconditions.
Preconditions(v, mode, group, dependencies) ==
  /\ \A id \in Participants(group) \cup dependencies :
       id \in Live /\ Snapshot(id) = snapshots[v][id]
  /\ mode = "pending" => \A id \in Participants(group) : ~snapshots[v][id].record.organized

\* Fault: a connection without PRAGMA foreign_keys.
DropRecordsOnly(dropped) == UNCHANGED provenance

\* ON DELETE CASCADE, on a connection of its own (database::writable).
DropProvenance(dropped) ==
  provenance' = [i \in DOMAIN provenance \ dropped |-> provenance[i]]

\* apply::mutate, committed.
Apply(v, mode, group, dependencies) ==
  /\ ValidRequest(v, group, dependencies)
  /\ Preconditions(v, mode, group, dependencies)
  /\ clock' = IF group.rewrite THEN clock + 1 ELSE clock
  /\ clock' <= MaxStamp
  /\ memories' =
       [i \in Live \ group.dropped |->
          IF i \notin group.kept THEN memories[i]
          ELSE [text |-> IF group.rewrite THEN clock' ELSE memories[i].text,
                placement |-> memories[i].placement, organized |-> TRUE]]
  /\ DropProvenance(group.dropped)
  /\ UNCHANGED <<domains, attached, ledger, identities, snapshots>>

\* A write of content takes the next stamp.
Write ==
  /\ clock < MaxStamp
  /\ clock' = clock + 1
  /\ \E p \in Placements :
       \/ Remember(p, clock', TRUE, NoDescriptor)
       \/ \E id \in MemoryIds : Overwrite(p, id, clock', NoDescriptor)
  /\ UNCHANGED snapshots

\* The transactions that write no content.
Others ==
  /\ \/ \E p \in Placements, id \in MemoryIds : ForgetAt(p, id)
     \/ \E q \in Requests : \E op \in Keys \cup {DerivedId(q)} : CopyMove(op, q, NoDescriptor)
     \/ \E d \in Domains : CreateDomain(d) \/ DeleteDomain(d)
     \/ \E r \in Repositories, d \in Domains : AttachDomain(r, d) \/ DetachDomain(r, d)
  /\ UNCHANGED <<clock, snapshots>>

-----------------------------------------------------------------------------
(* History.  What an agent writes carries on what its snapshots carried.   *)
Derived(v, group) ==
  {clock'} \cup UNION {covers[snapshots[v][i].record.text] : i \in Participants(group)}

Covers(carried) ==
  covers' = IF clock' = clock THEN covers ELSE Put(covers, clock', carried)

Rewritten(id) ==
  \/ (id \in Live) # (id \in Live')
  \/ id \in Live /\ id \in Live' /\ memories'[id].text # memories[id].text

Watch ==
  rewritten' = [v \in Agents |-> rewritten[v] \cup {i \in DOMAIN snapshots[v] : Rewritten(i)}]

-----------------------------------------------------------------------------
OrganizationInit ==
  /\ Init
  /\ clock = 0
  /\ snapshots = [v \in Agents |-> EmptyTable]
  /\ covers = EmptyTable
  /\ rewritten = [v \in Agents |-> {}]

OrganizationNext ==
  \/ \E v \in Agents, id \in MemoryIds :
       /\ TakeSnapshot(v, id)
       /\ rewritten' = [rewritten EXCEPT ![v] = @ \ {id}]
       /\ UNCHANGED covers
  \/ \E v \in Agents, mode \in Modes, group \in Groups, dependencies \in SUBSET MemoryIds :
       Apply(v, mode, group, dependencies) /\ Covers(Derived(v, group)) /\ Watch
  \/ Write /\ Covers({clock'}) /\ Watch
  \/ Others /\ Covers({}) /\ Watch

OrganizationSpec == OrganizationInit /\ [][OrganizationNext]_organizationVars
-----------------------------------------------------------------------------
OrganizationTypeOK ==
  /\ TypeOK
  /\ clock \in 0..MaxStamp
  /\ DOMAIN snapshots = Agents
  /\ \A v \in Agents : /\ DOMAIN snapshots[v] \subseteq MemoryIds
                       /\ \A i \in DOMAIN snapshots[v] :
                            snapshots[v][i].record \in Memory
  /\ IsTable(covers, 1..clock, SUBSET (1..clock))
  /\ rewritten \in [Agents -> SUBSET MemoryIds]

(* An applied group only rests on records that nobody has rewritten, or    *)
(* deleted and replaced under the same rowid, since the agent read them;   *)
(* a copy put in place of a deleted copy is told apart only by provenance. *)
(* (What a pending request applies, one for all would apply as well.)      *)
AppliesAsReviewed ==
  [][\A v \in Agents, group \in Groups, dependencies \in SUBSET MemoryIds :
       Apply(v, "all", group, dependencies) =>
         (Participants(group) \cup dependencies) \cap rewritten[v] = {}]_organizationVars

(* Keeping, refining and merging lose no write: whatever content the live  *)
(* records carried before, they carry on after, though several agents      *)
(* merge the same records and others edit them meanwhile.                  *)
Carried == UNION {covers[memories[i].text] : i \in Live}

MergesLoseNothing ==
  [][\A v \in Agents, group \in Groups :
       Apply(v, "all", group, {}) /\ Covers(Derived(v, group)) /\ group.kept # {}
         => Carried \subseteq Carried']_organizationVars
=============================================================================
