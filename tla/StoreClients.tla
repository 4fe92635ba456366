---------------------------- MODULE StoreClients ----------------------------
(***************************************************************************)
(* Several processes (command lines, a server) calling remember and forget *)
(* on one database.  src/operation/writes.rs validates the placement with  *)
(* two autocommit SELECTs before the store begins its transaction, so      *)
(* anything may be committed in between; the transaction itself is BEGIN   *)
(* IMMEDIATE, one writer at a time, and a remember reads before it writes. *)
(* Every other write of MemoryStore is one such transaction of some        *)
(* process that is not followed further.                                   *)
(*                                                                         *)
(* A process may die at any step.  The receipt, the best-effort location   *)
(* and the activity that follow a commit change no table of MemoryStore.   *)
(***************************************************************************)
EXTENDS MemoryStore

CONSTANTS
  Processes,  \* processes that have the database open
  Nobody      \* no process is in a write transaction

ASSUME NobodyAssumption == Nobody \notin Processes

VARIABLES
  call,    \* process -> its call and how far it is
  writer,  \* the process inside BEGIN IMMEDIATE
  held     \* history: when the call found its domain attached, see Observe

clientVars == <<domains, attached, memories, provenance, ledger, identities,
                call, writer, held>>

Stages == {"exists", "attached", "begin", "check", "insert", "done"}

Remembers == [at : Stages, kind : {"remember"}, repository : Repositories,
              placement : Placements, text : Texts, force : BOOLEAN]
Overwrites == [at : Stages, kind : {"overwrite"}, repository : Repositories,
               placement : Placements, text : Texts, id : MemoryIds]
Forgets == [at : Stages, kind : {"forget"}, repository : Repositories,
            placement : Placements, id : MemoryIds]
Calls == Remembers \cup Overwrites \cup Forgets

Idle == [at |-> "idle"]

AttachedFor(c) ==
  c.placement.kind = "domain" => c.placement.id \in attached[c.repository]

-----------------------------------------------------------------------------
ClientsInit ==
  /\ Init
  /\ call = [p \in Processes |-> Idle]
  /\ writer = Nobody
  /\ held = [p \in Processes |-> {}]

Goto(p, stage) == call' = [call EXCEPT ![p].at = stage]
Stop(p) == call' = [call EXCEPT ![p] = Idle]

\* operation::validate_placement, what needs no table: another repository's
\* placement is refused at once.
Start(p, c) ==
  /\ call[p] = Idle
  /\ c.placement.kind = "repository" => c.placement.id = c.repository
  /\ c.at = IF c.placement.kind = "domain" THEN "exists" ELSE "begin"
  /\ call' = [call EXCEPT ![p] = c]
  /\ UNCHANGED <<storeVars, writer>>

\* store::domains(connection)?.contains(domain)
CheckExists(p) ==
  /\ call[p].at = "exists"
  /\ IF DomainKnown(call[p].placement) THEN Goto(p, "attached") ELSE Stop(p)
  /\ UNCHANGED <<storeVars, writer>>

\* Fault: any attachment will do.
CheckAttachedAnywhere(p) ==
  /\ call[p].at = "attached"
  /\ IF \E r \in Repositories : call[p].placement.id \in attached[r]
     THEN Goto(p, "begin") ELSE Stop(p)
  /\ UNCHANGED <<storeVars, writer>>

\* store::attached_domains(connection, repository)?.contains(domain)
CheckAttached(p) ==
  /\ call[p].at = "attached"
  /\ IF AttachedFor(call[p]) THEN Goto(p, "begin") ELSE Stop(p)
  /\ UNCHANGED <<storeVars, writer>>

\* Fault: the statements of a remember run without a transaction.
NoTransaction(p) == UNCHANGED writer

\* BEGIN IMMEDIATE waits for the writer that is in.
BeginImmediate(p) == writer = Nobody /\ writer' = p

BeginRemember(p) ==
  /\ call[p].at = "begin"
  /\ call[p].kind = "remember"
  /\ BeginImmediate(p)
  /\ Goto(p, "check")
  /\ UNCHANGED storeVars

\* recall_at inside the transaction, unless forced: hits end the call.
CheckSimilar(p) ==
  LET c == call[p] IN
  /\ c.at = "check"
  /\ IF c.force \/ SimilarAt(c.placement, c.text) = {}
     THEN Goto(p, "insert") /\ UNCHANGED writer
     ELSE Stop(p) /\ writer' = Nobody
  /\ UNCHANGED storeVars

\* INSERT and COMMIT.
InsertRemembered(p) ==
  LET c == call[p] IN
  /\ c.at = "insert"
  /\ InsertMemory(c.placement, c.text)
  /\ RecordIdentity(c.placement, NoDescriptor)
  /\ Goto(p, "done")
  /\ writer' = Nobody
  /\ UNCHANGED <<domains, attached, provenance, ledger>>

\* The foreign key of memories.domain_id fails.
InsertRefused(p) ==
  /\ call[p].at = "insert"
  /\ ~DomainKnown(call[p].placement)
  /\ Stop(p)
  /\ writer' = Nobody
  /\ UNCHANGED storeVars

\* remember --id, and the one autocommit DELETE of store::forget_at.
ChangeInPlace(p) ==
  LET c == call[p] IN
  /\ c.at = "begin"
  /\ writer = Nobody
  /\ \/ c.kind = "overwrite" /\ Overwrite(c.placement, c.id, c.text, NoDescriptor)
     \/ c.kind = "forget" /\ ForgetAt(c.placement, c.id)
  /\ Goto(p, "done")
  /\ UNCHANGED writer

NothingToChange(p) ==
  LET c == call[p] IN
  /\ c.at = "begin"
  /\ c.kind \in {"overwrite", "forget"}
  /\ ~AtPlacement(c.id, c.placement)
  /\ Stop(p)
  /\ UNCHANGED <<storeVars, writer>>

\* The receipt is out.
Finish(p) ==
  /\ call[p].at = "done"
  /\ Stop(p)
  /\ UNCHANGED <<storeVars, writer>>

\* The process dies, or a statement fails: its transaction rolls back.
Crash(p) ==
  /\ call[p] # Idle
  /\ Stop(p)
  /\ writer' = IF writer = p THEN Nobody ELSE writer
  /\ UNCHANGED storeVars

\* A whole transaction of another call.
Elsewhere ==
  /\ writer = Nobody
  /\ \/ \E d \in Domains : CreateDomain(d) \/ DeleteDomain(d)
     \/ \E r \in Repositories, d \in Domains : AttachDomain(r, d) \/ DetachDomain(r, d)
     \/ \E q \in Requests : CopyMove(DerivedId(q), q, NoDescriptor)
  /\ UNCHANGED <<call, writer>>

Step(p) ==
  \/ \E c \in Calls : Start(p, c)
  \/ CheckExists(p) \/ CheckAttached(p)
  \/ BeginRemember(p) \/ CheckSimilar(p) \/ InsertRemembered(p) \/ InsertRefused(p)
  \/ ChangeInPlace(p) \/ NothingToChange(p)
  \/ Finish(p) \/ Crash(p)

(* Whether the domain of a call has been attached to its repository at any *)
(* moment of the call, and whether it was when the call committed.         *)
Moments(p) ==
  (IF AttachedFor(call[p])' THEN {"during"} ELSE {}) \cup
  (IF call[p].at = "insert" /\ AttachedFor(call[p]) THEN {"commit"} ELSE {})

Observe ==
  held' = [p \in Processes |-> IF call'[p] = Idle THEN {} ELSE held[p] \cup Moments(p)]

ClientsNext == (Elsewhere \/ \E p \in Processes : Step(p)) /\ Observe

ClientsSpec == ClientsInit /\ [][ClientsNext]_clientVars
-----------------------------------------------------------------------------
(* The lock is held exactly by the process whose transaction is open.      *)
ClientsTypeOK ==
  /\ TypeOK
  /\ call \in [Processes -> Calls \cup {Idle}]
  /\ writer \in Processes \cup {Nobody}
  /\ held \in [Processes -> SUBSET {"during", "commit"}]
  /\ \A p \in Processes : writer = p <=> call[p].at \in {"check", "insert"}

(* A record that is saved without force has nothing similar beside it when *)
(* it is inserted, however many processes save at once: what the search    *)
(* found inside the transaction still holds at the INSERT.                 *)
CheckedStillHolds ==
  \A p \in Processes :
    call[p].at = "insert" /\ ~call[p].force =>
      SimilarAt(call[p].placement, call[p].text) = {}

(* A write into a domain is only committed by a call whose repository had  *)
(* the domain attached at some moment of the call.                         *)
AttachedDuring ==
  \A p \in Processes : call[p].at = "done" => "during" \in held[p]

(* README.md: "--domain requires an attached domain", for remember.        *)
RequiresAttachedDomain ==
  \A p \in Processes :
    call[p].at = "done" /\ call[p].kind = "remember" => "commit" \in held[p]
=============================================================================
