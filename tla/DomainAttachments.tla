-------------------------- MODULE DomainAttachments --------------------------
(***************************************************************************)
(* src/store/domains.rs: the attachment order as integer positions under   *)
(* UNIQUE (repository_id, position).  SQLite checks that constraint at     *)
(* each row an UPDATE touches, so a shift is two UPDATEs: rows go above    *)
(* every used position, then come back one off.  A transaction is taken    *)
(* row by row here, in any order SQLite may visit the rows; it is BEGIN    *)
(* IMMEDIATE, so at most one is open and the others wait.                  *)
(*                                                                         *)
(* Whether memories keep a domain from being deleted is left open (see     *)
(* MemoryStore); positions are unbounded integers, far from i64's end.     *)
(***************************************************************************)
EXTENDS Integers, FiniteSets

CONSTANTS
  Repositories,  \* repository identities
  Domains,       \* domain identities
  NoReference    \* attach_domain without before

ASSUME NoReferenceAssumption == NoReference \notin Domains

VARIABLES
  domains,   \* table domains
  position,  \* repository -> (attached domain -> position), as committed
  phase,     \* how far the open transaction is
  call,      \* its parameters
  todo,      \* rows its current UPDATE has still to visit
  rows       \* the rows of its repository as they are now, uncommitted

tx == <<phase, call, todo, rows>>
vars == <<domains, position, phase, call, todo, rows>>

Empty == [d \in {} |-> 0]

Idle == phase = "idle"

(* The call that has the open transaction: the position its domain gets or *)
(* leaves, the first position to shift, the shift, the temporary offset.   *)
Calls ==
  [kind : {"attach", "detach"}, repository : Repositories, domain : Domains,
   before : Domains \cup {NoReference},
   at : Nat, first : Nat, by : {1, -1}, offset : Nat]

NoCall == [kind |-> "none"]

Close ==
  /\ phase' = "idle"
  /\ call' = NoCall
  /\ todo' = {}
  /\ rows' = Empty

Init ==
  /\ domains = {}
  /\ position = [r \in Repositories |-> Empty]
  /\ phase = "idle"
  /\ call = NoCall
  /\ todo = {}
  /\ rows = Empty

CreateDomain(d) ==
  /\ Idle
  /\ d \notin domains
  /\ domains' = domains \cup {d}
  /\ UNCHANGED <<position, tx>>

DeleteDomain(d) ==
  /\ Idle
  /\ d \in domains
  /\ \A r \in Repositories : d \notin DOMAIN position[r]
  /\ domains' = domains \ {d}
  /\ UNCHANGED <<position, tx>>

\* maximum_position: COALESCE(MAX(position), -1).
IsMaximum(table, m) ==
  IF DOMAIN table = {} THEN m = -1
  ELSE /\ \E d \in DOMAIN table : table[d] = m
       /\ \A d \in DOMAIN table : table[d] <= m

Maxima(table) == {-1} \cup {table[d] : d \in DOMAIN table}

NextPosition(maximum) == maximum + 1

\* Fault: the domain goes after its reference.
PositionAfter(table, before) == table[before] + 1

PositionBefore(table, before) == table[before]

\* Fault: raised rows may land on positions still in use.
ShortOffset(maximum) == maximum

\* Far enough for every raised row to clear the positions in use.
Offset(maximum) == maximum + 2

From(table, first) == {d \in DOMAIN table : table[d] >= first}

\* attach_domain up to its shift, which only an insertion before needs.
BeginAttach(r, d, before) ==
  LET table == position[r] IN
  /\ Idle
  /\ d \in domains \ DOMAIN table
  /\ before # NoReference => before \in DOMAIN table
  /\ \E maximum \in Maxima(table) :
       LET at == IF before = NoReference THEN NextPosition(maximum)
                 ELSE PositionBefore(table, before) IN
       /\ IsMaximum(table, maximum)
       /\ phase' = IF before = NoReference THEN "insert" ELSE "raise"
       /\ call' = [kind |-> "attach", repository |-> r, domain |-> d, before |-> before,
                   at |-> at, first |-> at, by |-> 1, offset |-> Offset(maximum)]
       /\ todo' = IF before = NoReference THEN {} ELSE From(table, at)
       /\ rows' = table
  /\ UNCHANGED <<domains, position>>

Without(table, d) == [e \in DOMAIN table \ {d} |-> table[e]]

\* Fault: the gap a removal leaves is never closed.
LeaveGap(maximum, at) == "commit"

\* Rows above the removed one are shifted if there are any.
AfterRemoval(maximum, at) == IF maximum > at THEN "raise" ELSE "commit"

\* detach_domain up to its shift: the row is deleted, the maximum read again.
BeginDetach(r, d) ==
  LET table == Without(position[r], d)
      at == position[r][d] IN
  /\ Idle
  /\ d \in domains \cap DOMAIN position[r]
  /\ \E maximum \in Maxima(table) :
       /\ IsMaximum(table, maximum)
       /\ phase' = AfterRemoval(maximum, at)
       /\ call' = [kind |-> "detach", repository |-> r, domain |-> d, before |-> NoReference,
                   at |-> at, first |-> at + 1, by |-> -1, offset |-> Offset(maximum)]
       /\ todo' = From(table, at + 1)
       /\ rows' = table
  /\ UNCHANGED <<domains, position>>

\* One row of the first UPDATE of a shift.
RaiseRow(d) ==
  /\ phase = "raise"
  /\ d \in todo
  /\ rows' = [rows EXCEPT ![d] = @ + call.offset]
  /\ todo' = todo \ {d}
  /\ UNCHANGED <<domains, position, phase, call>>

\* The second UPDATE selects the rows above the temporary start.
BeginLower ==
  /\ phase = "raise"
  /\ todo = {}
  /\ phase' = "lower"
  /\ todo' = From(rows, call.first + call.offset)
  /\ UNCHANGED <<domains, position, call, rows>>

\* One row of the second UPDATE.
LowerRow(d) ==
  /\ phase = "lower"
  /\ d \in todo
  /\ rows' = [rows EXCEPT ![d] = @ - call.offset + call.by]
  /\ todo' = todo \ {d}
  /\ UNCHANGED <<domains, position, phase, call>>

EndShift ==
  /\ phase = "lower"
  /\ todo = {}
  /\ phase' = IF call.kind = "attach" THEN "insert" ELSE "commit"
  /\ UNCHANGED <<domains, position, call, todo, rows>>

Insert ==
  /\ phase = "insert"
  /\ phase' = "commit"
  /\ rows' = [d \in DOMAIN rows \cup {call.domain} |->
                IF d = call.domain THEN call.at ELSE rows[d]]
  /\ UNCHANGED <<domains, position, call, todo>>

Commit ==
  /\ phase = "commit"
  /\ position' = [position EXCEPT ![call.repository] = rows]
  /\ Close
  /\ UNCHANGED domains

\* The process dies or the statement fails: nothing was written.
Rollback ==
  /\ ~Idle
  /\ Close
  /\ UNCHANGED <<domains, position>>

Next ==
  \/ \E d \in Domains :
       CreateDomain(d) \/ DeleteDomain(d) \/ RaiseRow(d) \/ LowerRow(d)
  \/ \E r \in Repositories, d \in Domains :
       \/ \E before \in Domains \cup {NoReference} : BeginAttach(r, d, before)
       \/ BeginDetach(r, d)
  \/ BeginLower \/ EndShift \/ Insert \/ Commit \/ Rollback

Spec == Init /\ [][Next]_vars

-----------------------------------------------------------------------------
(* Attachments have integer positions, an open transaction has the         *)
(* parameters of its call and none outlives it.                            *)
IsTable(table) ==
  DOMAIN table \subseteq Domains /\ table \in [DOMAIN table -> Int]

TypeOK ==
  /\ domains \subseteq Domains
  /\ DOMAIN position = Repositories
  /\ position = [r \in Repositories |-> position[r]]
  /\ \A r \in Repositories : IsTable(position[r])
  /\ phase \in {"idle", "raise", "lower", "insert", "commit"}
  /\ IF Idle THEN call = NoCall ELSE call \in Calls
  /\ IsTable(rows)
  /\ todo \subseteq DOMAIN rows

(* Two rows of one repository never share a position.                      *)
Distinct(table) == \A d, e \in DOMAIN table : table[d] = table[e] => d = e

(* Positions are counted from 0 without a gap.                             *)
Dense(table) ==
  /\ \A d \in DOMAIN table : table[d] \in Nat
  /\ Distinct(table)
  /\ \A d \in DOMAIN table : \A k \in 0..table[d] : \E e \in DOMAIN table : table[e] = k

(* Committed positions of every repository are 0..n-1, after any sequence  *)
(* of insertions and removals.                                             *)
PositionsDense == \A r \in Repositories : Dense(position[r])

(* No row of a shift ever hits UNIQUE (repository_id, position), nor       *)
(* CHECK (position >= 0), in whatever order SQLite visits the rows: the    *)
(* code has no answer to that error but to give up the call.               *)
RowsAdmissible ==
  Distinct(rows) /\ \A d \in DOMAIN rows : rows[d] >= 0

(* attached_domains: ORDER BY position.                                    *)
OrderOf(table) ==
  [i \in 1..Cardinality(DOMAIN table) |->
     CHOOSE d \in DOMAIN table : Cardinality({e \in DOMAIN table : table[e] < table[d]}) = i - 1]

Asked ==
  IF Idle THEN NoCall
  ELSE [kind |-> call.kind, repository |-> call.repository, domain |-> call.domain,
        before |-> call.before]

Stack == INSTANCE DomainStack WITH
  stack <- [r \in Repositories |-> OrderOf(position[r])],
  pending <- Asked

(* The positions implement the stack: an insertion goes exactly before its *)
(* reference, a removal disturbs no other domain, and a transaction that   *)
(* is rolled back or still open shows nothing.                             *)
ImplementsStack == Stack!Spec
=============================================================================
