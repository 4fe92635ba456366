----------------------- MODULE DomainAttachmentsProofs -----------------------
(***************************************************************************)
(* Proofs that the two-UPDATE shift of DomainAttachments never meets the   *)
(* UNIQUE or CHECK constraint at any row, and that committed positions     *)
(* stay 0..n-1, for every set of repositories and domains.                 *)
(***************************************************************************)
EXTENDS DomainAttachments, TLAPS, FiniteSetTheorems, SequenceTheorems

(* The rows the open transaction started from: the committed ones, without *)
(* the detached domain.                                                    *)
Base ==
  IF call.kind = "attach" THEN position[call.repository]
  ELSE Without(position[call.repository], call.domain)

Above == From(Base, call.first)
Below == DOMAIN Base \ Above

(* The parameters of an attach and of a detach fit the committed rows.     *)
AttachParameters ==
  call.kind = "attach" =>
    /\ call.by = 1
    /\ call.first = call.at
    /\ call.domain \notin DOMAIN Base
    /\ \A k \in 0 .. call.at - 1 : \E e \in DOMAIN Base : Base[e] = k

DetachParameters ==
  call.kind = "detach" =>
    /\ call.by = -1
    /\ call.first = call.at + 1
    /\ call.domain \in DOMAIN position[call.repository]
    /\ call.at = position[call.repository][call.domain]

ClearOffset == \A e \in DOMAIN Base : Base[e] + 1 < call.offset

(* Where the shift has got to: every row is at its old position, raised or *)
(* at its new one, as its phase and the rows still to visit say.           *)
Raising ==
  phase = "raise" =>
    /\ DOMAIN rows = DOMAIN Base
    /\ todo \subseteq Above
    /\ \A e \in Below : rows[e] = Base[e]
    /\ \A e \in todo : rows[e] = Base[e]
    /\ \A e \in Above \ todo : rows[e] = Base[e] + call.offset

Lowering ==
  phase = "lower" =>
    /\ DOMAIN rows = DOMAIN Base
    /\ todo \subseteq Above
    /\ \A e \in Below : rows[e] = Base[e]
    /\ \A e \in todo : rows[e] = Base[e] + call.offset
    /\ \A e \in Above \ todo : rows[e] = Base[e] + call.by

Inserting ==
  phase = "insert" =>
    /\ call.kind = "attach"
    /\ DOMAIN rows = DOMAIN Base
    /\ \A e \in Below : rows[e] = Base[e]
    /\ \A e \in Above : rows[e] = Base[e] + 1

Committing == phase = "commit" => Dense(rows)

ShiftInv ==
  ~Idle => /\ AttachParameters /\ DetachParameters /\ ClearOffset
           /\ Raising /\ Lowering /\ Inserting /\ Committing

AttachInv ==
  /\ TypeOK
  /\ PositionsDense
  /\ Idle => rows = Empty
  /\ ShiftInv

-----------------------------------------------------------------------------
(* The rows a transaction starts from are admissible, and a detached       *)
(* domain's position is free among them.                                   *)
LEMMA BaseRows ==
  ASSUME AttachInv, ~Idle
  PROVE  /\ call \in Calls
         /\ IsTable(Base)
         /\ Distinct(Base)
         /\ \A e \in DOMAIN Base : Base[e] \in Nat
         /\ call.kind = "detach" => \A e \in DOMAIN Base : Base[e] # call.at
         /\ IsTable(position[call.repository]) /\ Dense(position[call.repository])
<1>1. call \in Calls /\ call.repository \in Repositories
  BY DEF AttachInv, TypeOK, Calls
<1>2. IsTable(position[call.repository]) /\ Dense(position[call.repository])
  BY <1>1 DEF AttachInv, TypeOK, PositionsDense
<1>3. DetachParameters
  BY DEF AttachInv, ShiftInv
<1>4. CASE call.kind = "attach"
  BY <1>1, <1>2, <1>4 DEF Base, Dense
<1>5. CASE call.kind = "detach"
  BY <1>1, <1>2, <1>3, <1>5 DEF Base, Without, Dense, Distinct, IsTable, DetachParameters
<1>6. QED
  BY <1>1, <1>2, <1>4, <1>5 DEF Calls

(* The offset clears every position in use, so in each phase of a shift    *)
(* rows that have moved cannot meet rows that have not.                    *)
LEMMA AttachInvAdmissible ==
  ASSUME AttachInv
  PROVE  RowsAdmissible
<1>1. CASE Idle
  BY <1>1 DEF AttachInv, RowsAdmissible, Distinct, Empty
<1>2. CASE ~Idle
  <2> USE <1>2
  <2>1. /\ call \in Calls
        /\ IsTable(Base) /\ Distinct(Base)
        /\ \A e \in DOMAIN Base : Base[e] \in Nat
        /\ call.kind = "detach" => \A e \in DOMAIN Base : Base[e] # call.at
    BY BaseRows
  <2>2. /\ AttachParameters /\ DetachParameters /\ ClearOffset
        /\ Raising /\ Lowering /\ Inserting /\ Committing
    BY DEF AttachInv, ShiftInv
  <2>3. /\ call.first \in Nat /\ call.at \in Nat /\ call.offset \in Nat
        /\ call.kind \in {"attach", "detach"}
    BY <2>1 DEF Calls
  <2>4. CASE phase = "raise"
    BY <2>1, <2>2, <2>3, <2>4
    DEF Raising, ClearOffset, RowsAdmissible, Distinct, Above, Below, From
  <2>5. CASE phase = "lower"
    <3>1. CASE call.kind = "attach"
      BY <2>1, <2>2, <2>3, <2>5, <3>1
      DEF Lowering, AttachParameters, ClearOffset, RowsAdmissible, Distinct, Above, Below, From
    <3>2. CASE call.kind = "detach"
      BY <2>1, <2>2, <2>3, <2>5, <3>2
      DEF Lowering, DetachParameters, ClearOffset, RowsAdmissible, Distinct, Above, Below, From
    <3>3. QED
      BY <3>1, <3>2, <2>3
  <2>6. CASE phase = "insert"
    BY <2>1, <2>2, <2>3, <2>6
    DEF Inserting, AttachParameters, RowsAdmissible, Distinct, Above, Below, From
  <2>7. CASE phase = "commit"
    BY <2>2, <2>7 DEF Committing, Dense, RowsAdmissible
  <2>8. QED
    BY <2>4, <2>5, <2>6, <2>7 DEF AttachInv, TypeOK, Idle
<1>3. QED
  BY <1>1, <1>2

-----------------------------------------------------------------------------
LEMMA InitAttachInv ==
  ASSUME Init
  PROVE  AttachInv
BY DEF Init, AttachInv, TypeOK, PositionsDense, ShiftInv, Idle, IsTable, Empty, Dense, Distinct

LEMMA DomainsStep ==
  ASSUME AttachInv, NEW d \in Domains, CreateDomain(d) \/ DeleteDomain(d)
  PROVE  AttachInv'
<1>1. UNCHANGED <<position, phase, call, todo, rows>> /\ domains' \subseteq Domains
  BY DEF AttachInv, TypeOK, CreateDomain, DeleteDomain, tx
<1>2. TypeOK'
  BY <1>1 DEF AttachInv, TypeOK, Idle
<1>3. Idle /\ Idle'
  BY <1>1 DEF CreateDomain, DeleteDomain, Idle
<1>4. QED
  BY <1>1, <1>2, <1>3 DEF AttachInv, PositionsDense, ShiftInv

LEMMA CloseStep ==
  ASSUME AttachInv, Commit \/ Rollback
  PROVE  AttachInv'
<1>1. phase' = "idle" /\ call' = NoCall /\ todo' = {} /\ rows' = Empty /\ domains' = domains
  BY DEF Commit, Rollback, Close
<1>2. Idle'
  BY <1>1 DEF Idle
<1>3. CASE Commit
  <2>1. ~Idle /\ Dense(rows) /\ IsTable(rows)
    BY <1>3 DEF Commit, AttachInv, ShiftInv, Committing, TypeOK, Idle
  <2>2. call.repository \in Repositories
    BY <2>1 DEF AttachInv, TypeOK, Calls
  <2>3. position' = [position EXCEPT ![call.repository] = rows]
    BY <1>3 DEF Commit
  <2>4. \A r \in Repositories :
          position'[r] = IF r = call.repository THEN rows ELSE position[r]
    BY <2>2, <2>3 DEF AttachInv, TypeOK
  <2>5. DOMAIN position' = Repositories /\ position' = [r \in Repositories |-> position'[r]]
    BY <2>2, <2>3 DEF AttachInv, TypeOK
  <2>6. PositionsDense'
    BY <2>1, <2>4 DEF AttachInv, PositionsDense
  <2>7. TypeOK'
    BY <1>1, <1>2, <2>1, <2>4, <2>5 DEF AttachInv, TypeOK, IsTable, Empty
  <2>8. QED
    BY <1>1, <1>2, <2>6, <2>7 DEF AttachInv, ShiftInv
<1>4. CASE Rollback
  <2>1. position' = position
    BY <1>4 DEF Rollback
  <2>2. TypeOK'
    BY <1>1, <1>2, <2>1 DEF AttachInv, TypeOK, IsTable, Empty
  <2>3. QED
    BY <1>1, <1>2, <2>1, <2>2 DEF AttachInv, PositionsDense, ShiftInv
<1>5. QED
  BY <1>3, <1>4

(* In a step inside a transaction that leaves its parameters alone, only   *)
(* what is said of its rows has to be shown again.                         *)
LEMMA InsideStep ==
  ASSUME AttachInv, ~Idle, ~Idle',
         UNCHANGED <<domains, position, call>>,
         phase' \in {"raise", "lower", "insert", "commit"},
         IsTable(rows'), todo' \subseteq DOMAIN rows',
         (Raising /\ Lowering /\ Inserting /\ Committing)'
  PROVE  AttachInv'
<1>1. TypeOK'
  BY DEF AttachInv, TypeOK
<1>2. PositionsDense'
  BY DEF AttachInv, PositionsDense
<1>3. (AttachParameters /\ DetachParameters /\ ClearOffset)'
  BY DEF AttachInv, ShiftInv, AttachParameters, DetachParameters, ClearOffset, Base
<1>4. QED
  BY <1>1, <1>2, <1>3 DEF AttachInv, ShiftInv

LEMMA RaiseRowStep ==
  ASSUME AttachInv, NEW d \in Domains, RaiseRow(d)
  PROVE  AttachInv'
<1>1. ~Idle /\ ~Idle' /\ phase = "raise" /\ phase' = "raise" /\ d \in todo
  BY DEF RaiseRow, Idle
<1>2. /\ UNCHANGED <<domains, position, call>>
      /\ rows' = [rows EXCEPT ![d] = @ + call.offset]
      /\ todo' = todo \ {d}
  BY DEF RaiseRow
<1>3. Raising /\ IsTable(rows) /\ todo \subseteq DOMAIN rows /\ call.offset \in Nat
  BY <1>1 DEF AttachInv, ShiftInv, TypeOK, Calls
<1>4. Base' = Base /\ Above' = Above /\ Below' = Below
  BY <1>2 DEF Base, Above, Below
<1>5. IsTable(rows') /\ DOMAIN rows' = DOMAIN rows
  BY <1>1, <1>2, <1>3 DEF IsTable
<1>6. Raising'
  <2>1. /\ DOMAIN rows = DOMAIN Base /\ todo \subseteq Above /\ Above \cap Below = {}
        /\ \A e \in Below : rows[e] = Base[e]
        /\ \A e \in todo : rows[e] = Base[e]
        /\ \A e \in Above \ todo : rows[e] = Base[e] + call.offset
    BY <1>1, <1>3 DEF Raising, Below
  <2>2. \A e \in DOMAIN Base : rows'[e] = IF e = d THEN rows[d] + call.offset ELSE rows[e]
    BY <1>1, <1>2, <1>3, <2>1 DEF IsTable
  <2>3. Above \subseteq DOMAIN Base /\ Below \subseteq DOMAIN Base
    BY DEF Above, Below, From
  <2>4. QED
    BY <1>1, <1>2, <1>4, <1>5, <2>1, <2>2, <2>3 DEF Raising
<1>7. (Lowering /\ Inserting /\ Committing)'
  BY <1>1 DEF Lowering, Inserting, Committing
<1>8. QED
  BY <1>1, <1>2, <1>3, <1>5, <1>6, <1>7, InsideStep

LEMMA LowerRowStep ==
  ASSUME AttachInv, NEW d \in Domains, LowerRow(d)
  PROVE  AttachInv'
<1>1. ~Idle /\ ~Idle' /\ phase = "lower" /\ phase' = "lower" /\ d \in todo
  BY DEF LowerRow, Idle
<1>2. /\ UNCHANGED <<domains, position, call>>
      /\ rows' = [rows EXCEPT ![d] = @ - call.offset + call.by]
      /\ todo' = todo \ {d}
  BY DEF LowerRow
<1>3. /\ Lowering /\ IsTable(rows) /\ todo \subseteq DOMAIN rows
      /\ call.offset \in Nat /\ call.by \in Int
  BY <1>1 DEF AttachInv, ShiftInv, TypeOK, Calls
<1>4. Base' = Base /\ Above' = Above /\ Below' = Below
  BY <1>2 DEF Base, Above, Below
<1>5. IsTable(rows') /\ DOMAIN rows' = DOMAIN rows
  BY <1>1, <1>2, <1>3 DEF IsTable
<1>6. Lowering'
  <2>1. /\ DOMAIN rows = DOMAIN Base /\ todo \subseteq Above /\ Above \cap Below = {}
        /\ \A e \in Below : rows[e] = Base[e]
        /\ \A e \in todo : rows[e] = Base[e] + call.offset
        /\ \A e \in Above \ todo : rows[e] = Base[e] + call.by
    BY <1>1, <1>3 DEF Lowering, Below
  <2>2. \A e \in DOMAIN Base :
          rows'[e] = IF e = d THEN rows[d] - call.offset + call.by ELSE rows[e]
    BY <1>1, <1>2, <1>3, <2>1 DEF IsTable
  <2>3. Above \subseteq DOMAIN Base /\ Below \subseteq DOMAIN Base
    BY DEF Above, Below, From
  <2>4. Base[d] \in Int
    BY <1>1, <2>1, <2>3, BaseRows
  <2>5. rows'[d] = Base[d] + call.by
    BY <1>1, <1>3, <2>1, <2>2, <2>3, <2>4
  <2>6. QED
    BY <1>1, <1>2, <1>4, <1>5, <2>1, <2>2, <2>3, <2>5 DEF Lowering
<1>7. (Raising /\ Inserting /\ Committing)'
  BY <1>1 DEF Raising, Inserting, Committing
<1>8. QED
  BY <1>1, <1>2, <1>3, <1>5, <1>6, <1>7, InsideStep

LEMMA BeginLowerStep ==
  ASSUME AttachInv, BeginLower
  PROVE  AttachInv'
<1>1. ~Idle /\ ~Idle' /\ phase = "raise" /\ phase' = "lower" /\ todo = {}
  BY DEF BeginLower, Idle
<1>2. /\ UNCHANGED <<domains, position, call, rows>>
      /\ todo' = From(rows, call.first + call.offset)
  BY DEF BeginLower
<1>3. Raising /\ ClearOffset /\ IsTable(rows) /\ call.offset \in Nat /\ call.first \in Nat
  BY <1>1 DEF AttachInv, ShiftInv, TypeOK, Calls
<1>4. Base' = Base /\ Above' = Above /\ Below' = Below
  BY <1>2 DEF Base, Above, Below
<1>5. \A e \in DOMAIN Base : Base[e] \in Nat
  BY <1>1, BaseRows
<1>6. todo' = Above
  BY <1>1, <1>2, <1>3, <1>5 DEF Raising, ClearOffset, Above, Below, From
<1>7. Lowering'
  BY <1>1, <1>2, <1>3, <1>4, <1>6 DEF Lowering, Raising
<1>8. (Raising /\ Inserting /\ Committing)'
  BY <1>1 DEF Raising, Inserting, Committing
<1>9. IsTable(rows') /\ todo' \subseteq DOMAIN rows'
  BY <1>2, <1>3 DEF From
<1>10. QED
  BY <1>1, <1>2, <1>7, <1>8, <1>9, InsideStep

(* Closing the gap a removal left: what stood at k + 1 now stands at k.    *)
LEMMA EndShiftStep ==
  ASSUME AttachInv, EndShift
  PROVE  AttachInv'
<1>1. ~Idle /\ phase = "lower" /\ todo = {}
      /\ phase' = IF call.kind = "attach" THEN "insert" ELSE "commit"
  BY DEF EndShift, Idle
<1>2. UNCHANGED <<domains, position, call, todo, rows>>
  BY DEF EndShift
<1>3. /\ Lowering /\ IsTable(rows) /\ todo \subseteq DOMAIN rows
      /\ AttachParameters /\ DetachParameters
      /\ call.first \in Nat /\ call.at \in Nat /\ call.kind \in {"attach", "detach"}
  BY <1>1 DEF AttachInv, ShiftInv, TypeOK, Calls
<1>4. Base' = Base /\ Above' = Above /\ Below' = Below
  BY <1>2 DEF Base, Above, Below
<1>5. /\ DOMAIN rows = DOMAIN Base
      /\ \A e \in Below : rows[e] = Base[e]
      /\ \A e \in Above : rows[e] = Base[e] + call.by
  BY <1>1, <1>3 DEF Lowering
<1>6. Inserting'
  BY <1>1, <1>2, <1>3, <1>4, <1>5 DEF Inserting, AttachParameters
<1>7. Committing'
  <2>1. SUFFICES ASSUME call.kind = "detach"
                 PROVE  Dense(rows)
    BY <1>1, <1>2, <1>3 DEF Committing
  <2> DEFINE table == position[call.repository]
  <2>2. /\ Dense(table) /\ IsTable(table)
        /\ \A e \in DOMAIN Base : Base[e] \in Nat /\ Base[e] # call.at
    BY <1>1, <2>1, BaseRows
  <2>3. /\ DOMAIN Base = DOMAIN table \ {call.domain}
        /\ \A e \in DOMAIN Base : Base[e] = table[e]
        /\ table[call.domain] = call.at /\ call.first = call.at + 1 /\ call.by = -1
    BY <1>3, <2>1 DEF Base, Without, DetachParameters
  <2> HIDE DEF table
  <2>4. \A e \in DOMAIN Base :
          rows[e] = IF table[e] > call.at THEN table[e] - 1 ELSE table[e]
    BY <1>3, <1>5, <2>2, <2>3 DEF Above, Below, From
  <2>5. \A e \in DOMAIN rows : rows[e] \in Nat
    BY <1>3, <1>5, <2>2, <2>3, <2>4
  <2>6. Distinct(rows)
    BY <1>1, AttachInvAdmissible DEF RowsAdmissible
  <2>7. ASSUME NEW e \in DOMAIN rows, NEW k \in 0 .. rows[e]
        PROVE  \E f \in DOMAIN rows : rows[f] = k
    <3>1. CASE k < call.at
      <4>1. k \in 0 .. table[e]
        BY <1>3, <1>5, <2>2, <2>3, <2>4, <2>5
      <4>2. PICK f \in DOMAIN table : table[f] = k
        BY <1>5, <2>2, <2>3, <4>1 DEF Dense
      <4>3. QED
        BY <1>3, <1>5, <2>3, <2>4, <3>1, <4>2
    <3>2. CASE k >= call.at
      <4>1. k + 1 \in 0 .. table[e]
        BY <1>3, <1>5, <2>2, <2>3, <2>4, <2>5, <3>2
      <4>2. PICK f \in DOMAIN table : table[f] = k + 1
        BY <1>5, <2>2, <2>3, <4>1 DEF Dense
      <4>3. QED
        BY <1>3, <1>5, <2>3, <2>4, <3>2, <4>2
    <3>3. QED
      BY <1>3, <2>5, <3>1, <3>2
  <2>8. QED
    BY <2>5, <2>6, <2>7 DEF Dense
<1>8. (Raising /\ Lowering)'
  BY <1>1 DEF Raising, Lowering
<1>9. QED
  BY <1>1, <1>2, <1>3, <1>6, <1>7, <1>8, InsideStep DEF Idle

(* The inserted row takes the position the shift left free.                *)
LEMMA InsertStep ==
  ASSUME AttachInv, Insert
  PROVE  AttachInv'
<1>1. ~Idle /\ ~Idle' /\ phase = "insert" /\ phase' = "commit"
  BY DEF Insert, Idle
<1>2. /\ UNCHANGED <<domains, position, call, todo>>
      /\ rows' = [d \in DOMAIN rows \cup {call.domain} |->
                    IF d = call.domain THEN call.at ELSE rows[d]]
  BY DEF Insert
<1>3. /\ Inserting /\ IsTable(rows) /\ todo \subseteq DOMAIN rows /\ AttachParameters
      /\ call.at \in Nat /\ call.domain \in Domains
  BY <1>1 DEF AttachInv, ShiftInv, TypeOK, Calls
<1>4. /\ call.first = call.at /\ call.domain \notin DOMAIN Base
      /\ \A k \in 0 .. call.at - 1 : \E e \in DOMAIN Base : Base[e] = k
      /\ DOMAIN rows = DOMAIN Base
      /\ \A e \in Below : rows[e] = Base[e]
      /\ \A e \in Above : rows[e] = Base[e] + 1
  BY <1>1, <1>3 DEF Inserting, AttachParameters
<1>5. IsTable(rows') /\ DOMAIN rows' = DOMAIN rows \cup {call.domain}
  BY <1>2, <1>3 DEF IsTable
<1>6. (\A e \in DOMAIN Base : Base[e] \in Nat) /\ Distinct(Base)
      /\ call.kind = "attach" /\ IsTable(position[call.repository])
      /\ Dense(position[call.repository])
  BY <1>1, <1>3, BaseRows DEF Inserting
<1>7. Dense(Base)
  BY <1>6 DEF Base
<1>8. rows'[call.domain] = call.at
  BY <1>2
<1>9. \A e \in DOMAIN Base :
        rows'[e] = IF Base[e] >= call.at THEN Base[e] + 1 ELSE Base[e]
  BY <1>2, <1>3, <1>4, <1>6 DEF Above, Below, From
<1>10. Dense(rows')
  <2>1. \A e \in DOMAIN rows' : rows'[e] \in Nat
    BY <1>3, <1>4, <1>5, <1>6, <1>8, <1>9
  <2>2. Distinct(rows')
    BY <1>3, <1>4, <1>5, <1>6, <1>8, <1>9 DEF Distinct
  <2>3. ASSUME NEW e \in DOMAIN rows', NEW k \in 0 .. rows'[e]
        PROVE  \E f \in DOMAIN rows' : rows'[f] = k
    <3>1. CASE k < call.at
      <4>1. PICK f \in DOMAIN Base : Base[f] = k
        BY <1>3, <1>4, <2>1, <3>1
      <4>2. QED
        BY <1>3, <1>4, <1>5, <1>6, <1>9, <3>1, <4>1
    <3>2. CASE k = call.at
      BY <1>5, <1>8, <3>2
    <3>3. CASE k > call.at
      <4>1. e \in DOMAIN Base /\ k - 1 \in 0 .. Base[e]
        BY <1>3, <1>4, <1>5, <1>6, <1>8, <1>9, <2>1, <3>3
      <4>2. PICK f \in DOMAIN Base : Base[f] = k - 1
        BY <1>7, <4>1 DEF Dense
      <4>3. QED
        BY <1>3, <1>4, <1>5, <1>9, <3>3, <4>2
    <3>4. QED
      BY <1>3, <2>1, <3>1, <3>2, <3>3
  <2>4. QED
    BY <2>1, <2>2, <2>3 DEF Dense
<1>11. (Raising /\ Lowering /\ Inserting /\ Committing)'
  BY <1>1, <1>10 DEF Raising, Lowering, Inserting, Committing
<1>12. QED
  BY <1>1, <1>2, <1>3, <1>5, <1>11, InsideStep

LEMMA BeginAttachStep ==
  ASSUME AttachInv, NEW r \in Repositories, NEW d \in Domains,
         NEW before \in Domains \cup {NoReference}, BeginAttach(r, d, before)
  PROVE  AttachInv'
<1> DEFINE table == position[r]
<1>1. PICK maximum \in Maxima(table) :
        /\ IsMaximum(table, maximum)
        /\ phase' = IF before = NoReference THEN "insert" ELSE "raise"
        /\ call' = [kind |-> "attach", repository |-> r, domain |-> d, before |-> before,
                    at |-> IF before = NoReference THEN NextPosition(maximum)
                           ELSE PositionBefore(table, before),
                    first |-> IF before = NoReference THEN NextPosition(maximum)
                              ELSE PositionBefore(table, before),
                    by |-> 1, offset |-> Offset(maximum)]
        /\ todo' = IF before = NoReference THEN {}
                   ELSE From(table, IF before = NoReference THEN NextPosition(maximum)
                                    ELSE PositionBefore(table, before))
        /\ rows' = table
  BY DEF BeginAttach
<1> DEFINE at == IF before = NoReference THEN NextPosition(maximum)
                 ELSE PositionBefore(table, before)
<1>2. /\ d \notin DOMAIN table
      /\ before # NoReference => before \in DOMAIN table
      /\ UNCHANGED <<domains, position>>
  BY DEF BeginAttach
<1>3. IsTable(table) /\ Dense(table)
  BY DEF AttachInv, TypeOK, PositionsDense
<1>4. /\ maximum \in Int /\ maximum >= -1
      /\ \A e \in DOMAIN table : table[e] \in Nat /\ table[e] <= maximum
  BY <1>1, <1>3 DEF Maxima, IsMaximum, Dense
<1>5. at \in Nat
  BY <1>2, <1>4 DEF NextPosition, PositionBefore
<1>6. /\ call' \in Calls /\ call'.kind = "attach" /\ call'.repository = r
      /\ call'.domain = d /\ call'.at = at /\ call'.first = at /\ call'.by = 1
      /\ call'.offset = maximum + 2
  BY <1>1, <1>4, <1>5 DEF Calls, Offset
<1>7. ~Idle' /\ phase' \in {"raise", "insert"}
  BY <1>1 DEF Idle
<1>8. Base' = table
  BY <1>2, <1>6 DEF Base
<1>9. Above' = From(table, at) /\ Below' = DOMAIN table \ From(table, at)
  BY <1>6, <1>8 DEF Above, Below
<1>10. \A k \in 0 .. at - 1 : \E e \in DOMAIN table : table[e] = k
  <2>1. CASE before = NoReference
    <3>1. at = maximum + 1
      BY <2>1 DEF NextPosition
    <3>2. CASE DOMAIN table = {}
      <4>1. at = 0
        BY <1>1, <3>1, <3>2 DEF IsMaximum
      <4>2. QED
        BY <4>1
    <3>3. CASE DOMAIN table # {}
      <4>1. PICK e \in DOMAIN table : table[e] = maximum
        BY <1>1, <3>3 DEF IsMaximum
      <4>2. QED
        BY <1>3, <1>4, <3>1, <4>1 DEF Dense
    <3>4. QED
      BY <3>2, <3>3
  <2>2. CASE before # NoReference
    <3>1. at = table[before] /\ before \in DOMAIN table
      BY <1>2, <2>2 DEF PositionBefore
    <3>2. QED
      BY <1>3, <1>4, <3>1 DEF Dense
  <2>3. QED
    BY <2>1, <2>2
<1> HIDE DEF at
<1>11. (AttachParameters /\ DetachParameters /\ ClearOffset)'
  BY <1>2, <1>4, <1>6, <1>8, <1>10 DEF AttachParameters, DetachParameters, ClearOffset
<1>12. before = NoReference => From(table, at) = {}
  BY <1>4 DEF From, at, NextPosition
<1>13. todo' = From(table, at) /\ todo' \subseteq DOMAIN table
  BY <1>1, <1>12 DEF From, at
<1>14. (Raising /\ Lowering /\ Inserting /\ Committing)'
  <2>1. CASE before = NoReference
    <3>1. phase' = "insert" /\ Above' = {} /\ rows' = table
      BY <1>1, <1>9, <1>12, <2>1
    <3>2. QED
      BY <1>6, <1>8, <3>1 DEF Raising, Lowering, Inserting, Committing, Below
  <2>2. CASE before # NoReference
    <3>1. phase' = "raise" /\ todo' = Above' /\ rows' = table
      BY <1>1, <1>9, <1>13, <2>2
    <3>2. QED
      BY <1>8, <3>1 DEF Raising, Lowering, Inserting, Committing, Below, Above, From
  <2>3. QED
    BY <2>1, <2>2
<1>15. TypeOK'
  BY <1>1, <1>2, <1>3, <1>6, <1>7, <1>13 DEF AttachInv, TypeOK
<1>16. QED
  BY <1>2, <1>7, <1>11, <1>14, <1>15 DEF AttachInv, PositionsDense, ShiftInv

LEMMA BeginDetachStep ==
  ASSUME AttachInv, NEW r \in Repositories, NEW d \in Domains, BeginDetach(r, d)
  PROVE  AttachInv'
<1> DEFINE table == position[r]
           rest == Without(position[r], d)
           at == position[r][d]
<1>1. PICK maximum \in Maxima(rest) :
        /\ IsMaximum(rest, maximum)
        /\ phase' = AfterRemoval(maximum, at)
        /\ call' = [kind |-> "detach", repository |-> r, domain |-> d, before |-> NoReference,
                    at |-> at, first |-> at + 1, by |-> -1, offset |-> Offset(maximum)]
        /\ todo' = From(rest, at + 1)
        /\ rows' = rest
  BY DEF BeginDetach
<1>2. d \in DOMAIN table /\ UNCHANGED <<domains, position>>
  BY DEF BeginDetach
<1>3. IsTable(table) /\ Dense(table)
  BY DEF AttachInv, TypeOK, PositionsDense
<1>4. /\ DOMAIN rest = DOMAIN table \ {d}
      /\ \A e \in DOMAIN rest : rest[e] = table[e]
      /\ IsTable(rest)
  BY <1>3 DEF Without, IsTable
<1>5. at \in Nat /\ table[d] = at
  BY <1>2, <1>3 DEF Dense
<1> HIDE DEF table, rest, at
<1>6. /\ maximum \in Int /\ maximum >= -1
      /\ \A e \in DOMAIN rest : rest[e] \in Nat /\ rest[e] <= maximum /\ rest[e] # at
  BY <1>1, <1>2, <1>3, <1>4, <1>5 DEF Maxima, IsMaximum, Dense, Distinct
<1>7. /\ call' \in Calls /\ call'.kind = "detach" /\ call'.repository = r
      /\ call'.domain = d /\ call'.at = at /\ call'.first = at + 1 /\ call'.by = -1
      /\ call'.offset = maximum + 2
  BY <1>1, <1>5, <1>6 DEF Calls, Offset
<1>8. ~Idle' /\ phase' = IF maximum > at THEN "raise" ELSE "commit"
  BY <1>1, <1>5, <1>6 DEF AfterRemoval, Idle
<1>9. Base' = rest
  BY <1>2, <1>7 DEF Base, rest
<1>10. Above' = From(rest, at + 1) /\ Below' = DOMAIN rest \ From(rest, at + 1)
  BY <1>7, <1>9 DEF Above, Below
<1>11. (AttachParameters /\ DetachParameters /\ ClearOffset)'
  BY <1>2, <1>5, <1>6, <1>7, <1>9
  DEF AttachParameters, DetachParameters, ClearOffset, table
<1>12. Raising'
  BY <1>1, <1>9, <1>10 DEF Raising, From
<1>13. Committing'
  <2>1. SUFFICES ASSUME maximum <= at
                 PROVE  Dense(rest)
    BY <1>1, <1>5, <1>6, <1>8 DEF Committing
  <2>2. Distinct(rest)
    BY <1>3, <1>4 DEF Dense, Distinct
  <2>3. ASSUME NEW e \in DOMAIN rest, NEW k \in 0 .. rest[e]
        PROVE  \E f \in DOMAIN rest : rest[f] = k
    <3>1. e \in DOMAIN table /\ k \in 0 .. table[e] /\ k # at
      BY <1>4, <1>5, <1>6, <2>1
    <3>2. PICK f \in DOMAIN table : table[f] = k
      BY <1>3, <3>1 DEF Dense
    <3>3. QED
      BY <1>4, <1>5, <3>1, <3>2
  <2>4. QED
    BY <1>6, <2>2, <2>3 DEF Dense
<1>14. (Lowering /\ Inserting)'
  BY <1>8 DEF Lowering, Inserting
<1>15. TypeOK'
  BY <1>1, <1>2, <1>4, <1>7, <1>8 DEF AttachInv, TypeOK, From
<1>16. QED
  BY <1>2, <1>8, <1>11, <1>12, <1>13, <1>14, <1>15
  DEF AttachInv, PositionsDense, ShiftInv

LEMMA StepAttachInv ==
  ASSUME AttachInv, [Next]_vars
  PROVE  AttachInv'
<1>1. CASE \E d \in Domains : CreateDomain(d) \/ DeleteDomain(d)
  BY <1>1, DomainsStep
<1>2. CASE \E d \in Domains : RaiseRow(d)
  BY <1>2, RaiseRowStep
<1>3. CASE \E d \in Domains : LowerRow(d)
  BY <1>3, LowerRowStep
<1>4. CASE \E r \in Repositories, d \in Domains, before \in Domains \cup {NoReference} :
             BeginAttach(r, d, before)
  BY <1>4, BeginAttachStep
<1>5. CASE \E r \in Repositories, d \in Domains : BeginDetach(r, d)
  BY <1>5, BeginDetachStep
<1>6. CASE BeginLower
  BY <1>6, BeginLowerStep
<1>7. CASE EndShift
  BY <1>7, EndShiftStep
<1>8. CASE Insert
  BY <1>8, InsertStep
<1>9. CASE Commit \/ Rollback
  BY <1>9, CloseStep
<1>10. CASE UNCHANGED vars
  <2>1. UNCHANGED <<domains, position, phase, call, todo, rows>>
    BY <1>10 DEF vars
  <2>2. TypeOK' /\ PositionsDense' /\ (Idle => rows = Empty)'
    BY <2>1 DEF AttachInv, TypeOK, PositionsDense, Idle
  <2>3. ShiftInv'
    BY <2>1 DEF AttachInv, ShiftInv, Idle, AttachParameters, DetachParameters, ClearOffset,
                Raising, Lowering, Inserting, Committing, Base, Above, Below
  <2>4. QED
    BY <2>2, <2>3 DEF AttachInv
<1>11. QED
  BY <1>1, <1>2, <1>3, <1>4, <1>5, <1>6, <1>7, <1>8, <1>9, <1>10 DEF Next

(* The inductive invariant: types, dense committed positions, and where    *)
(* the open shift has got to.                                              *)
THEOREM AttachInvariant == Spec => []AttachInv
<1>1. Init => AttachInv
  BY InitAttachInv
<1>2. AttachInv /\ [Next]_vars => AttachInv'
  BY StepAttachInv
<1>3. QED
  BY <1>1, <1>2, PTL DEF Spec

(* Every open transaction of attach_domain or detach_domain has parameters *)
(* and rows of its types, and none is left after commit or rollback.       *)
THEOREM AttachTyped == Spec => []TypeOK
<1>1. AttachInv => TypeOK
  BY DEF AttachInv
<1>2. QED
  BY <1>1, AttachInvariant, PTL

(* Committed positions are 0..n-1 for every repository, after any sequence *)
(* of attach_domain and detach_domain calls, crashed ones included.        *)
THEOREM AttachDense == Spec => []PositionsDense
<1>1. AttachInv => PositionsDense
  BY DEF AttachInv
<1>2. QED
  BY <1>1, AttachInvariant, PTL

(* No UPDATE of shift_for_insertion or shift_after_removal violates UNIQUE *)
(* or CHECK at any row, in whatever order SQLite visits the rows.          *)
THEOREM AttachAdmissible == Spec => []RowsAdmissible
<1>1. AttachInv => RowsAdmissible
  BY AttachInvAdmissible
<1>2. QED
  BY <1>1, AttachInvariant, PTL

-----------------------------------------------------------------------------
(* The rows of a table in the order of their positions.                    *)

(* Positions without gaps number the rows: as many rows stand before one   *)
(* as its position says, and every number below the size is a position.    *)
LEMMA PositionsNumber ==
  ASSUME NEW table, IsFiniteSet(DOMAIN table), Dense(table)
  PROVE  /\ Cardinality(DOMAIN table) \in Nat
         /\ \A d \in DOMAIN table :
              /\ table[d] \in 0 .. Cardinality(DOMAIN table) - 1
              /\ Cardinality({e \in DOMAIN table : table[e] < table[d]}) = table[d]
         /\ \A k \in 0 .. Cardinality(DOMAIN table) - 1 : \E d \in DOMAIN table : table[d] = k
<1> DEFINE n == Cardinality(DOMAIN table)
<1>1. n \in Nat
  BY FS_CardinalityType
<1>2. (\A d \in DOMAIN table : table[d] \in Nat) /\ Distinct(table)
  BY DEF Dense
<1>3. ASSUME NEW d \in DOMAIN table
      PROVE  /\ Cardinality({e \in DOMAIN table : table[e] < table[d]}) = table[d]
             /\ table[d] < n
  <2> DEFINE before == {e \in DOMAIN table : table[e] < table[d]}
             f == [e \in before |-> table[e]]
  <2>1. before \in SUBSET DOMAIN table /\ IsFiniteSet(before)
    BY FS_Subset
  <2>2. f \in [before -> 0 .. table[d] - 1]
    BY <1>2
  <2>3. \A a, b \in before : f[a] = f[b] => a = b
    BY <1>2 DEF Distinct
  <2>4. \A k \in 0 .. table[d] - 1 : \E e \in before : f[e] = k
    <3>1. SUFFICES ASSUME NEW k \in 0 .. table[d] - 1 PROVE \E e \in before : f[e] = k
      OBVIOUS
    <3>2. k \in 0 .. table[d] /\ k < table[d]
      BY <1>2
    <3>3. PICK e \in DOMAIN table : table[e] = k
      BY <3>2 DEF Dense
    <3>4. QED
      BY <3>2, <3>3
  <2>5. ExistsBijection(before, 0 .. table[d] - 1)
    BY <2>2, <2>3, <2>4 DEF ExistsBijection, Bijection, Injection, Surjection, IsInjective
  <2> HIDE DEF before, f
  <2>6. Cardinality(before) = Cardinality(0 .. table[d] - 1)
    BY <2>1, <2>5, FS_Bijection
  <2>7. Cardinality(before) = table[d]
    BY <1>2, <2>6, FS_Interval
  <2>8. d \notin before
    BY <1>2 DEF before
  <2>9. before \cup {d} \in SUBSET DOMAIN table /\ Cardinality(before \cup {d}) = table[d] + 1
    BY <2>1, <2>7, <2>8, FS_AddElement
  <2>10. table[d] + 1 <= n
    BY <2>9, FS_Subset
  <2>11. table[d] < n
    BY <1>1, <1>2, <2>10
  <2>12. QED
    BY <2>7, <2>11 DEF before
<1>4. ASSUME NEW k \in 0 .. n - 1, \A d \in DOMAIN table : table[d] # k
      PROVE  FALSE
  <2> DEFINE f == [d \in DOMAIN table |-> table[d]]
  <2>1. \A d \in DOMAIN table : table[d] < k
    <3>1. SUFFICES ASSUME NEW d \in DOMAIN table, table[d] >= k PROVE FALSE
      BY <1>1, <1>2
    <3>2. k \in 0 .. table[d]
      BY <1>1, <1>2, <3>1
    <3>3. QED
      BY <1>4, <3>2 DEF Dense
  <2>2. f \in [DOMAIN table -> 0 .. k - 1] /\ \A a, b \in DOMAIN table : f[a] = f[b] => a = b
    BY <1>1, <1>2, <2>1 DEF Distinct
  <2>3. f \in Injection(DOMAIN table, 0 .. k - 1)
    BY <2>2 DEF Injection, IsInjective
  <2> HIDE DEF f
  <2>4. IsFiniteSet(0 .. k - 1) /\ Cardinality(0 .. k - 1) = k
    <3>1. k \in Nat /\ k - 1 \in Int
      BY <1>1
    <3>2. IsFiniteSet(0 .. k - 1) /\ Cardinality(0 .. k - 1) = IF 0 > k - 1 THEN 0 ELSE k - 1 - 0 + 1
      BY <3>1, FS_Interval
    <3>3. QED
      BY <3>1, <3>2
  <2>5. n <= k
    BY <2>3, <2>4, FS_Injection
  <2>6. QED
    BY <1>1, <2>5
<1>5. \A d \in DOMAIN table : table[d] \in 0 .. n - 1
  <2> HIDE DEF n
  <2>1. \A d \in DOMAIN table : table[d] < n
    BY <1>3
  <2>2. QED
    BY <1>1, <1>2, <2>1
<1>6. \A k \in 0 .. n - 1 : \E d \in DOMAIN table : table[d] = k
  BY <1>4
<1>7. QED
  BY <1>1, <1>3, <1>5, <1>6

LEMMA OrderProperties ==
  ASSUME NEW table, IsFiniteSet(DOMAIN table), Dense(table)
  PROVE  /\ OrderOf(table) \in Seq(DOMAIN table)
         /\ Len(OrderOf(table)) = Cardinality(DOMAIN table) /\ Len(OrderOf(table)) \in Nat
         /\ \A i \in 1 .. Len(OrderOf(table)) :
              OrderOf(table)[i] \in DOMAIN table /\ table[OrderOf(table)[i]] = i - 1
         /\ \A d \in DOMAIN table :
              table[d] + 1 \in 1 .. Len(OrderOf(table)) /\ OrderOf(table)[table[d] + 1] = d
<1> DEFINE n == Cardinality(DOMAIN table)
           order == OrderOf(table)
<1>1. /\ n \in Nat
      /\ \A d \in DOMAIN table :
           /\ table[d] \in 0 .. n - 1
           /\ Cardinality({e \in DOMAIN table : table[e] < table[d]}) = table[d]
      /\ \A k \in 0 .. n - 1 : \E d \in DOMAIN table : table[d] = k
  BY PositionsNumber
<1>2. ASSUME NEW i \in 1 .. n
      PROVE  order[i] \in DOMAIN table /\ table[order[i]] = i - 1
  <2>1. i - 1 \in 0 .. n - 1
    BY <1>1
  <2>2. \E d \in DOMAIN table : Cardinality({e \in DOMAIN table : table[e] < table[d]}) = i - 1
    BY <1>1, <2>1
  <2>3. /\ order[i] \in DOMAIN table
        /\ Cardinality({e \in DOMAIN table : table[e] < table[order[i]]}) = i - 1
    BY <2>2 DEF OrderOf
  <2>4. QED
    BY <1>1, <2>3
<1>3. order \in [1 .. n -> DOMAIN table]
  BY <1>2 DEF OrderOf
<1>4. order \in Seq(DOMAIN table) /\ Len(order) = n
  BY <1>1, <1>3
<1>5. ASSUME NEW d \in DOMAIN table PROVE table[d] + 1 \in 1 .. n /\ order[table[d] + 1] = d
  <2> HIDE DEF n
  <2>1. table[d] \in 0 .. n - 1 /\ n \in Nat
    BY <1>1
  <2>2. table[d] + 1 \in 1 .. n /\ (table[d] + 1) - 1 = table[d]
    BY <2>1
  <2>3. order[table[d] + 1] \in DOMAIN table /\ table[order[table[d] + 1]] = table[d]
    BY <1>2, <2>2
  <2>4. QED
    BY <2>2, <2>3 DEF Dense, Distinct
<1>6. QED
  BY <1>1, <1>2, <1>4, <1>5

(* A sequence that has each row at its position is the order of the table. *)
LEMMA OrderUnique ==
  ASSUME NEW table, IsFiniteSet(DOMAIN table), Dense(table),
         NEW S, DOMAIN table \subseteq S,
         NEW s \in Seq(S), Len(s) = Cardinality(DOMAIN table),
         \A i \in 1 .. Len(s) : s[i] \in DOMAIN table /\ table[s[i]] = i - 1
  PROVE  OrderOf(table) = s
<1>1. /\ OrderOf(table) \in Seq(S) /\ Len(OrderOf(table)) = Len(s)
      /\ \A i \in 1 .. Len(s) :
           OrderOf(table)[i] \in DOMAIN table /\ table[OrderOf(table)[i]] = i - 1
  BY OrderProperties, SeqMonotonic
<1>2. \A i \in 1 .. Len(s) : OrderOf(table)[i] = s[i]
  BY <1>1 DEF Dense, Distinct
<1>3. QED
  BY <1>1, <1>2, SeqEqual

LEMMA InsertAtProperties ==
  ASSUME NEW S, NEW s \in Seq(S), NEW i \in 1 .. Len(s), NEW x \in S
  PROVE  /\ Stack!InsertAt(s, i, x) \in Seq(S)
         /\ Len(Stack!InsertAt(s, i, x)) = Len(s) + 1
         /\ \A k \in 1 .. Len(s) + 1 :
              Stack!InsertAt(s, i, x)[k] = IF k < i THEN s[k] ELSE IF k = i THEN x ELSE s[k - 1]
<1> DEFINE front == SubSeq(s, 1, i - 1)
           back == SubSeq(s, i, Len(s))
<1>1. Len(s) \in Nat /\ \A k \in 1 .. Len(s) : s[k] \in S
  BY LenProperties, ElementOfSeq
<1>2. /\ front \in Seq(S) /\ Len(front) = i - 1
      /\ \A k \in 1 .. i - 1 : front[k] = s[k]
  BY <1>1, SubSeqProperties
<1>3. /\ back \in Seq(S) /\ Len(back) = Len(s) - i + 1
      /\ \A k \in 1 .. Len(s) - i + 1 : back[k] = s[i + k - 1]
  BY <1>1, SubSeqProperties
<1> HIDE DEF front, back
<1>4. <<x>> \in Seq(S) /\ Len(<<x>>) = 1 /\ <<x>>[1] = x
  OBVIOUS
<1>5. /\ front \o <<x>> \in Seq(S) /\ Len(front \o <<x>>) = i
      /\ \A k \in 1 .. i : (front \o <<x>>)[k] = IF k < i THEN s[k] ELSE x
  BY <1>1, <1>2, <1>4, ConcatProperties
<1>6. Stack!InsertAt(s, i, x) = (front \o <<x>>) \o back
  BY DEF Stack!InsertAt, front, back
<1> DEFINE start == front \o <<x>>
<1>7. start \in Seq(S) /\ Len(start) = i /\ \A k \in 1 .. i : start[k] = IF k < i THEN s[k] ELSE x
  BY <1>5
<1>8. Stack!InsertAt(s, i, x) = start \o back
  BY <1>6
<1> HIDE DEF start
<1>9. /\ start \o back \in Seq(S) /\ Len(start \o back) = Len(start) + Len(back)
      /\ \A k \in 1 .. Len(start) + Len(back) :
           (start \o back)[k] = IF k <= Len(start) THEN start[k] ELSE back[k - Len(start)]
  BY <1>3, <1>7, ConcatProperties
<1>10. ASSUME NEW k \in 1 .. Len(s) + 1, k > i PROVE back[k - i] = s[k - 1]
  BY <1>1, <1>3, <1>10
<1>11. Len(start) = i /\ Len(start) + Len(back) = Len(s) + 1
  BY <1>1, <1>3, <1>7
<1>12. ASSUME NEW k \in 1 .. Len(s) + 1
       PROVE  (start \o back)[k] = IF k < i THEN s[k] ELSE IF k = i THEN x ELSE s[k - 1]
  <2>1. (start \o back)[k] = IF k <= i THEN start[k] ELSE back[k - i]
    BY <1>9, <1>11
  <2>2. QED
    BY <1>1, <1>7, <1>10, <2>1
<1>13. QED
  BY <1>8, <1>9, <1>11, <1>12

LEMMA RemoveAtProperties ==
  ASSUME NEW S, NEW s \in Seq(S), NEW i \in 1 .. Len(s)
  PROVE  /\ Stack!RemoveAt(s, i) \in Seq(S)
         /\ Len(Stack!RemoveAt(s, i)) = Len(s) - 1
         /\ \A k \in 1 .. Len(s) - 1 :
              Stack!RemoveAt(s, i)[k] = IF k < i THEN s[k] ELSE s[k + 1]
<1> DEFINE front == SubSeq(s, 1, i - 1)
           back == SubSeq(s, i + 1, Len(s))
<1>1. Len(s) \in Nat /\ \A k \in 1 .. Len(s) : s[k] \in S
  BY LenProperties, ElementOfSeq
<1>2. /\ front \in Seq(S) /\ Len(front) = i - 1
      /\ \A k \in 1 .. i - 1 : front[k] = s[k]
  BY <1>1, SubSeqProperties
<1>3. /\ back \in Seq(S) /\ Len(back) = Len(s) - i
      /\ \A k \in 1 .. Len(s) - i : back[k] = s[i + k]
  BY <1>1, SubSeqProperties
<1>4. Stack!RemoveAt(s, i) = front \o back
  BY DEF Stack!RemoveAt
<1> HIDE DEF front, back
<1>5. /\ front \o back \in Seq(S) /\ Len(front \o back) = Len(front) + Len(back)
      /\ \A k \in 1 .. Len(front) + Len(back) :
           (front \o back)[k] = IF k <= Len(front) THEN front[k] ELSE back[k - Len(front)]
  BY <1>2, <1>3, ConcatProperties
<1>6. Len(front) = i - 1 /\ Len(front) + Len(back) = Len(s) - 1
  BY <1>1, <1>2, <1>3
<1>7. ASSUME NEW k \in 1 .. Len(s) - 1
      PROVE  (front \o back)[k] = IF k < i THEN s[k] ELSE s[k + 1]
  <2>1. (front \o back)[k] = IF k <= i - 1 THEN front[k] ELSE back[k - (i - 1)]
    BY <1>5, <1>6
  <2>2. CASE k < i
    BY <1>1, <1>2, <2>1, <2>2
  <2>3. CASE ~(k < i)
    <3>1. k - (i - 1) \in 1 .. Len(s) - i /\ i + (k - (i - 1)) = k + 1
      BY <1>1, <2>3
    <3>2. back[k - (i - 1)] = s[k + 1]
      BY <1>3, <3>1
    <3>3. QED
      BY <1>1, <2>1, <2>3, <3>2
  <2>4. QED
    BY <2>2, <2>3
<1>8. QED
  BY <1>4, <1>5, <1>6, <1>7


(* A row after all others goes to the end of the order.                    *)
LEMMA OrderAppend ==
  ASSUME NEW old, NEW new, NEW d,
         IsFiniteSet(DOMAIN old), Dense(old), Dense(new),
         d \notin DOMAIN old, DOMAIN new = DOMAIN old \cup {d},
         \A e \in DOMAIN old : new[e] = old[e]
  PROVE  OrderOf(new) = Append(OrderOf(old), d)
<1> DEFINE n == Cardinality(DOMAIN old)
           s == OrderOf(old)
<1>1. IsFiniteSet(DOMAIN new) /\ Cardinality(DOMAIN new) = n + 1
  BY FS_AddElement
<1>2. /\ n \in Nat /\ s \in Seq(DOMAIN new) /\ Len(s) = n
      /\ \A i \in 1 .. n : s[i] \in DOMAIN old /\ old[s[i]] = i - 1
  BY OrderProperties, FS_CardinalityType, SeqMonotonic
<1>3. new[d] \in 0 .. n /\ \A k \in 0 .. n - 1 : \E e \in DOMAIN old : old[e] = k
  <2>1. \A k \in 0 .. n - 1 : \E e \in DOMAIN old : old[e] = k
    BY PositionsNumber
  <2>2. new[d] \in 0 .. Cardinality(DOMAIN new) - 1
    BY <1>1, PositionsNumber
  <2> HIDE DEF n
  <2>3. QED
    BY <1>1, <1>2, <2>1, <2>2
<1> HIDE DEF n, s
<1>4. new[d] = n
  BY <1>2, <1>3 DEF Dense, Distinct
<1>5. /\ Append(s, d) \in Seq(DOMAIN new) /\ Len(Append(s, d)) = n + 1
      /\ \A i \in 1 .. n : Append(s, d)[i] = s[i]
      /\ Append(s, d)[n + 1] = d
  BY <1>2, AppendProperties
<1>6. ASSUME NEW i \in 1 .. n + 1
      PROVE  Append(s, d)[i] \in DOMAIN new /\ new[Append(s, d)[i]] = i - 1
  <2>1. CASE i = n + 1
    BY <1>2, <1>4, <1>5, <2>1
  <2>2. CASE i # n + 1
    <3>1. i \in 1 .. n
      BY <1>2, <2>2
    <3>2. QED
      BY <1>2, <1>5, <3>1
  <2>3. QED
    BY <2>1, <2>2
<1>7. QED
  BY <1>1, <1>5, <1>6, OrderUnique DEF s

(* A row that takes the position of another goes right before it.          *)
LEMMA OrderInsert ==
  ASSUME NEW old, NEW new, NEW d, NEW b \in DOMAIN old,
         IsFiniteSet(DOMAIN old), Dense(old), Dense(new),
         d \notin DOMAIN old, DOMAIN new = DOMAIN old \cup {d}, new[d] = old[b],
         \A e \in DOMAIN old : new[e] = IF old[e] >= old[b] THEN old[e] + 1 ELSE old[e]
  PROVE  \E i \in DOMAIN OrderOf(old) :
           OrderOf(old)[i] = b /\ OrderOf(new) = Stack!InsertAt(OrderOf(old), i, d)
<1> DEFINE n == Cardinality(DOMAIN old)
           s == OrderOf(old)
           i == old[b] + 1
           t == Stack!InsertAt(s, i, d)
<1>1. IsFiniteSet(DOMAIN new) /\ Cardinality(DOMAIN new) = n + 1
  BY FS_AddElement
<1>2. /\ n \in Nat /\ s \in Seq(DOMAIN new) /\ Len(s) = n
      /\ \A k \in 1 .. n : s[k] \in DOMAIN old /\ old[s[k]] = k - 1
      /\ i \in 1 .. n /\ s[i] = b
  BY OrderProperties, FS_CardinalityType, SeqMonotonic
<1>3. DOMAIN s = 1 .. n
  BY <1>2, LenProperties
<1> HIDE DEF n, s
<1>4. /\ t \in Seq(DOMAIN new) /\ Len(t) = n + 1
      /\ \A k \in 1 .. n + 1 : t[k] = IF k < i THEN s[k] ELSE IF k = i THEN d ELSE s[k - 1]
  <2> DEFINE S == DOMAIN new
  <2>1. d \in S /\ i \in 1 .. Len(s) /\ s \in Seq(S)
    BY <1>2
  <2> HIDE DEF i, S
  <2>2. /\ t \in Seq(S) /\ Len(t) = Len(s) + 1
        /\ \A k \in 1 .. Len(s) + 1 : t[k] = IF k < i THEN s[k] ELSE IF k = i THEN d ELSE s[k - 1]
    BY <2>1, InsertAtProperties
  <2>3. QED
    BY <1>2, <2>2 DEF S
<1>5. old[b] \in Nat
  BY DEF Dense
<1>6. ASSUME NEW k \in 1 .. n + 1
      PROVE  t[k] \in DOMAIN new /\ new[t[k]] = k - 1
  <2> HIDE DEF t
  <2>1. CASE k < i
    <3>1. k \in 1 .. n /\ t[k] = s[k] /\ ~(k - 1 >= old[b])
      BY <1>2, <1>4, <1>5, <2>1
    <3>2. QED
      BY <1>2, <3>1
  <2>2. CASE k = i
    BY <1>4, <1>5, <2>2
  <2>3. CASE k > i
    <3>1. k - 1 \in 1 .. n /\ t[k] = s[k - 1] /\ (k - 1) - 1 >= old[b]
      BY <1>2, <1>4, <1>5, <2>3
    <3>2. s[k - 1] \in DOMAIN old /\ old[s[k - 1]] = (k - 1) - 1
      BY <1>2, <3>1
    <3>3. QED
      BY <3>1, <3>2
  <2>4. QED
    BY <1>5, <2>1, <2>2, <2>3
<1>7. OrderOf(new) = t
  <2> HIDE DEF t
  <2>1. QED
    BY <1>1, <1>4, <1>6, OrderUnique
<1>8. QED
  BY <1>2, <1>3, <1>7 DEF s

(* A removed row disturbs the order of no others.                          *)
LEMMA OrderRemove ==
  ASSUME NEW old, NEW new, NEW d \in DOMAIN old,
         IsFiniteSet(DOMAIN old), Dense(old), Dense(new),
         DOMAIN new = DOMAIN old \ {d},
         \A e \in DOMAIN new : new[e] = IF old[e] >= old[d] + 1 THEN old[e] - 1 ELSE old[e]
  PROVE  \E i \in DOMAIN OrderOf(old) :
           OrderOf(old)[i] = d /\ OrderOf(new) = Stack!RemoveAt(OrderOf(old), i)
<1> DEFINE n == Cardinality(DOMAIN old)
           s == OrderOf(old)
           i == old[d] + 1
           t == Stack!RemoveAt(s, i)
<1>1. IsFiniteSet(DOMAIN new) /\ Cardinality(DOMAIN new) = n - 1
  BY FS_RemoveElement
<1>2. /\ n \in Nat /\ s \in Seq(DOMAIN old) /\ Len(s) = n
      /\ \A k \in 1 .. n : s[k] \in DOMAIN old /\ old[s[k]] = k - 1
      /\ i \in 1 .. n /\ s[i] = d
  BY OrderProperties, FS_CardinalityType
<1>3. DOMAIN s = 1 .. n
  BY <1>2, LenProperties
<1> HIDE DEF n, s
<1>4. /\ t \in Seq(DOMAIN old) /\ Len(t) = n - 1
      /\ \A k \in 1 .. n - 1 : t[k] = IF k < i THEN s[k] ELSE s[k + 1]
  BY <1>2, RemoveAtProperties
<1>5. old[d] \in Nat
  BY DEF Dense
<1>6. ASSUME NEW k \in 1 .. n - 1
      PROVE  t[k] \in DOMAIN new /\ new[t[k]] = k - 1
  <2> HIDE DEF t
  <2>1. CASE k < i
    <3>1. k \in 1 .. n /\ t[k] = s[k] /\ ~(k - 1 >= old[d] + 1) /\ k - 1 # old[d]
      BY <1>2, <1>4, <1>5, <2>1
    <3>2. s[k] \in DOMAIN old /\ old[s[k]] = k - 1 /\ s[k] # d
      BY <1>2, <3>1
    <3>3. QED
      BY <3>1, <3>2
  <2>2. CASE ~(k < i)
    <3>1. k + 1 \in 1 .. n /\ t[k] = s[k + 1] /\ (k + 1) - 1 >= old[d] + 1 /\ (k + 1) - 1 # old[d]
      BY <1>2, <1>4, <1>5, <2>2
    <3>2. s[k + 1] \in DOMAIN old /\ old[s[k + 1]] = (k + 1) - 1 /\ s[k + 1] # d
      BY <1>2, <3>1
    <3>3. new[s[k + 1]] = (k + 1) - 1 - 1 /\ s[k + 1] \in DOMAIN new
      BY <3>1, <3>2
    <3>4. QED
      BY <1>2, <3>1, <3>3
  <2>3. QED
    BY <2>1, <2>2
<1>7. OrderOf(new) = t
  <2> HIDE DEF t
  <2>1. QED
    BY <1>1, <1>4, <1>6, OrderUnique
<1>8. QED
  BY <1>2, <1>3, <1>7 DEF s

-----------------------------------------------------------------------------
(* What an open transaction owes to its call.                              *)

(* Tables stay finite, the call is one the code admitted, and the rows     *)
(* that are about to be committed are the old ones, shifted, with or       *)
(* without the domain.                                                     *)
Moved(e) == IF Base[e] >= call.first THEN Base[e] + call.by ELSE Base[e]

AttachServed ==
  call.kind = "attach" =>
    /\ call.domain \in domains
    /\ call.before = NoReference => \A e \in DOMAIN Base : Base[e] < call.at
    /\ call.before # NoReference => call.before \in DOMAIN Base /\ call.at = Base[call.before]
    /\ phase = "commit" => DOMAIN rows = DOMAIN Base \cup {call.domain} /\ rows[call.domain] = call.at

DetachServed ==
  call.kind = "detach" => (phase = "commit" => DOMAIN rows = DOMAIN Base)

ServedInv ==
  /\ \A r \in Repositories : IsFiniteSet(DOMAIN position[r])
  /\ ~Idle =>
       /\ IsFiniteSet(DOMAIN rows)
       /\ AttachServed /\ DetachServed
       /\ phase = "commit" => \A e \in DOMAIN Base : rows[e] = Moved(e)

LEMMA ServedInit == Init => ServedInv
  BY FS_EmptySet DEF Init, ServedInv, Idle, Empty

(* A step inside the transaction that does not make it ready to commit.    *)
LEMMA ServedInside ==
  ASSUME ServedInv, ~Idle, UNCHANGED <<domains, position, call>>,
         DOMAIN rows' = DOMAIN rows, phase' # "commit"
  PROVE  ServedInv'
<1>1. Base' = Base
  BY DEF Base
<1>2. QED
  BY <1>1 DEF ServedInv, AttachServed, DetachServed

LEMMA ServedEndShift ==
  ASSUME AttachInv, ServedInv, EndShift
  PROVE  ServedInv'
<1>1. ~Idle /\ phase = "lower" /\ todo = {} /\ UNCHANGED <<domains, position, call, todo, rows>>
      /\ phase' = IF call.kind = "attach" THEN "insert" ELSE "commit"
  BY DEF EndShift, Idle
<1>2. Base' = Base /\ Above' = Above /\ Below' = Below
  BY <1>1 DEF Base, Above, Below
<1>3. call.kind \in {"attach", "detach"} /\ Lowering
  BY <1>1 DEF AttachInv, ShiftInv, TypeOK, Calls
<1>4. CASE call.kind = "attach"
  BY <1>1, <1>4, ServedInside
<1>5. CASE call.kind = "detach"
  <2>1. DOMAIN rows = DOMAIN Base /\ \A e \in DOMAIN Base : rows[e] = Moved(e)
    BY <1>1, <1>3 DEF Lowering, Above, Below, From, Moved
  <2>2. \A e \in DOMAIN Base : Moved(e)' = Moved(e)
    BY <1>1, <1>2 DEF Moved
  <2>3. QED
    BY <1>1, <1>2, <1>5, <2>1, <2>2 DEF ServedInv, AttachServed, DetachServed
<1>6. QED
  BY <1>3, <1>4, <1>5

LEMMA ServedInsert ==
  ASSUME AttachInv, ServedInv, Insert
  PROVE  ServedInv'
<1>1. /\ ~Idle /\ phase = "insert" /\ UNCHANGED <<domains, position, call, todo>>
      /\ rows' = [d \in DOMAIN rows \cup {call.domain} |-> IF d = call.domain THEN call.at ELSE rows[d]]
  BY DEF Insert, Idle
<1>2. Base' = Base
  BY <1>1 DEF Base
<1>3. Inserting /\ AttachParameters
  BY <1>1 DEF AttachInv, ShiftInv
<1>4. /\ call.kind = "attach" /\ call.domain \notin DOMAIN Base /\ call.by = 1
      /\ DOMAIN rows = DOMAIN Base /\ \A e \in DOMAIN Base : rows[e] = Moved(e)
  BY <1>1, <1>3 DEF Inserting, AttachParameters, Above, Below, From, Moved
<1>5. /\ DOMAIN rows' = DOMAIN Base \cup {call.domain} /\ rows'[call.domain] = call.at
      /\ \A e \in DOMAIN Base : rows'[e] = Moved(e)
  BY <1>1, <1>4
<1>6. IsFiniteSet(DOMAIN rows')
  BY <1>1, <1>4, <1>5, FS_AddElement DEF ServedInv
<1>7. \A e \in DOMAIN Base : Moved(e)' = Moved(e)
  BY <1>1, <1>2 DEF Moved
<1>8. QED
  BY <1>1, <1>2, <1>4, <1>5, <1>6, <1>7 DEF ServedInv, AttachServed, DetachServed

LEMMA ServedBeginAttach ==
  ASSUME AttachInv, ServedInv, NEW r \in Repositories, NEW d \in Domains,
         NEW before \in Domains \cup {NoReference}, BeginAttach(r, d, before)
  PROVE  ServedInv'
<1> DEFINE table == position[r]
           at(m) == IF before = NoReference THEN NextPosition(m) ELSE PositionBefore(table, before)
<1>1. PICK maximum \in Maxima(table) :
        /\ IsMaximum(table, maximum)
        /\ phase' = IF before = NoReference THEN "insert" ELSE "raise"
        /\ call' = [kind |-> "attach", repository |-> r, domain |-> d, before |-> before,
                    at |-> at(maximum), first |-> at(maximum), by |-> 1, offset |-> Offset(maximum)]
        /\ rows' = table
  BY DEF BeginAttach
<1>2. /\ d \in domains /\ UNCHANGED <<domains, position>>
      /\ before # NoReference => before \in DOMAIN table
  BY DEF BeginAttach
<1>3. Dense(table) /\ IsFiniteSet(DOMAIN table)
  BY DEF AttachInv, PositionsDense, ServedInv
<1>4. /\ call'.kind = "attach" /\ call'.domain = d /\ call'.before = before
      /\ call'.at = at(maximum) /\ call'.repository = r
  BY <1>1
<1>5. Base' = table
  BY <1>2, <1>4 DEF Base
<1>6. before = NoReference => \A e \in DOMAIN table : table[e] < at(maximum)
  BY <1>1, <1>3 DEF IsMaximum, Maxima, NextPosition, Dense
<1>7. phase' # "commit"
  BY <1>1
<1>8. QED
  BY <1>1, <1>2, <1>3, <1>4, <1>5, <1>6, <1>7
  DEF ServedInv, AttachServed, DetachServed, PositionBefore

LEMMA ServedBeginDetach ==
  ASSUME AttachInv, ServedInv, NEW r \in Repositories, NEW d \in Domains, BeginDetach(r, d)
  PROVE  ServedInv'
<1> DEFINE table == Without(position[r], d)
           at == position[r][d]
<1>1. PICK maximum \in Maxima(table) :
        /\ IsMaximum(table, maximum)
        /\ phase' = AfterRemoval(maximum, at)
        /\ call' = [kind |-> "detach", repository |-> r, domain |-> d, before |-> NoReference,
                    at |-> at, first |-> at + 1, by |-> -1, offset |-> Offset(maximum)]
        /\ rows' = table
  BY DEF BeginDetach
<1>2. d \in DOMAIN position[r] /\ UNCHANGED <<domains, position>>
  BY DEF BeginDetach
<1>3. Dense(position[r]) /\ IsFiniteSet(DOMAIN position[r])
  BY DEF AttachInv, PositionsDense, ServedInv
<1>4. /\ DOMAIN table = DOMAIN position[r] \ {d}
      /\ \A e \in DOMAIN table : table[e] \in Nat /\ table[e] = position[r][e]
      /\ at \in Nat
  BY <1>2, <1>3 DEF Without, Dense
<1>5. IsFiniteSet(DOMAIN table)
  BY <1>3, <1>4, FS_RemoveElement
<1>6. /\ call'.kind = "detach" /\ call'.domain = d /\ call'.repository = r
      /\ call'.first = at + 1
  BY <1>1
<1>7. Base' = table
  BY <1>2, <1>6 DEF Base
<1> HIDE DEF table, at
<1>8. phase' = "commit" => \A e \in DOMAIN table : table[e] < at + 1
  BY <1>1, <1>4 DEF AfterRemoval, IsMaximum, Maxima
<1>9. ASSUME phase' = "commit", NEW e \in DOMAIN table PROVE rows'[e] = Moved(e)'
  BY <1>1, <1>4, <1>6, <1>7, <1>8, <1>9 DEF Moved
<1>10. QED
  BY <1>1, <1>2, <1>3, <1>5, <1>6, <1>7, <1>9 DEF ServedInv, AttachServed, DetachServed

LEMMA ServedCommit ==
  ASSUME AttachInv, ServedInv, Commit
  PROVE  ServedInv'
<1>1. ~Idle /\ IsFiniteSet(DOMAIN rows) /\ position' = [position EXCEPT ![call.repository] = rows] /\ Idle'
  BY DEF Commit, Close, Idle, ServedInv
<1>2. \A r \in Repositories : position'[r] \in {rows, position[r]}
  BY <1>1 DEF AttachInv, TypeOK
<1>3. QED
  BY <1>1, <1>2 DEF ServedInv

LEMMA ServedStep == AttachInv /\ ServedInv /\ [Next]_vars => ServedInv'
<1> SUFFICES ASSUME AttachInv, ServedInv, [Next]_vars PROVE ServedInv'
  OBVIOUS
<1>1. CASE \E d \in Domains : CreateDomain(d) \/ DeleteDomain(d)
  BY <1>1 DEF CreateDomain, DeleteDomain, tx, Idle, ServedInv
<1>2. CASE \E d \in Domains : RaiseRow(d) \/ LowerRow(d)
  BY <1>2, ServedInside DEF RaiseRow, LowerRow, Idle
<1>3. CASE \E r \in Repositories, d \in Domains, before \in Domains \cup {NoReference} :
             BeginAttach(r, d, before)
  BY <1>3, ServedBeginAttach
<1>4. CASE \E r \in Repositories, d \in Domains : BeginDetach(r, d)
  BY <1>4, ServedBeginDetach
<1>5. CASE BeginLower
  BY <1>5, ServedInside DEF BeginLower, Idle
<1>6. CASE EndShift \/ Insert \/ Commit
  BY <1>6, ServedEndShift, ServedInsert, ServedCommit
<1>7. CASE Rollback
  BY <1>7 DEF Rollback, Close, Idle, ServedInv
<1>8. CASE UNCHANGED vars
  BY <1>8 DEF vars, ServedInv, Idle, AttachServed, DetachServed, Moved, Base
<1>9. QED
  BY <1>1, <1>2, <1>3, <1>4, <1>5, <1>6, <1>7, <1>8 DEF Next

-----------------------------------------------------------------------------
(* Each step is one of the stack's, or shows nothing.                      *)

StackOf == [r \in Repositories |-> OrderOf(position[r])]

LEMMA InitStack == Init => Stack!Init
<1> SUFFICES ASSUME Init PROVE Stack!Init
  OBVIOUS
<1>1. OrderOf(Empty) = <<>>
  <2>1. DOMAIN Empty = {} /\ Cardinality(DOMAIN Empty) = 0
    BY FS_EmptySet DEF Empty
  <2>2. QED
    BY <2>1 DEF OrderOf
<1>2. position = [r \in Repositories |-> Empty] /\ domains = {} /\ Idle
  BY DEF Init, Idle
<1>3. [r \in Repositories |-> OrderOf(position[r])] = [r \in Repositories |-> <<>>]
  BY <1>1, <1>2
<1>4. QED
  BY <1>2, <1>3 DEF Stack!Init, Asked, Stack!None, NoCall

LEMMA AskedIdle == Idle => Asked = Stack!None
  BY DEF Asked, NoCall, Stack!None

LEMMA AskedOpen ==
  ASSUME AttachInv, ~Idle
  PROVE  /\ Asked \in Stack!Asked /\ Asked # Stack!None
         /\ Asked.kind = call.kind /\ Asked.repository = call.repository
         /\ Asked.domain = call.domain /\ Asked.before = call.before
<1>1. call \in Calls
  BY DEF AttachInv, TypeOK
<1>2. Asked = [kind |-> call.kind, repository |-> call.repository, domain |-> call.domain,
               before |-> call.before]
  BY DEF Asked
<1>3. /\ Asked.kind = call.kind /\ Asked.repository = call.repository
      /\ Asked.domain = call.domain /\ Asked.before = call.before
  BY <1>2
<1>4. call.kind # "none" /\ Stack!None.kind = "none"
  BY <1>1 DEF Calls, Stack!None
<1>5. QED
  BY <1>1, <1>2, <1>3, <1>4 DEF Calls, Stack!Asked

LEMMA RangeOfOrder ==
  ASSUME AttachInv, ServedInv, NEW r \in Repositories
  PROVE  Stack!Range(OrderOf(position[r])) = DOMAIN position[r]
<1> DEFINE table == position[r]
           s == OrderOf(table)
<1>1. Dense(table) /\ IsFiniteSet(DOMAIN table)
  BY DEF AttachInv, PositionsDense, ServedInv
<1> HIDE DEF table
<1>2. /\ s \in Seq(DOMAIN table)
      /\ \A i \in 1 .. Len(s) : s[i] \in DOMAIN table
      /\ \A d \in DOMAIN table : table[d] + 1 \in 1 .. Len(s) /\ s[table[d] + 1] = d
  BY <1>1, OrderProperties
<1>3. DOMAIN s = 1 .. Len(s)
  BY <1>2, LenProperties
<1>4. QED
  BY <1>2, <1>3 DEF Stack!Range, table

LEMMA DomainsImplement ==
  ASSUME AttachInv, ServedInv, NEW d \in Domains, CreateDomain(d) \/ DeleteDomain(d)
  PROVE  Stack!Next
<1>1. Idle /\ Idle' /\ UNCHANGED position
  BY DEF CreateDomain, DeleteDomain, tx, Idle
<1>2. Asked = Stack!None /\ Asked' = Stack!None
  BY <1>1, AskedIdle DEF Asked, NoCall, Stack!None
<1>3. CASE CreateDomain(d)
  BY <1>1, <1>2, <1>3 DEF CreateDomain, Stack!CreateDomain, Stack!Next
<1>4. CASE DeleteDomain(d)
  <2>1. ASSUME NEW r \in Repositories
        PROVE  d \notin Stack!Range([q \in Repositories |-> OrderOf(position[q])][r])
    BY <1>4, RangeOfOrder DEF DeleteDomain
  <2>2. Stack!DeleteDomain(d)
    BY <1>1, <1>2, <1>4, <2>1 DEF DeleteDomain, Stack!DeleteDomain
  <2>3. QED
    BY <2>2 DEF Stack!Next
<1>5. QED
  BY <1>3, <1>4

LEMMA BeginsImplement ==
  ASSUME AttachInv, AttachInv', Idle, ~Idle', UNCHANGED <<domains, position>>
  PROVE  Stack!Next
<1>1. Asked = Stack!None /\ Asked' \in Stack!Asked
  <2>1. call' \in Calls
    BY DEF AttachInv, TypeOK
  <2>2. QED
    BY <2>1, AskedIdle DEF Asked, Calls, Stack!Asked
<1>2. QED
  BY <1>1 DEF Stack!Begin, Stack!Next

LEMMA InsideImplements ==
  ASSUME ~Idle, ~Idle', UNCHANGED <<domains, position, call>>
  PROVE  UNCHANGED Stack!stackVars
  BY DEF Stack!stackVars, Asked

LEMMA RollbackImplements ==
  ASSUME AttachInv, Rollback
  PROVE  Stack!Next
<1>1. ~Idle /\ Idle' /\ UNCHANGED <<domains, position>>
  BY DEF Rollback, Close, Idle
<1>2. Asked # Stack!None /\ Asked' = Stack!None
  BY <1>1, AskedOpen DEF Asked, NoCall, Stack!None
<1>3. QED
  BY <1>1, <1>2 DEF Stack!Abandon, Stack!Next


(* A commit serves the call: its insertion goes last or exactly before its *)
(* reference, its removal disturbs no other domain.                        *)
LEMMA CommitImplements ==
  ASSUME AttachInv, ServedInv, Commit
  PROVE  Stack!Next
<1> DEFINE r == call.repository
           old == position[r]
           stack == [q \in Repositories |-> OrderOf(position[q])]
<1>1. /\ ~Idle /\ Idle' /\ UNCHANGED domains /\ position' = [position EXCEPT ![r] = rows]
      /\ phase = "commit"
  BY DEF Commit, Close, Idle
<1>2. /\ Asked # Stack!None /\ Asked' = Stack!None
      /\ Asked.kind = call.kind /\ Asked.repository = r
      /\ Asked.domain = call.domain /\ Asked.before = call.before
  BY <1>1, AskedOpen DEF Asked, NoCall, Stack!None
<1>3. /\ r \in Repositories /\ call.kind \in {"attach", "detach"} /\ call.at \in Nat
      /\ IsFiniteSet(DOMAIN old) /\ Dense(old) /\ Dense(rows)
      /\ AttachParameters /\ DetachParameters /\ AttachServed /\ DetachServed
      /\ \A e \in DOMAIN Base : rows[e] = Moved(e)
  BY <1>1 DEF AttachInv, ShiftInv, Committing, PositionsDense, TypeOK, Calls, ServedInv
<1>4. ASSUME NEW result, OrderOf(rows) = result
      PROVE  [q \in Repositories |-> OrderOf(position'[q])] = [stack EXCEPT ![r] = result]
  BY <1>1, <1>3, <1>4 DEF AttachInv, TypeOK
<1>5. stack[r] = OrderOf(old) /\ Stack!Range(stack[r]) = DOMAIN old
  BY <1>3, RangeOfOrder
<1>6. ASSUME NEW kind, call.kind = kind, NEW result, OrderOf(rows) = result
      PROVE  Stack!Serve(kind, result)
  BY <1>1, <1>2, <1>4, <1>6 DEF Stack!Serve
<1>7. CASE call.kind = "attach" /\ call.before = NoReference
  <2>1. /\ Base = old /\ call.domain \notin DOMAIN old /\ call.domain \in domains
        /\ DOMAIN rows = DOMAIN old \cup {call.domain}
        /\ \A e \in DOMAIN old : old[e] < call.at /\ rows[e] = Moved(e)
        /\ call.first = call.at
    BY <1>1, <1>3, <1>7 DEF Base, AttachServed, AttachParameters
  <2>2. \A e \in DOMAIN old : rows[e] = old[e]
    BY <1>3, <2>1 DEF Moved, Dense
  <2>3. OrderOf(rows) = Append(OrderOf(old), call.domain)
    BY <1>3, <2>1, <2>2, OrderAppend
  <2>4. Stack!AttachLast(stack[r])
    BY <1>2, <1>5, <1>6, <1>7, <2>1, <2>3 DEF Stack!AttachLast
  <2>5. QED
    BY <1>2, <2>4 DEF Stack!Next
<1>8. CASE call.kind = "attach" /\ call.before # NoReference
  <2>1. /\ Base = old /\ call.domain \notin DOMAIN old /\ call.domain \in domains
        /\ DOMAIN rows = DOMAIN old \cup {call.domain} /\ rows[call.domain] = old[call.before]
        /\ call.before \in DOMAIN old /\ call.first = old[call.before] /\ call.by = 1
        /\ \A e \in DOMAIN old : rows[e] = Moved(e)
    BY <1>1, <1>3, <1>8 DEF Base, AttachServed, AttachParameters
  <2>2. \A e \in DOMAIN old : rows[e] = IF old[e] >= old[call.before] THEN old[e] + 1 ELSE old[e]
    BY <2>1 DEF Moved
  <2>3. PICK i \in DOMAIN OrderOf(old) :
          OrderOf(old)[i] = call.before /\ OrderOf(rows) = Stack!InsertAt(OrderOf(old), i, call.domain)
    <3>1. PICK o, new, b, d : o = old /\ new = rows /\ b = call.before /\ d = call.domain
      OBVIOUS
    <3>2. /\ IsFiniteSet(DOMAIN o) /\ Dense(o) /\ Dense(new)
          /\ b \in DOMAIN o /\ d \notin DOMAIN o /\ DOMAIN new = DOMAIN o \cup {d}
      BY <1>3, <2>1, <3>1
    <3>3. new[d] = o[b]
      BY <2>1, <3>1
    <3>4. \A e \in DOMAIN o : new[e] = IF o[e] >= o[b] THEN o[e] + 1 ELSE o[e]
      BY <2>2, <3>1
    <3>5. \E i \in DOMAIN OrderOf(o) :
            OrderOf(o)[i] = b /\ OrderOf(new) = Stack!InsertAt(OrderOf(o), i, d)
      BY ONLY <3>2, <3>3, <3>4, OrderInsert
    <3>6. QED
      BY ONLY <3>1, <3>5
  <2>4. Stack!AttachBefore(stack[r])
    BY <1>2, <1>5, <1>6, <1>8, <2>1, <2>3 DEF Stack!AttachBefore
  <2>5. QED
    BY <1>2, <2>4 DEF Stack!Next
<1>9. CASE call.kind = "detach"
  <2>1. /\ DOMAIN rows = DOMAIN Base /\ DOMAIN Base = DOMAIN old \ {call.domain}
        /\ \A e \in DOMAIN Base : Base[e] = old[e] /\ rows[e] = Moved(e)
        /\ call.domain \in DOMAIN old /\ call.first = old[call.domain] + 1 /\ call.by = -1
    BY <1>1, <1>3, <1>9 DEF Base, Without, DetachServed, DetachParameters
  <2>2. \A e \in DOMAIN rows : rows[e] = IF old[e] >= old[call.domain] + 1 THEN old[e] - 1 ELSE old[e]
    <3>1. ASSUME NEW e \in DOMAIN rows
          PROVE  rows[e] = IF old[e] >= old[call.domain] + 1 THEN old[e] + -1 ELSE old[e]
      BY <2>1 DEF Moved
    <3>2. \A e \in DOMAIN rows : old[e] \in Nat
      BY <1>3, <2>1 DEF Dense
    <3>3. QED
      BY <3>1, <3>2
  <2>3. PICK i \in DOMAIN OrderOf(old) :
          OrderOf(old)[i] = call.domain /\ OrderOf(rows) = Stack!RemoveAt(OrderOf(old), i)
    BY <1>3, <2>1, <2>2, OrderRemove
  <2>4. Stack!Detach(stack[r])
    BY <1>2, <1>5, <1>6, <1>9, <2>3 DEF Stack!Detach
  <2>5. QED
    BY <1>2, <2>4 DEF Stack!Next
<1>10. QED
  BY <1>3, <1>7, <1>8, <1>9

LEMMA StepImplements ==
  AttachInv /\ AttachInv' /\ ServedInv /\ [Next]_vars => [Stack!Next]_Stack!stackVars
<1> SUFFICES ASSUME AttachInv, AttachInv', ServedInv, [Next]_vars
             PROVE  Stack!Next \/ UNCHANGED Stack!stackVars
  OBVIOUS
<1>1. CASE \E d \in Domains : CreateDomain(d) \/ DeleteDomain(d)
  BY <1>1, DomainsImplement
<1>2. CASE \E d \in Domains : RaiseRow(d) \/ LowerRow(d)
  BY <1>2, InsideImplements DEF RaiseRow, LowerRow, Idle
<1>3. CASE \E r \in Repositories, d \in Domains :
             (\E before \in Domains \cup {NoReference} : BeginAttach(r, d, before)) \/ BeginDetach(r, d)
  <2>1. Idle /\ ~Idle' /\ UNCHANGED <<domains, position>>
    BY <1>3 DEF BeginAttach, BeginDetach, AfterRemoval, Idle
  <2>2. QED
    BY <2>1, BeginsImplement
<1>4. CASE BeginLower \/ EndShift \/ Insert
  BY <1>4, InsideImplements DEF BeginLower, EndShift, Insert, Idle
<1>5. CASE Commit \/ Rollback
  BY <1>5, CommitImplements, RollbackImplements
<1>6. CASE UNCHANGED vars
  BY <1>6 DEF vars, Stack!stackVars, Asked, Idle
<1>7. QED
  BY <1>1, <1>2, <1>3, <1>4, <1>5, <1>6 DEF Next

(* The positions implement the stack: callers see each attach_domain and   *)
(* detach_domain happen at once, exactly as it was asked, or not at all,   *)
(* and never the two UPDATEs between (domains.rs:39-95, 190-243).         *)
THEOREM AttachmentsImplementStack == Spec => ImplementsStack
<1>1. Init => Stack!Init
  BY InitStack
<1>2. AttachInv /\ AttachInv' /\ ServedInv /\ [Next]_vars => [Stack!Next]_Stack!stackVars
  BY StepImplements
<1>3. Spec => []ServedInv
  BY AttachInvariant, ServedInit, ServedStep, PTL DEF Spec
<1>4. QED
  BY <1>1, <1>2, <1>3, AttachInvariant, PTL DEF Spec, ImplementsStack, Stack!Spec
=============================================================================
