--------------------------- MODULE CommandsProofs ---------------------------
(***************************************************************************)
(* Proofs about commands that run side by side as processes of their own,  *)
(* for any number of them and at any of their steps: over the tables they  *)
(* share (StoreClients) and over the Git configuration they share          *)
(* (RepositoryScope).                                                      *)
(*                                                                         *)
(* The interleaved calls of StoreClients implement the transactions of     *)
(* MemoryStore, so what is proved of the store holds of every database     *)
(* they share, and what a call reads in its transaction, or before it,     *)
(* supports what it commits.  Of the configuration, what a command has     *)
(* read of the two keys stays true until it has answered.                  *)
(***************************************************************************)
EXTENDS StoreClients, RepositoryScope, MemoryStoreProofs

LockHeld ==
  \A p \in Processes : writer = p <=> call[p].at \in {"check", "insert"}

AttachedSoFar ==
  \A p \in Processes :
    call[p].at \in {"begin", "check", "insert", "done"} => "during" \in held[p]

WritersRemember ==
  \A p \in Processes : call[p].at \in {"check", "insert"} => call[p].kind = "remember"

CallsOK ==
  /\ call \in [Processes -> Calls \cup {Idle}]
  /\ writer \in Processes \cup {Nobody}
  /\ held \in [Processes -> SUBSET {"during", "commit"}]
  /\ LockHeld

ClientsInv == CallsOK /\ WritersRemember /\ CheckedStillHolds /\ AttachedSoFar

-----------------------------------------------------------------------------
(* A call that moves on to another stage is the same call.                 *)
LEMMA StageType ==
  ASSUME NEW c \in Calls, NEW stage \in Stages
  PROVE  /\ [c EXCEPT !.at = stage] \in Calls
         /\ [c EXCEPT !.at = stage].at = stage
         /\ [c EXCEPT !.at = stage].kind = c.kind
         /\ [c EXCEPT !.at = stage].placement = c.placement
         /\ [c EXCEPT !.at = stage].repository = c.repository
         /\ c \in Remembers => /\ [c EXCEPT !.at = stage].text = c.text
                               /\ [c EXCEPT !.at = stage].force = c.force
<1>1. CASE c \in Remembers
  BY <1>1, Zenon DEF Calls, Remembers
<1>2. CASE c \in Overwrites
  BY <1>2 DEF Calls, Overwrites, Remembers
<1>3. CASE c \in Forgets
  BY <1>3 DEF Calls, Forgets, Remembers
<1>4. QED
  BY <1>1, <1>2, <1>3 DEF Calls

LEMMA CallKinds ==
  ASSUME CallsOK, NEW p \in Processes, call[p].at # "idle"
  PROVE  /\ call[p] \in Calls
         /\ call[p].placement \in Placements /\ call[p].repository \in Repositories
         /\ call[p].kind = "remember" => call[p] \in Remembers
         /\ call[p].kind = "overwrite" => call[p] \in Overwrites
         /\ call[p].kind = "forget" => call[p] \in Forgets
<1>1. call[p] \in Calls \cup {Idle}
  BY DEF CallsOK
<1>2. call[p] \in Calls
  BY <1>1 DEF Idle
<1>3. CASE call[p] \in Remembers
  BY <1>2, <1>3 DEF Remembers
<1>4. CASE call[p] \in Overwrites
  BY <1>2, <1>4 DEF Overwrites
<1>5. CASE call[p] \in Forgets
  BY <1>2, <1>5 DEF Forgets
<1>6. QED
  BY <1>2, <1>3, <1>4, <1>5 DEF Calls

(* Going to a stage changes no other call, and nothing else of this one.   *)
LEMMA GotoEffect ==
  ASSUME CallsOK, NEW p \in Processes, call[p].at # "idle", NEW stage \in Stages,
         Goto(p, stage)
  PROVE  /\ call' \in [Processes -> Calls \cup {Idle}]
         /\ \A q \in Processes \ {p} : call'[q] = call[q]
         /\ call'[p] \in Calls /\ call'[p].at = stage
         /\ call'[p].placement = call[p].placement
         /\ call'[p].repository = call[p].repository
         /\ call'[p].kind = call[p].kind
         /\ call[p] \in Remembers => /\ call'[p].text = call[p].text
                                    /\ call'[p].force = call[p].force
<1> DEFINE moved == [call[p] EXCEPT !.at = stage]
<1>1. call[p] \in Calls
  BY CallKinds
<1>2. call' = [call EXCEPT ![p] = moved] /\ call \in [Processes -> Calls \cup {Idle}]
  BY DEF Goto, CallsOK
<1>3. /\ moved \in Calls /\ moved.at = stage /\ moved.kind = call[p].kind
      /\ moved.placement = call[p].placement /\ moved.repository = call[p].repository
      /\ call[p] \in Remembers => moved.text = call[p].text /\ moved.force = call[p].force
  BY <1>1, StageType, Zenon
<1> HIDE DEF moved
<1>4. /\ call'[p] = moved
      /\ \A q \in Processes \ {p} : call'[q] = call[q]
      /\ call' \in [Processes -> Calls \cup {Idle}]
  BY <1>2, <1>3
<1>5. QED
  BY <1>3, <1>4, Zenon

LEMMA StopEffect ==
  ASSUME CallsOK, NEW p \in Processes, Stop(p)
  PROVE  /\ call' \in [Processes -> Calls \cup {Idle}]
         /\ \A q \in Processes \ {p} : call'[q] = call[q]
         /\ call'[p] = Idle
BY DEF CallsOK, Stop

(* A step of p as the others see it, and where p goes.                     *)
Stays(p) ==
  /\ call' \in [Processes -> Calls \cup {Idle}]
  /\ \A q \in Processes \ {p} : call'[q] = call[q]

Continues(p) ==
  /\ call'[p].placement = call[p].placement
  /\ call'[p].repository = call[p].repository

LEMMA StepShape ==
  ASSUME CallsOK, NEW p \in Processes, Step(p)
  PROVE  /\ Stays(p)
         /\ writer' \in Processes \cup {Nobody}
         /\ LockHeld'
<1> USE DEF Stays
<1>0. /\ call \in [Processes -> Calls \cup {Idle}] /\ writer \in Processes \cup {Nobody}
      /\ LockHeld /\ Idle.at = "idle" /\ \A q \in Processes : q # Nobody
  BY NobodyAssumption DEF CallsOK, Idle
<1>1. CASE \E c \in Calls : Start(p, c)
  <2>1. PICK c \in Calls : Start(p, c)
    BY <1>1
  <2>2. /\ call' = [call EXCEPT ![p] = c] /\ call[p] = Idle /\ writer' = writer
        /\ c.at \in {"exists", "begin"}
    BY <2>1 DEF Start
  <2>3. Stays(p) /\ call'[p] = c
    BY <1>0, <2>2
  <2>4. QED
    BY <1>0, <2>2, <2>3 DEF LockHeld
<1>2. CASE CheckExists(p) \/ CheckAttached(p)
  <2>1. call[p].at \in {"exists", "attached"} /\ writer' = writer
    BY <1>2 DEF CheckExists, CheckAttached
  <2>2. CASE Stop(p)
    BY <1>0, <2>1, <2>2, StopEffect DEF LockHeld
  <2>3. CASE Goto(p, "attached")
    BY <1>0, <2>1, <2>3, GotoEffect DEF LockHeld, Stages
  <2>4. CASE Goto(p, "begin")
    BY <1>0, <2>1, <2>4, GotoEffect DEF LockHeld, Stages
  <2>5. QED
    BY <1>2, <2>2, <2>3, <2>4 DEF CheckExists, CheckAttached
<1>3. CASE BeginRemember(p)
  <2>1. call[p].at = "begin" /\ writer = Nobody /\ writer' = p /\ Goto(p, "check")
    BY <1>3 DEF BeginRemember, BeginImmediate
  <2>2. QED
    BY <1>0, <2>1, GotoEffect DEF LockHeld, Stages
<1>4. CASE CheckSimilar(p)
  <2>1. /\ call[p].at = "check"
        /\ \/ Goto(p, "insert") /\ writer' = writer
           \/ Stop(p) /\ writer' = Nobody
    BY <1>4 DEF CheckSimilar
  <2>2. CASE Goto(p, "insert") /\ writer' = writer
    BY <1>0, <2>1, <2>2, GotoEffect DEF LockHeld, Stages
  <2>3. CASE Stop(p) /\ writer' = Nobody
    BY <1>0, <2>1, <2>3, StopEffect DEF LockHeld
  <2>4. QED
    BY <2>1, <2>2, <2>3
<1>5. CASE InsertRemembered(p)
  <2>1. call[p].at = "insert" /\ Goto(p, "done") /\ writer' = Nobody
    BY <1>5 DEF InsertRemembered
  <2>2. QED
    BY <1>0, <2>1, GotoEffect DEF LockHeld, Stages
<1>6. CASE InsertRefused(p)
  <2>1. call[p].at = "insert" /\ Stop(p) /\ writer' = Nobody
    BY <1>6 DEF InsertRefused
  <2>2. QED
    BY <1>0, <2>1, StopEffect DEF LockHeld
<1>7. CASE ChangeInPlace(p)
  <2>1. call[p].at = "begin" /\ Goto(p, "done") /\ writer' = writer
    BY <1>7 DEF ChangeInPlace
  <2>2. QED
    BY <1>0, <2>1, GotoEffect DEF LockHeld, Stages
<1>8. CASE NothingToChange(p) \/ Finish(p)
  <2>1. call[p].at \in {"begin", "done"} /\ Stop(p) /\ writer' = writer
    BY <1>8 DEF NothingToChange, Finish
  <2>2. QED
    BY <1>0, <2>1, StopEffect DEF LockHeld
<1>9. CASE Crash(p)
  <2>1. Stop(p) /\ writer' = IF writer = p THEN Nobody ELSE writer
    BY <1>9 DEF Crash
  <2>2. QED
    BY <1>0, <2>1, StopEffect DEF LockHeld
<1>10. QED
  BY <1>1, <1>2, <1>3, <1>4, <1>5, <1>6, <1>7, <1>8, <1>9 DEF Step

-----------------------------------------------------------------------------
(* Records only change under the lock, or while nobody has it.             *)
LEMMA WriteNeedsLock ==
  ASSUME NEW p \in Processes, Step(p)
  PROVE  memories' = memories \/ call[p].at = "insert" \/ writer = Nobody
BY DEF Step, Start, CheckExists, CheckAttached, BeginRemember, CheckSimilar,
       InsertRemembered, InsertRefused, ChangeInPlace, NothingToChange, Finish, Crash, storeVars

(* How a call gets to be at the INSERT, or in the transaction at all.      *)
LEMMA ReachInsert ==
  ASSUME CallsOK, WritersRemember, NEW p \in Processes, Step(p), call'[p].at = "insert"
  PROVE  CheckSimilar(p) /\ call[p].at = "check" /\ Goto(p, "insert")
<1>1. Idle.at = "idle"
  BY DEF Idle
<1>2. ~Stop(p)
  BY <1>1, StopEffect
<1>3. ~\E c \in Calls : Start(p, c)
  <2>1. ASSUME NEW c \in Calls, Start(p, c) PROVE FALSE
    BY <2>1 DEF Start, CallsOK
  <2>2. QED
    BY <2>1
<1>4. ASSUME NEW stage \in Stages \ {"insert"}, call[p].at # "idle"
      PROVE  ~Goto(p, stage)
  BY <1>4, GotoEffect
<1>5. ~CheckExists(p) /\ ~CheckAttached(p)
  BY <1>2, <1>4 DEF CheckExists, CheckAttached, Stages
<1>6. ~BeginRemember(p) /\ ~InsertRemembered(p) /\ ~ChangeInPlace(p)
  BY <1>4 DEF BeginRemember, InsertRemembered, ChangeInPlace, Stages
<1>7. ~InsertRefused(p) /\ ~NothingToChange(p) /\ ~Finish(p) /\ ~Crash(p)
  BY <1>2 DEF InsertRefused, NothingToChange, Finish, Crash
<1>8. CheckSimilar(p)
  BY <1>3, <1>5, <1>6, <1>7 DEF Step
<1>9. QED
  BY <1>2, <1>8 DEF CheckSimilar

LEMMA ReachCheck ==
  ASSUME CallsOK, NEW p \in Processes, Step(p), call'[p].at = "check"
  PROVE  BeginRemember(p)
<1>1. Idle.at = "idle"
  BY DEF Idle
<1>2. ~Stop(p)
  BY <1>1, StopEffect
<1>3. ~\E c \in Calls : Start(p, c)
  <2>1. ASSUME NEW c \in Calls, Start(p, c) PROVE FALSE
    BY <2>1 DEF Start, CallsOK
  <2>2. QED
    BY <2>1
<1>4. ASSUME NEW stage \in Stages \ {"check"}, call[p].at # "idle"
      PROVE  ~Goto(p, stage)
  BY <1>4, GotoEffect
<1>5. ~CheckExists(p) /\ ~CheckAttached(p) /\ ~CheckSimilar(p)
  BY <1>2, <1>4 DEF CheckExists, CheckAttached, CheckSimilar, Stages
<1>6. ~InsertRemembered(p) /\ ~ChangeInPlace(p)
  BY <1>4 DEF InsertRemembered, ChangeInPlace, Stages
<1>7. ~InsertRefused(p) /\ ~NothingToChange(p) /\ ~Finish(p) /\ ~Crash(p)
  BY <1>2 DEF InsertRefused, NothingToChange, Finish, Crash
<1>8. QED
  BY <1>3, <1>5, <1>6, <1>7 DEF Step

LEMMA StepChecked ==
  ASSUME CallsOK, WritersRemember, CheckedStillHolds, NEW p \in Processes, Step(p)
  PROVE  WritersRemember' /\ CheckedStillHolds'
<1>1. Stays(p)
  BY StepShape
<1>2. ASSUME NEW q \in Processes, q # p, call'[q].at \in {"check", "insert"}
      PROVE  /\ call'[q] = call[q] /\ writer = q
             /\ memories' = memories
  <2>1. call'[q] = call[q]
    BY <1>1, <1>2 DEF Stays
  <2>2. writer = q
    BY <1>2, <2>1 DEF CallsOK, LockHeld
  <2>3. call[p].at # "insert" /\ writer # Nobody
    BY <1>2, <2>2, NobodyAssumption DEF CallsOK, LockHeld
  <2>4. QED
    BY <2>1, <2>2, <2>3, WriteNeedsLock
<1>3. WritersRemember'
  <2>1. ASSUME call'[p].at = "check" PROVE call'[p].kind = "remember"
    <3>1. BeginRemember(p)
      BY <2>1, ReachCheck
    <3>2. call[p].at = "begin" /\ call[p].kind = "remember" /\ Goto(p, "check")
      BY <3>1 DEF BeginRemember
    <3>3. QED
      BY <3>2, GotoEffect DEF Stages
  <2>2. ASSUME call'[p].at = "insert" PROVE call'[p].kind = "remember"
    <3>1. call[p].at = "check" /\ Goto(p, "insert")
      BY <2>2, ReachInsert
    <3>2. call[p].kind = "remember"
      BY <3>1 DEF WritersRemember
    <3>3. QED
      BY <3>1, <3>2, GotoEffect DEF Stages
  <2>3. QED
    BY <1>2, <2>1, <2>2 DEF WritersRemember
<1>4. CheckedStillHolds'
  <2>1. ASSUME NEW q \in Processes, call'[q].at = "insert", ~call'[q].force
        PROVE  SimilarAt(call[q].placement, call[q].text)' = {}
    <3>1. CASE q # p
      <4>1. call'[q] = call[q] /\ memories' = memories
        BY <1>2, <2>1, <3>1
      <4>2. SimilarAt(call[q].placement, call[q].text) = {}
        BY <2>1, <4>1 DEF CheckedStillHolds
      <4>3. QED
        BY <4>1, <4>2 DEF SimilarAt, AtPlacement, Live
    <3>2. CASE q = p
      <4>1. CheckSimilar(p) /\ call[p].at = "check" /\ Goto(p, "insert")
        BY <2>1, <3>2, ReachInsert
      <4>2. call[p] \in Remembers
        BY <4>1, CallKinds DEF WritersRemember
      <4>3. /\ call'[p].placement = call[p].placement
            /\ call'[p].text = call[p].text /\ call'[p].force = call[p].force
        BY <4>1, <4>2, GotoEffect DEF Stages
      <4>4. ~Stop(p)
        BY <2>1, <3>2, StopEffect DEF Idle
      <4>5. memories' = memories
        BY <4>1 DEF CheckSimilar, storeVars
      <4>6. call[p].force \/ SimilarAt(call[p].placement, call[p].text) = {}
        BY <4>1, <4>4 DEF CheckSimilar
      <4>7. SimilarAt(call[p].placement, call[p].text) = {}
        BY <2>1, <3>2, <4>3, <4>6, Zenon
      <4>8. QED
        BY <3>2, <4>3, <4>5, <4>7 DEF SimilarAt, AtPlacement, Live
    <3>3. QED
      BY <3>1, <3>2
  <2>2. QED
    BY <2>1 DEF CheckedStillHolds
<1>5. QED
  BY <1>3, <1>4

-----------------------------------------------------------------------------
(* What Observe adds to the history.                                       *)
LEMMA ObserveEffect ==
  ASSUME CallsOK, Observe
  PROVE  /\ held' \in [Processes -> SUBSET {"during", "commit"}]
         /\ \A p \in Processes : call'[p] # Idle =>
              /\ held[p] \subseteq held'[p]
              /\ AttachedFor(call[p])' => "during" \in held'[p]
<1>1. ASSUME NEW p \in Processes PROVE Moments(p) \subseteq {"during", "commit"}
  BY DEF Moments
<1>2. ASSUME NEW p \in Processes, AttachedFor(call[p])' PROVE "during" \in Moments(p)
  BY <1>2 DEF Moments
<1>3. held \in [Processes -> SUBSET {"during", "commit"}]
  BY DEF CallsOK
<1>4. QED
  BY <1>1, <1>2, <1>3 DEF Observe

(* A call gets to its transaction with its domain attached on the way.     *)
LEMMA StepAttached ==
  ASSUME CallsOK, AttachedSoFar, NEW p \in Processes, Step(p), Observe
  PROVE  AttachedSoFar'
<1> DEFINE Admitted == {"begin", "check", "insert", "done"}
<1>0. Idle.at = "idle" /\ "idle" \notin Admitted
  BY DEF Idle
<1>1. ASSUME NEW q \in Processes, q # p, call'[q].at \in Admitted
      PROVE  "during" \in held'[q]
  <2>1. call'[q] = call[q]
    BY <1>1, StepShape DEF Stays
  <2>2. "during" \in held[q]
    BY <1>1, <2>1 DEF AttachedSoFar
  <2>3. QED
    BY <1>0, <1>1, <2>2, ObserveEffect
<1>2. ASSUME call'[p].at \in Admitted
      PROVE  "during" \in held'[p]
  <2>1. call'[p] # Idle /\ ~Stop(p)
    BY <1>0, <1>2, StopEffect
  <2>2. CASE call[p].at \in Admitted
    BY <2>1, <2>2, ObserveEffect DEF AttachedSoFar
  <2>3. CASE \E c \in Calls : Start(p, c)
    <3>1. PICK c \in Calls : Start(p, c)
      BY <2>3
    <3>2. call'[p] = c
      BY <3>1 DEF Start, CallsOK
    <3>3. c.placement.kind # "domain"
      BY <1>2, <3>1, <3>2 DEF Start
    <3>4. AttachedFor(call[p])'
      BY <3>2, <3>3 DEF AttachedFor
    <3>5. QED
      BY <2>1, <3>4, ObserveEffect
  <2>4. CASE CheckAttached(p)
    <3>1. AttachedFor(call[p]) /\ Goto(p, "begin") /\ attached' = attached
          /\ call[p].at = "attached"
      BY <2>1, <2>4 DEF CheckAttached, storeVars
    <3>2. call'[p].placement = call[p].placement /\ call'[p].repository = call[p].repository
      BY <3>1, GotoEffect DEF Stages
    <3>3. AttachedFor(call[p])'
      BY <3>1, <3>2 DEF AttachedFor
    <3>4. QED
      BY <2>1, <3>3, ObserveEffect
  <2>5. CASE CheckExists(p)
    <3>1. call[p].at = "exists" /\ Goto(p, "attached")
      BY <2>1, <2>5 DEF CheckExists
    <3>2. call'[p].at = "attached"
      BY <3>1, GotoEffect DEF Stages
    <3>3. QED
      BY <1>2, <3>2
  <2>6. CASE BeginRemember(p) \/ CheckSimilar(p) \/ InsertRemembered(p) \/ ChangeInPlace(p)
    <3>1. call[p].at \in Admitted
      BY <2>6 DEF BeginRemember, CheckSimilar, InsertRemembered, ChangeInPlace
    <3>2. QED
      BY <2>2, <3>1
  <2>7. CASE InsertRefused(p) \/ NothingToChange(p) \/ Finish(p) \/ Crash(p)
    BY <2>1, <2>7 DEF InsertRefused, NothingToChange, Finish, Crash
  <2>8. QED
    BY <2>3, <2>4, <2>5, <2>6, <2>7 DEF Step
<1>3. QED
  BY <1>1, <1>2 DEF AttachedSoFar

-----------------------------------------------------------------------------
(* The invariant holds at first, and every step keeps it.                  *)
LEMMA InitClients == ClientsInit => ClientsInv
<1> SUFFICES ASSUME ClientsInit PROVE ClientsInv
  OBVIOUS
<1>1. /\ call = [p \in Processes |-> Idle] /\ writer = Nobody
      /\ held = [p \in Processes |-> {}] /\ Idle.at = "idle"
      /\ \A p \in Processes : p # Nobody
  BY NobodyAssumption DEF ClientsInit, Idle
<1>2. CallsOK
  BY <1>1 DEF CallsOK, LockHeld
<1>3. WritersRemember /\ CheckedStillHolds /\ AttachedSoFar
  BY <1>1 DEF WritersRemember, CheckedStillHolds, AttachedSoFar
<1>4. QED
  BY <1>2, <1>3 DEF ClientsInv

LEMMA ElsewhereKeeps ==
  ASSUME ClientsInv, Elsewhere, Observe
  PROVE  ClientsInv'
<1>1. writer = Nobody /\ call' = call /\ writer' = writer /\ CallsOK
  BY DEF Elsewhere, ClientsInv
<1>2. CallsOK'
  BY <1>1, ObserveEffect DEF CallsOK, LockHeld
<1>3. \A p \in Processes : call[p].at \notin {"check", "insert"}
  BY <1>1, NobodyAssumption DEF CallsOK, LockHeld
<1>4. WritersRemember' /\ CheckedStillHolds'
  BY <1>1, <1>3 DEF WritersRemember, CheckedStillHolds
<1>5. AttachedSoFar'
  BY <1>1, ObserveEffect DEF AttachedSoFar, ClientsInv, Idle
<1>6. QED
  BY <1>2, <1>4, <1>5 DEF ClientsInv

LEMMA StutterKeeps ==
  ASSUME ClientsInv, UNCHANGED clientVars
  PROVE  ClientsInv'
<1>1. call' = call /\ writer' = writer /\ held' = held /\ memories' = memories
  BY DEF clientVars
<1>2. CallsOK' /\ WritersRemember' /\ AttachedSoFar'
  BY <1>1 DEF ClientsInv, CallsOK, LockHeld, WritersRemember, AttachedSoFar
<1>3. CheckedStillHolds'
  BY <1>1 DEF ClientsInv, CheckedStillHolds, SimilarAt, AtPlacement, Live
<1>4. QED
  BY <1>2, <1>3 DEF ClientsInv

LEMMA StepClients == ClientsInv /\ [ClientsNext]_clientVars => ClientsInv'
<1>1. ASSUME ClientsInv, NEW p \in Processes, Step(p), Observe PROVE ClientsInv'
  <2>1. CallsOK /\ WritersRemember /\ CheckedStillHolds /\ AttachedSoFar
    BY <1>1 DEF ClientsInv
  <2>2. CallsOK'
    BY <1>1, <2>1, StepShape, ObserveEffect DEF CallsOK, Stays
  <2>3. WritersRemember' /\ CheckedStillHolds'
    BY <1>1, <2>1, StepChecked
  <2>4. AttachedSoFar'
    BY <1>1, <2>1, StepAttached
  <2>5. QED
    BY <2>2, <2>3, <2>4 DEF ClientsInv
<1>2. QED
  BY <1>1, ElsewhereKeeps, StutterKeeps DEF ClientsNext

-----------------------------------------------------------------------------
(* A step of the clients is a transaction of the store, or none.           *)
LEMMA ElsewhereIsNext == Elsewhere => Next
<1> SUFFICES ASSUME Elsewhere PROVE Next
  OBVIOUS
<1>1. CASE \E q \in Requests : CopyMove(DerivedId(q), q, NoDescriptor)
  <2>1. NoDescriptor \in Descriptors
    BY DEF Descriptors
  <2>2. QED
    BY <1>1, <2>1 DEF Next
<1>2. QED
  BY <1>1 DEF Elsewhere, Next

LEMMA CallStepIsNext ==
  ASSUME ClientsInv, NEW p \in Processes, Step(p)
  PROVE  Next \/ UNCHANGED storeVars
<1> DEFINE c == call[p]
<1>0. NoDescriptor \in Descriptors /\ CallsOK
  BY DEF Descriptors, ClientsInv
<1>1. CASE InsertRemembered(p)
  <2>1. c.at = "insert" /\ c.kind = "remember"
    BY <1>1 DEF InsertRemembered, ClientsInv, WritersRemember
  <2>2. c \in Remembers
    BY <1>0, <2>1, CallKinds
  <2>3. c.placement \in Placements /\ c.text \in Texts /\ c.force \in BOOLEAN
    BY <2>2 DEF Remembers
  <2>4. c.force \/ SimilarAt(c.placement, c.text) = {}
    BY <2>1, Zenon DEF ClientsInv, CheckedStillHolds
  <2>5. Remember(c.placement, c.text, c.force, NoDescriptor)
    <3>1. /\ InsertMemory(c.placement, c.text)
          /\ RecordIdentity(c.placement, NoDescriptor)
          /\ UNCHANGED <<domains, attached, provenance, ledger>>
      BY <1>1 DEF InsertRemembered
    <3>2. QED
      BY <2>4, <3>1, Zenon DEF Remember
  <2>6. QED
    BY <1>0, <2>3, <2>5, Zenon DEF Next
<1>2. CASE ChangeInPlace(p)
  <2>1. CASE c.kind = "overwrite" /\ Overwrite(c.placement, c.id, c.text, NoDescriptor)
    <3>1. c \in Overwrites
      BY <1>0, <1>2, <2>1, CallKinds DEF ChangeInPlace
    <3>2. c.placement \in Placements /\ c.text \in Texts /\ c.id \in MemoryIds
      BY <3>1 DEF Overwrites
    <3>3. QED
      BY <1>0, <2>1, <3>2, Zenon DEF Next
  <2>2. CASE c.kind = "forget" /\ ForgetAt(c.placement, c.id)
    <3>1. c \in Forgets
      BY <1>0, <1>2, <2>2, CallKinds DEF ChangeInPlace
    <3>2. c.placement \in Placements /\ c.id \in MemoryIds
      BY <3>1 DEF Forgets
    <3>3. QED
      BY <2>2, <3>2, Zenon DEF Next
  <2>3. QED
    BY <1>2, <2>1, <2>2 DEF ChangeInPlace
<1>3. CASE ~InsertRemembered(p) /\ ~ChangeInPlace(p)
  BY <1>3 DEF Step, Start, CheckExists, CheckAttached, BeginRemember, CheckSimilar,
              InsertRefused, NothingToChange, Finish, Crash
<1>4. QED
  BY <1>1, <1>2, <1>3

LEMMA ClientsStepIsNext == ClientsInv /\ [ClientsNext]_clientVars => [Next]_storeVars
<1>1. UNCHANGED clientVars => UNCHANGED storeVars
  BY DEF clientVars, storeVars
<1>2. QED
  BY <1>1, ElsewhereIsNext, CallStepIsNext DEF ClientsNext

-----------------------------------------------------------------------------
(* Lock, calls, what was searched and what was found attached: together    *)
(* they are inductive.                                                     *)
THEOREM ClientsInvariant == ClientsSpec => []ClientsInv
<1>1. QED
  BY InitClients, StepClients, PTL DEF ClientsSpec

(* Calls of any number of processes, interleaved at every statement, are   *)
(* together a behaviour of the store: refused, crashed and unfinished      *)
(* calls leave no trace, a finished one is one transaction.                *)
THEOREM ClientsImplementStore == ClientsSpec => Spec
<1>1. ClientsInit => Init
  BY DEF ClientsInit
<1>2. QED
  BY <1>1, ClientsInvariant, ClientsStepIsNext, PTL DEF ClientsSpec, Spec

(* So the tables the processes share stay referentially intact.            *)
THEOREM ClientsReferences == ClientsSpec => []ReferentialIntegrity
<1>1. QED
  BY ClientsImplementStore, StoreReferences, PTL

(* What remember searched for still holds where it inserts.                *)
THEOREM ClientsChecked == ClientsSpec => []CheckedStillHolds
<1>1. ClientsInv => CheckedStillHolds
  BY DEF ClientsInv
<1>2. QED
  BY <1>1, ClientsInvariant, PTL

(* A committed call had its domain attached at some moment.                *)
THEOREM ClientsAttachedDuring == ClientsSpec => []AttachedDuring
<1>1. ClientsInv => AttachedDuring
  BY DEF ClientsInv, AttachedSoFar, AttachedDuring
<1>2. QED
  BY <1>1, ClientsInvariant, PTL

(* The write lock is held exactly by the call whose transaction is open.   *)
THEOREM ClientsTyped == ClientsSpec => []ClientsTypeOK
<1>1. ClientsInv /\ TypeOK => ClientsTypeOK
  BY DEF ClientsInv, CallsOK, LockHeld, ClientsTypeOK
<1>2. QED
  BY <1>1, ClientsInvariant, ClientsImplementStore, StoreTyped, PTL

-----------------------------------------------------------------------------
(* The identity of a repository.                                           *)

DirectoryIds == {DirectoryId(p, d) : p \in Places, d \in Directories}
Ids == {Unset} \cup InitialIds \cup DerivedIds \cup DirectoryIds

RunType == [pc : Over \cup {"locate", "config", "legacy", "derive", "persist", "verify", "clean", "describe", "name"},
            writes : BOOLEAN, place : {NoUrl} \cup Places, directory : {NoUrl} \cup Directories,
            id : Ids, legacy : BOOLEAN, name : Ids, calm : BOOLEAN]

\* The configuration, the repository and every command are well formed.
ScopeTypeOK ==
  /\ git \in BOOLEAN /\ place \in Places
  /\ remotes \in [RemoteNames -> {NoUrl} \cup Urls]
  /\ config \in [id : {Unset} \cup InitialIds \cup DerivedIds, legacy : {"unset", "exact", "other"}]
  /\ crossed \in BOOLEAN
  /\ runs \in [Runs -> RunType]
  /\ \A r \in Runs : runs[r].pc # "idle" => runs[r].place \in Places /\ runs[r].directory \in Directories

Stored == config.id \notin {Unset, Malformed}

\* Found and Derived of a run that is not in the table.
FoundBy(run) == git /\ place = run.place

DerivedBy(run) ==
  IF FoundBy(run) /\ SoleRemote # NoUrl THEN <<"remote", SoleRemote>> ELSE <<"git-common-dir", run.place>>

Present(run) == IF git THEN DerivedBy(run) ELSE DirectoryId(place, run.directory)

\* A run that may store an identity saw none, and unless the user interfered
\* it derives the one that any other would store.
Deciding(run) ==
  Undecided(run) =>
    /\ config.id # Malformed
    /\ run.pc = "persist" => run.id \in DerivedIds
    /\ ~crossed => /\ FoundBy(run)
                   /\ config.id \in {Unset, DerivedBy(run)}
                   /\ run.pc = "persist" => run.id = DerivedBy(run)

\* What a run has seen of the two keys stays so, and what it has answered
\* rests on them.
Migrating(run) ==
  /\ (run.pc = "legacy" /\ run.id # Unset) \/ run.pc \in {"verify", "clean"} => Stored
  /\ run.pc \in {"persist", "verify", "clean"} => run.writes
  /\ run.pc = "clean" \/ run.legacy => config.legacy # "other"
  /\ run.pc \in {"derive", "persist", "verify"} /\ ~run.legacy => config.legacy # "exact"
  /\ run.pc \in {"describe", "name", "done"} /\ run.writes /\ run.id[1] # "directory" =>
       Stored /\ config.legacy # "exact"

\* What a run the user left alone has seen is still what there is.
Agreeing(run) ==
  run.calm =>
    /\ ~crossed /\ place = run.place /\ run.pc # "idle"
    /\ run.pc \in {"config", "legacy", "derive", "persist", "verify", "clean", "name"} => git
    /\ (run.pc = "legacy" /\ run.id # Unset) \/ run.pc \in {"verify", "clean"} => config.id = run.id
    /\ (run.pc = "legacy" /\ run.id = Unset) \/ run.pc \in {"derive", "persist"} =>
         config.id \in {Unset, DerivedBy(run)}
    /\ run.pc = "persist" => run.id = DerivedBy(run)
    /\ run.pc \in {"describe", "name", "done"} =>
         run.id = IF config.id = Unset THEN Present(run) ELSE config.id
    /\ run.pc = "done" => run.name = Present(run)

Sound(run) == Deciding(run) /\ Migrating(run) /\ Agreeing(run)

ScopeInv ==
  /\ ScopeTypeOK
  /\ ~git => config.id = Unset
  /\ \A r \in Runs : Sound(runs[r])

-----------------------------------------------------------------------------
(* An identity that is derived is one.                                     *)
LEMMA DerivedKnown ==
  ASSUME ScopeTypeOK, NEW run, run.place \in Places
  PROVE  DerivedBy(run) \in DerivedIds
<1>1. CASE FoundBy(run) /\ SoleRemote # NoUrl
  <2>1. Only # NoUrl
    BY <1>1 DEF SoleRemote, Canonical
  <2>2. PICK n \in RemoteNames : Only = remotes[n]
    BY <2>1, Zenon DEF Only
  <2>3. Only \in Urls
    BY <2>1, <2>2 DEF ScopeTypeOK
  <2>4. SoleRemote \in {Canonical(url) : url \in Urls} \ {NoUrl}
    BY <1>1, <2>3 DEF SoleRemote
  <2>5. QED
    BY <1>1, <2>4 DEF DerivedBy, DerivedIds
<1>2. CASE ~(FoundBy(run) /\ SoleRemote # NoUrl)
  BY <1>2 DEF DerivedBy, DerivedIds
<1>3. QED
  BY <1>1, <1>2

LEMMA FoundDerived ==
  ASSUME NEW r \in Runs
  PROVE  /\ Found(r) <=> FoundBy(runs[r])
         /\ Derived(r) = DerivedBy(runs[r])
BY DEF Found, Derived, FoundBy, DerivedBy

\* Two runs that find the repository derive the same identity.
LEMMA SameDerived ==
  ASSUME NEW a, NEW b, FoundBy(a), FoundBy(b)
  PROVE  DerivedBy(a) = DerivedBy(b)
BY DEF FoundBy, DerivedBy

\* What the repository is does not change in a step of a run.
LEMMA DerivedStays ==
  ASSUME UNCHANGED <<git, place, remotes>>
  PROVE  \A run : /\ FoundBy(run)' <=> FoundBy(run)
                  /\ DerivedBy(run)' = DerivedBy(run)
                  /\ Present(run)' = Present(run)
BY DEF FoundBy, DerivedBy, Present, SoleRemote, Only

(* A step of a run leaves the others and the repository alone.             *)
LEMMA StepOf ==
  ASSUME ScopeInv, NEW r \in Runs, NEW run, Become(r, run)
  PROVE  /\ runs'[r] = run
         /\ \A q \in Runs \ {r} : runs'[q] = runs[q]
         /\ UNCHANGED <<git, place, remotes, changes>> /\ SoleRemote' = SoleRemote
         /\ crossed' => crossed
         /\ \A q \in Runs : Undecided(runs'[q]) => crossed' = crossed
BY DEF ScopeInv, ScopeTypeOK, Become, SoleRemote, Only

LEMMA SoundStays ==
  ASSUME NEW run, UNCHANGED <<git, place, remotes>>, Sound(run),
         config'.id = config.id, config'.legacy \in {config.legacy, "unset"},
         crossed' => crossed, Undecided(run) => crossed' = crossed, crossed \in BOOLEAN
  PROVE  Sound(run)'
<1>1. SoleRemote' = SoleRemote
  BY DEF SoleRemote, Only
<1>2. Deciding(run)'
  BY <1>1 DEF Sound, Deciding, FoundBy, DerivedBy, Undecided
<1>3. Migrating(run)'
  BY DEF Sound, Migrating, Stored
<1>4. Agreeing(run)'
  BY <1>1 DEF Sound, Agreeing, Present, FoundBy, DerivedBy
<1>5. QED
  BY <1>2, <1>3, <1>4 DEF Sound

(* A step that only reads the configuration preserves the invariant if     *)
(* what its run has become is sound.                                       *)
LEMMA ReadingStep ==
  ASSUME ScopeInv, NEW r \in Runs, NEW run \in RunType, Become(r, run), UNCHANGED config,
         run.pc # "idle" => run.place \in Places /\ run.directory \in Directories,
         Sound(run)
  PROVE  ScopeInv'
<1>1. /\ runs'[r] = run
      /\ \A q \in Runs \ {r} : runs'[q] = runs[q]
      /\ UNCHANGED <<git, place, remotes>>
      /\ crossed' => crossed
      /\ \A q \in Runs : Undecided(runs'[q]) => crossed' = crossed
  BY StepOf
<1>2. runs' \in [Runs -> RunType] /\ crossed' \in BOOLEAN
  BY DEF ScopeInv, ScopeTypeOK, Become
<1>3. ScopeTypeOK'
  BY <1>1, <1>2 DEF ScopeInv, ScopeTypeOK
<1>4. ASSUME NEW q \in Runs \ {r}
      PROVE  Sound(runs[q])'
  <2>1. PICK s : s = runs[q]
    OBVIOUS
  <2>2. Sound(s) /\ (Undecided(s) => crossed' = crossed)
    BY <1>1, <2>1 DEF ScopeInv
  <2>3. Sound(s)'
    BY <1>1, <2>2, SoundStays DEF ScopeInv, ScopeTypeOK
  <2>4. QED
    BY <1>1, <2>1, <2>3
<1>5. Sound(runs[r])'
  <2>1. Sound(run)'
    BY <1>1, SoundStays DEF ScopeInv, ScopeTypeOK
  <2>2. QED
    BY <1>1, <2>1
<1>6. QED
  BY <1>1, <1>3, <1>4, <1>5 DEF ScopeInv

-----------------------------------------------------------------------------
(* Each step of a run.                                                     *)
LEMMA FailStep ==
  ASSUME ScopeInv, NEW r \in Runs, Fail(r), UNCHANGED config
  PROVE  ScopeInv'
<1>1. NoRun \in RunType
  BY DEF NoRun, RunType, Over, Ids
<1>2. Sound(NoRun)
  BY DEF NoRun, Sound, Deciding, Undecided, Migrating, Agreeing
<1>3. QED
  BY <1>1, <1>2, ReadingStep DEF Fail, NoRun

(* Outside of Git, nothing is stored, and the directory is the answer.     *)
LEMMA OutsideStep ==
  ASSUME ScopeInv, NEW r \in Runs, Outside(r), UNCHANGED config,
         runs[r].pc # "idle", ~Found(r)
  PROVE  ScopeInv'
<1> DEFINE run == [runs[r] EXCEPT !.pc = "describe", !.id = DirectoryId(runs[r].place, runs[r].directory),
                                  !.legacy = FALSE]
<1>1. /\ runs[r] \in RunType /\ runs[r].place \in Places /\ runs[r].directory \in Directories
      /\ Sound(runs[r]) /\ (~git => config.id = Unset)
  BY DEF ScopeInv, ScopeTypeOK
<1>2. DirectoryId(runs[r].place, runs[r].directory) \in Ids
  BY <1>1 DEF Ids, DirectoryIds
<1>3. run \in RunType
  BY <1>1, <1>2 DEF RunType
<1>4. run.pc = "describe" /\ run.id[1] = "directory" /\ ~run.legacy
  BY <1>1 DEF RunType, DirectoryId
<1>5. Deciding(run) /\ Migrating(run)
  BY <1>1, <1>4 DEF Deciding, Undecided, Migrating
<1>6. Agreeing(run)
  BY <1>1 DEF Sound, Agreeing, Present, Found, RunType
<1>7. QED
  BY <1>1, <1>3, <1>4, <1>5, <1>6, ReadingStep DEF Outside, Resolved, Sound, RunType

LEMMA StartStep ==
  ASSUME ScopeInv, NEW r \in Runs, NEW d \in Directories, NEW writes \in BOOLEAN, StartRun(r, d, writes)
  PROVE  ScopeInv'
<1> DEFINE run == [NoRun EXCEPT !.pc = "locate", !.writes = writes, !.place = place, !.directory = d,
                                !.calm = ~crossed]
<1>1. run \in RunType /\ run.place \in Places /\ run.directory \in Directories
  BY DEF ScopeInv, ScopeTypeOK, NoRun, RunType, Ids
<1>2. Sound(run)
  BY DEF NoRun, Sound, Deciding, Undecided, Migrating, Agreeing
<1>3. QED
  BY <1>1, <1>2, ReadingStep DEF StartRun

LEMMA LocateStep ==
  ASSUME ScopeInv, NEW r \in Runs, Locate(r)
  PROVE  ScopeInv'
<1> DEFINE run == [runs[r] EXCEPT !.pc = "config"]
<1>1. /\ runs[r] \in RunType /\ runs[r].place \in Places /\ runs[r].directory \in Directories
      /\ Sound(runs[r]) /\ runs[r].pc = "locate"
  BY DEF ScopeInv, ScopeTypeOK, Locate
<1>2. CASE Found(r)
  <2>1. run \in RunType
    BY <1>1 DEF RunType
  <2>2. Sound(run)
    BY <1>1, <1>2 DEF RunType, Sound, Deciding, Undecided, Migrating, Agreeing, Found
  <2>3. QED
    BY <1>1, <1>2, <2>1, <2>2, ReadingStep DEF Locate, Enter, RunType
<1>3. CASE ~Found(r)
  BY <1>1, <1>3, OutsideStep DEF Locate
<1>4. QED
  BY <1>2, <1>3

LEMMA ReadIdStep ==
  ASSUME ScopeInv, NEW r \in Runs, ReadId(r)
  PROVE  ScopeInv'
<1> DEFINE run == [runs[r] EXCEPT !.pc = "legacy", !.id = config.id]
<1>1. /\ runs[r] \in RunType /\ runs[r].place \in Places /\ runs[r].directory \in Directories
      /\ Sound(runs[r]) /\ runs[r].pc = "config"
  BY DEF ScopeInv, ScopeTypeOK, ReadId
<1>2. CASE Found(r) /\ config.id # Malformed
  <2>1. run \in RunType
    BY <1>1 DEF RunType, ScopeInv, ScopeTypeOK, Ids
  <2>2. Sound(run)
    <3>1. run.id = config.id /\ run.pc = "legacy" /\ FoundBy(run)
      BY <1>1, <1>2 DEF RunType, Found, FoundBy
    <3>2. Deciding(run)
      BY <1>2, <3>1, UnsetAssumption DEF Deciding, Undecided
    <3>3. Migrating(run)
      BY <1>1, <1>2 DEF RunType, Sound, Migrating, Stored
    <3>4. Agreeing(run)
      BY <1>1, <1>2 DEF RunType, Sound, Agreeing, Found
    <3>5. QED
      BY <3>2, <3>3, <3>4 DEF Sound
  <2>3. QED
    BY <1>1, <1>2, <2>1, <2>2, ReadingStep DEF ReadId, RunType
<1>3. CASE ~Found(r)
  BY <1>1, <1>3, OutsideStep DEF ReadId
<1>4. CASE Found(r) /\ config.id = Malformed
  BY <1>4, FailStep DEF ReadId
<1>5. QED
  BY <1>2, <1>3, <1>4

(* A run that answers with the identity it has, which is stored.           *)
LEMMA ResolvedStep ==
  ASSUME ScopeInv, NEW r \in Runs, NEW id \in Ids, Resolved(r, id), UNCHANGED config,
         runs[r].pc # "idle", runs[r].writes => Stored /\ config.legacy # "exact",
         runs[r].calm => /\ place = runs[r].place /\ ~crossed /\ git
                         /\ id = IF config.id = Unset THEN DerivedBy(runs[r]) ELSE config.id
  PROVE  ScopeInv'
<1> DEFINE run == [runs[r] EXCEPT !.pc = "describe", !.id = id, !.legacy = FALSE]
<1>1. /\ runs[r] \in RunType /\ runs[r].place \in Places /\ runs[r].directory \in Directories
  BY DEF ScopeInv, ScopeTypeOK
<1>2. /\ run \in RunType /\ run.pc = "describe" /\ run.id = id /\ ~run.legacy
      /\ run.writes = runs[r].writes /\ run.calm = runs[r].calm
      /\ run.place = runs[r].place /\ run.directory = runs[r].directory
  BY <1>1 DEF RunType
<1>3. Deciding(run) /\ Migrating(run)
  BY <1>2 DEF Deciding, Undecided, Migrating
<1>4. Agreeing(run)
  BY <1>2 DEF Agreeing, Present, DerivedBy, FoundBy
<1>5. QED
  BY <1>1, <1>2, <1>3, <1>4, ReadingStep DEF Resolved, Sound

LEMMA ReadLegacyStep ==
  ASSUME ScopeInv, NEW r \in Runs, ReadLegacy(r)
  PROVE  ScopeInv'
<1> DEFINE exact == config.legacy = "exact"
           run == [runs[r] EXCEPT !.pc = AfterLegacy(runs[r], exact), !.legacy = exact /\ runs[r].id = Unset]
<1>1. /\ runs[r] \in RunType /\ runs[r].place \in Places /\ runs[r].directory \in Directories
      /\ Sound(runs[r]) /\ runs[r].pc = "legacy" /\ UNCHANGED config
  BY DEF ScopeInv, ScopeTypeOK, ReadLegacy
<1>2. CASE Found(r)
  <2>1. AfterLegacy(runs[r], exact) \in {"derive", "clean", "describe"}
    BY DEF AfterLegacy
  <2>2. /\ run \in RunType /\ run.pc = AfterLegacy(runs[r], exact) /\ run.id = runs[r].id
        /\ run.legacy = (exact /\ runs[r].id = Unset)
        /\ run.writes = runs[r].writes /\ run.calm = runs[r].calm
        /\ run.place = runs[r].place /\ run.directory = runs[r].directory
    BY <1>1, <2>1 DEF RunType
  <2>3. git /\ FoundBy(runs[r]) /\ FoundBy(run) /\ DerivedBy(run) = DerivedBy(runs[r])
    BY <1>2, <2>2 DEF FoundBy, Found, DerivedBy
  <2> HIDE DEF run
  <2>4. ASSUME runs[r].id = Unset PROVE Sound(run)
    <3>1. run.pc = "derive"
      BY <2>2, <2>4 DEF AfterLegacy
    <3>2. Deciding(run)
      BY <1>1, <2>2, <2>3, <2>4, <3>1 DEF Sound, Deciding, Undecided
    <3>3. Migrating(run)
      BY <2>2, <2>4, <3>1 DEF Migrating
    <3>4. Agreeing(run)
      BY <1>1, <2>2, <2>3, <2>4, <3>1 DEF Sound, Agreeing
    <3>5. QED
      BY <3>2, <3>3, <3>4 DEF Sound
  <2>5. ASSUME runs[r].id # Unset PROVE Sound(run)
    <3>1. run.pc = IF exact /\ runs[r].writes THEN "clean" ELSE "describe"
      BY <2>2, <2>5 DEF AfterLegacy
    <3>2. Deciding(run)
      BY <3>1 DEF Deciding, Undecided
    <3>3. Migrating(run)
      BY <1>1, <2>2, <2>5, <3>1 DEF Sound, Migrating
    <3>4. Agreeing(run)
      BY <1>1, <2>2, <2>3, <2>5, <3>1 DEF Sound, Agreeing
    <3>5. QED
      BY <3>2, <3>3, <3>4 DEF Sound
  <2>6. Sound(run)
    BY <2>4, <2>5
  <2>7. Become(r, run)
    BY <1>2 DEF ReadLegacy, run
  <2>8. QED
    BY <1>1, <2>2, <2>6, <2>7, ReadingStep
<1>3. CASE ~Found(r)
  BY <1>1, <1>3, OutsideStep DEF ReadLegacy
<1>4. QED
  BY <1>2, <1>3

LEMMA DeriveStep ==
  ASSUME ScopeInv, NEW r \in Runs, Derive(r)
  PROVE  ScopeInv'
<1> DEFINE run == [runs[r] EXCEPT !.pc = "persist", !.id = Derived(r)]
<1>1. /\ runs[r] \in RunType /\ runs[r].place \in Places /\ runs[r].directory \in Directories
      /\ Sound(runs[r]) /\ runs[r].pc = "derive" /\ UNCHANGED config
  BY DEF ScopeInv, ScopeTypeOK, Derive
<1>2. Derived(r) = DerivedBy(runs[r]) /\ DerivedBy(runs[r]) \in DerivedIds
  BY <1>1, FoundDerived, DerivedKnown DEF ScopeInv
<1>3. CASE runs[r].writes
  <2>1. /\ run \in RunType /\ run.pc = "persist" /\ run.id = DerivedBy(runs[r])
        /\ run.legacy = runs[r].legacy /\ run.writes /\ run.calm = runs[r].calm
        /\ run.place = runs[r].place /\ run.directory = runs[r].directory
    BY <1>1, <1>2, <1>3 DEF RunType, Ids
  <2>2. /\ FoundBy(run) <=> FoundBy(runs[r])
        /\ DerivedBy(run) = DerivedBy(runs[r])
    BY <2>1 DEF FoundBy, DerivedBy
  <2>3. Become(r, run)
    BY <1>3 DEF Derive
  <2> HIDE DEF run
  <2>4. Deciding(run)
    BY <1>1, <1>2, <1>3, <2>1, <2>2 DEF Sound, Deciding, Undecided
  <2>5. Migrating(run)
    BY <1>1, <2>1 DEF Sound, Migrating
  <2>6. Agreeing(run)
    BY <1>1, <2>1, <2>2 DEF Sound, Agreeing
  <2>7. QED
    BY <1>1, <2>1, <2>3, <2>4, <2>5, <2>6, ReadingStep DEF Sound
<1>4. CASE ~runs[r].writes
  <2>1. Resolved(r, Derived(r)) /\ Derived(r) \in Ids
    BY <1>2, <1>4 DEF Derive, Ids
  <2>2. runs[r].calm => /\ place = runs[r].place /\ ~crossed /\ git
                        /\ Derived(r) = IF config.id = Unset THEN DerivedBy(runs[r]) ELSE config.id
    BY <1>1, <1>2 DEF Sound, Agreeing
  <2>3. QED
    BY <1>1, <1>4, <2>1, <2>2, ResolvedStep
<1>5. QED
  BY <1>1, <1>3, <1>4 DEF RunType

LEMMA DescribeStep ==
  ASSUME ScopeInv, NEW r \in Runs, Describe(r)
  PROVE  ScopeInv'
<1> DEFINE named == [runs[r] EXCEPT !.pc = "name"]
           alone == [runs[r] EXCEPT !.pc = "done", !.name = DirectoryId(runs[r].place, runs[r].directory)]
<1>1. /\ runs[r] \in RunType /\ runs[r].place \in Places /\ runs[r].directory \in Directories
      /\ Sound(runs[r]) /\ runs[r].pc = "describe" /\ UNCHANGED config
  BY DEF ScopeInv, ScopeTypeOK, Describe
<1>2. CASE Found(r)
  <2>1. named \in RunType
    BY <1>1 DEF RunType
  <2>2. Sound(named)
    BY <1>1, <1>2 DEF RunType, Sound, Deciding, Undecided, Migrating, Agreeing, Found, Present, DerivedBy, FoundBy
  <2>3. QED
    BY <1>1, <1>2, <2>1, <2>2, ReadingStep DEF Describe, Enter, RunType
<1>3. CASE ~Found(r)
  <2>1. DirectoryId(runs[r].place, runs[r].directory) \in Ids
    BY <1>1 DEF Ids, DirectoryIds
  <2>2. alone \in RunType
    BY <1>1, <2>1 DEF RunType, Over
  <2>3. Sound(alone)
    BY <1>1, <1>3 DEF RunType, Sound, Deciding, Undecided, Migrating, Agreeing, Found, Present, DerivedBy, FoundBy
  <2>4. QED
    BY <1>1, <1>3, <2>2, <2>3, ReadingStep DEF Describe, RunType
<1>4. QED
  BY <1>2, <1>3

LEMMA NameStep ==
  ASSUME ScopeInv, NEW r \in Runs, Name(r)
  PROVE  ScopeInv'
<1> DEFINE run == [runs[r] EXCEPT !.pc = "done", !.name = Derived(r)]
<1>1. /\ runs[r] \in RunType /\ runs[r].place \in Places /\ runs[r].directory \in Directories
      /\ Sound(runs[r]) /\ runs[r].pc = "name" /\ UNCHANGED config
  BY DEF ScopeInv, ScopeTypeOK, Name
<1>2. Derived(r) = DerivedBy(runs[r]) /\ DerivedBy(runs[r]) \in DerivedIds
  BY <1>1, FoundDerived, DerivedKnown DEF ScopeInv
<1>3. run \in RunType
  BY <1>1, <1>2 DEF RunType, Over, Ids
<1>4. Sound(run)
  BY <1>1, <1>2 DEF RunType, Sound, Deciding, Undecided, Migrating, Agreeing, Present, DerivedBy, FoundBy
<1>5. QED
  BY <1>1, <1>3, <1>4, ReadingStep DEF Name, RunType

(* Storing an identity decides for every run that may yet store one, and   *)
(* for every run that the user left alone.                                 *)
LEMMA PersistedStep ==
  ASSUME ScopeInv, NEW r \in Runs, Persist(r), Found(r)
  PROVE  ScopeInv'
<1> DEFINE run == [runs[r] EXCEPT !.pc = "verify"]
<1>1. /\ runs[r] \in RunType /\ runs[r].place \in Places /\ runs[r].directory \in Directories
      /\ Sound(runs[r]) /\ runs[r].pc = "persist" /\ Become(r, run)
      /\ config' = [config EXCEPT !.id = runs[r].id]
  BY DEF ScopeInv, ScopeTypeOK, Persist, Enter
<1>2. /\ runs'[r] = run
      /\ \A q \in Runs \ {r} : runs'[q] = runs[q]
      /\ UNCHANGED <<git, place, remotes>> /\ SoleRemote' = SoleRemote
      /\ crossed' => crossed
      /\ \A q \in Runs : Undecided(runs'[q]) => crossed' = crossed
  BY <1>1, StepOf
<1>3. /\ runs[r].writes /\ Undecided(runs[r]) /\ FoundBy(runs[r])
      /\ runs[r].id \in DerivedIds
      /\ ~crossed => runs[r].id = DerivedBy(runs[r])
      /\ ~crossed => config.id \in {Unset, DerivedBy(runs[r])}
  BY <1>1, FoundDerived DEF Sound, Migrating, Deciding, Undecided
<1>4. /\ run \in RunType /\ run.pc = "verify" /\ run.id = runs[r].id
      /\ run.legacy = runs[r].legacy /\ run.writes /\ run.calm = runs[r].calm
      /\ run.place = runs[r].place /\ run.directory = runs[r].directory
  BY <1>1, <1>3 DEF RunType
<1> HIDE DEF run
<1>5. /\ config'.id = runs[r].id /\ config'.legacy = config.legacy
      /\ config' \in [id : {Unset} \cup InitialIds \cup DerivedIds, legacy : {"unset", "exact", "other"}]
      /\ config'.id \notin {Unset, Malformed}
  BY <1>1, <1>3, UnsetAssumption DEF ScopeInv, ScopeTypeOK
<1>6. ScopeTypeOK'
  <2>1. runs' \in [Runs -> RunType] /\ crossed' \in BOOLEAN
    BY <1>1, <1>4 DEF ScopeInv, ScopeTypeOK, Become
  <2>2. \A q \in Runs : runs'[q].pc # "idle" => runs'[q].place \in Places /\ runs'[q].directory \in Directories
    BY <1>1, <1>2, <1>4 DEF ScopeInv, ScopeTypeOK
  <2>3. QED
    BY <1>2, <1>5, <2>1, <2>2 DEF ScopeInv, ScopeTypeOK
<1>7. Sound(runs[r])'
  <2>1. PICK s : s = run
    OBVIOUS
  <2>2. Deciding(s)' /\ Migrating(s)'
    BY <1>1, <1>4, <1>5, <2>1 DEF Sound, Deciding, Undecided, Migrating, Stored
  <2>3. Agreeing(s)'
    BY <1>1, <1>2, <1>4, <1>5, <2>1 DEF Sound, Agreeing
  <2>4. QED
    BY <1>2, <2>1, <2>2, <2>3 DEF Sound
<1>8. ASSUME NEW q \in Runs \ {r}
      PROVE  Sound(runs[q])'
  <2>1. PICK s : s = runs[q]
    OBVIOUS
  <2>2. Sound(s) /\ (Undecided(s) => crossed' = crossed)
    BY <1>2, <2>1 DEF ScopeInv
  <2>3. FoundBy(s) => DerivedBy(s) = DerivedBy(runs[r])
    BY <1>3, SameDerived
  <2>4. DerivedBy(s)' = DerivedBy(s) /\ (FoundBy(s)' <=> FoundBy(s))
    BY <1>2 DEF DerivedBy, FoundBy
  <2>5. Deciding(s)'
    BY <1>2, <1>3, <1>5, <2>2, <2>3, <2>4 DEF Sound, Deciding, Undecided
  <2>6. Migrating(s)'
    BY <1>5, <2>2 DEF Sound, Migrating, Stored
  <2>7. Agreeing(s)'
    <3>1. SUFFICES ASSUME s.calm PROVE Agreeing(s)'
      BY DEF Agreeing
    <3>2. /\ ~crossed /\ git /\ FoundBy(s) /\ DerivedBy(s) = DerivedBy(runs[r])
          /\ Present(s) = DerivedBy(s) /\ Present(s)' = DerivedBy(s)
      BY <1>2, <1>3, <2>2, <2>3, <2>4, <3>1 DEF Sound, Agreeing, FoundBy, Present
    <3>3. config'.id = DerivedBy(s) /\ config.id \in {Unset, DerivedBy(s)}
      BY <1>3, <1>5, <3>2
    <3>4. QED
      BY <1>2, <1>5, <2>2, <2>4, <3>1, <3>2, <3>3 DEF Sound, Agreeing, Migrating, Stored
  <2>8. QED
    BY <1>2, <2>1, <2>5, <2>6, <2>7 DEF Sound
<1>9. (~git => config.id = Unset)'
  BY <1>2, <1>3 DEF FoundBy
<1>10. QED
  BY <1>6, <1>7, <1>8, <1>9 DEF ScopeInv

LEMMA VerifyStep ==
  ASSUME ScopeInv, NEW r \in Runs, Verify(r)
  PROVE  ScopeInv'
<1> DEFINE run == [runs[r] EXCEPT !.pc = "clean"]
<1>1. /\ runs[r] \in RunType /\ runs[r].place \in Places /\ runs[r].directory \in Directories
      /\ Sound(runs[r]) /\ runs[r].pc = "verify" /\ UNCHANGED config
  BY DEF ScopeInv, ScopeTypeOK, Verify
<1>2. CASE ~Found(r) \/ config.id # runs[r].id
  BY <1>1, <1>2, FailStep DEF Verify
<1>3. CASE Found(r) /\ config.id = runs[r].id /\ runs[r].legacy
  <2>1. run \in RunType
    BY <1>1 DEF RunType
  <2>2. Sound(run)
    BY <1>1, <1>3 DEF RunType, Sound, Deciding, Undecided, Migrating, Agreeing, Stored
  <2>3. QED
    BY <1>1, <1>3, <2>1, <2>2, ReadingStep DEF Verify, Enter, RunType
<1>4. CASE Found(r) /\ config.id = runs[r].id /\ ~runs[r].legacy
  <2>1. Resolved(r, runs[r].id)
    BY <1>4 DEF Verify
  <2>2. runs[r].id \in Ids /\ runs[r].pc # "idle" /\ Stored /\ config.legacy # "exact"
    BY <1>1, <1>4 DEF RunType, Sound, Migrating
  <2>3. runs[r].calm => /\ place = runs[r].place /\ ~crossed /\ git
                        /\ runs[r].id = IF config.id = Unset THEN DerivedBy(runs[r]) ELSE config.id
    BY <1>1, <1>4, <2>2 DEF Sound, Agreeing, Stored
  <2>4. QED
    BY <1>1, <2>1, <2>2, <2>3, ResolvedStep
<1>5. QED
  BY <1>2, <1>3, <1>4

LEMMA PersistStep ==
  ASSUME ScopeInv, NEW r \in Runs, Persist(r)
  PROVE  ScopeInv'
BY PersistedStep, FailStep DEF Persist

(* Removing the old key, which a stored identity has made useless.         *)
LEMMA CleanStep ==
  ASSUME ScopeInv, NEW r \in Runs, Clean(r)
  PROVE  ScopeInv'
<1>1. CASE Found(r) /\ config.legacy # "unset"
  <2> DEFINE run == [runs[r] EXCEPT !.pc = "describe", !.id = runs[r].id, !.legacy = FALSE]
  <2>1. /\ runs[r] \in RunType /\ runs[r].place \in Places /\ runs[r].directory \in Directories
        /\ Sound(runs[r]) /\ runs[r].pc = "clean" /\ Become(r, run)
        /\ config' = [config EXCEPT !.legacy = "unset"]
    BY <1>1 DEF ScopeInv, ScopeTypeOK, Clean, Resolved
  <2>2. /\ runs'[r] = run
        /\ \A q \in Runs \ {r} : runs'[q] = runs[q]
        /\ UNCHANGED <<git, place, remotes>> /\ SoleRemote' = SoleRemote
        /\ crossed' => crossed
        /\ \A q \in Runs : Undecided(runs'[q]) => crossed' = crossed
    BY <2>1, StepOf
  <2>3. /\ run \in RunType /\ run.pc = "describe" /\ run.id = runs[r].id /\ ~run.legacy
        /\ run.writes = runs[r].writes /\ run.calm = runs[r].calm
        /\ run.place = runs[r].place /\ run.directory = runs[r].directory
    BY <2>1 DEF RunType
  <2> HIDE DEF run
  <2>4. /\ config'.id = config.id /\ config'.legacy = "unset"
        /\ config' \in [id : {Unset} \cup InitialIds \cup DerivedIds, legacy : {"unset", "exact", "other"}]
    BY <2>1 DEF ScopeInv, ScopeTypeOK
  <2>5. ScopeTypeOK'
    <3>1. runs' \in [Runs -> RunType] /\ crossed' \in BOOLEAN
      BY <2>1, <2>3 DEF ScopeInv, ScopeTypeOK, Become
    <3>2. \A q \in Runs : runs'[q].pc # "idle" => runs'[q].place \in Places /\ runs'[q].directory \in Directories
      BY <2>1, <2>2, <2>3 DEF ScopeInv, ScopeTypeOK
    <3>3. QED
      BY <2>2, <2>4, <3>1, <3>2 DEF ScopeInv, ScopeTypeOK
  <2>6. Sound(runs[r])'
    <3>1. PICK s : s = run
      OBVIOUS
    <3>2. Stored /\ Stored' /\ config.id # Unset
      BY <2>1, <2>4 DEF Sound, Migrating, Stored
    <3>3. Deciding(s)' /\ Migrating(s)'
      BY <2>3, <2>4, <3>1, <3>2 DEF Deciding, Undecided, Migrating
    <3>4. Agreeing(s)'
      BY <2>1, <2>2, <2>3, <2>4, <3>1, <3>2 DEF Sound, Agreeing
    <3>5. QED
      BY <2>2, <3>1, <3>3, <3>4 DEF Sound
  <2>7. ASSUME NEW q \in Runs \ {r}
        PROVE  Sound(runs[q])'
    <3>1. PICK s : s = runs[q]
      OBVIOUS
    <3>2. Sound(s) /\ (Undecided(s) => crossed' = crossed)
      BY <2>2, <3>1 DEF ScopeInv
    <3>3. Sound(s)'
      BY <2>2, <2>4, <3>2, SoundStays DEF ScopeInv, ScopeTypeOK
    <3>4. QED
      BY <2>2, <3>1, <3>3
  <2>8. (~git => config.id = Unset)'
    BY <2>2, <2>4 DEF ScopeInv
  <2>9. QED
    BY <2>5, <2>6, <2>7, <2>8 DEF ScopeInv
<1>2. CASE ~(Found(r) /\ config.legacy # "unset")
  BY <1>2, FailStep DEF Clean
<1>3. QED
  BY <1>1, <1>2

(* What the user does interferes with every run.                           *)
LEMMA ChangeStep ==
  ASSUME ScopeInv, Change, git' \in BOOLEAN, place' \in Places, git => git',
         remotes' \in [RemoteNames -> {NoUrl} \cup Urls]
  PROVE  ScopeInv'
<1>1. /\ UNCHANGED config
      /\ crossed' = \E r \in Runs : Undecided(runs[r])
      /\ \A r \in Runs : runs'[r] = [runs[r] EXCEPT !.calm = FALSE]
      /\ runs' = [r \in Runs |-> [runs[r] EXCEPT !.calm = FALSE]]
      /\ \A r \in Runs : runs[r] \in RunType /\ Sound(runs[r])
  BY DEF Change, ScopeInv, ScopeTypeOK
<1>2. \A r \in Runs :
         /\ runs'[r] \in RunType /\ ~runs'[r].calm
         /\ runs'[r].pc = runs[r].pc /\ runs'[r].id = runs[r].id /\ runs'[r].writes = runs[r].writes
         /\ runs'[r].legacy = runs[r].legacy
         /\ runs'[r].place = runs[r].place /\ runs'[r].directory = runs[r].directory
  BY <1>1 DEF RunType
<1>3. ScopeTypeOK'
  <2>1. runs' \in [Runs -> RunType]
    BY <1>1, <1>2
  <2>2. crossed' \in BOOLEAN
    BY <1>1
  <2>3. QED
    BY <1>1, <1>2, <2>1, <2>2 DEF ScopeInv, ScopeTypeOK
<1>4. ASSUME NEW r \in Runs
      PROVE  Sound(runs[r])'
  <2>1. PICK s : s = runs'[r]
    OBVIOUS
  <2>2. Undecided(s) => crossed'
    BY <1>1, <1>2, <2>1 DEF Undecided
  <2>3. Deciding(s)'
    BY <1>1, <1>2, <2>1, <2>2 DEF Sound, Deciding, Undecided
  <2>4. Migrating(s)'
    BY <1>1, <1>2, <2>1 DEF Sound, Migrating, Stored
  <2>5. Agreeing(s)'
    BY <1>2, <2>1 DEF Agreeing
  <2>6. QED
    BY <2>1, <2>3, <2>4, <2>5 DEF Sound
<1>5. QED
  BY <1>1, <1>3, <1>4 DEF ScopeInv

LEMMA ScopeStep == ScopeInv /\ [ScopeNext]_scopeVars => ScopeInv'
<1> SUFFICES ASSUME ScopeInv, [ScopeNext]_scopeVars PROVE ScopeInv'
  OBVIOUS
<1>1. ASSUME NEW r \in Runs, Locate(r) \/ ReadId(r) \/ ReadLegacy(r) \/ Derive(r) PROVE ScopeInv'
  BY <1>1, LocateStep, ReadIdStep, ReadLegacyStep, DeriveStep
<1>2. ASSUME NEW r \in Runs, Persist(r) \/ Verify(r) \/ Clean(r) PROVE ScopeInv'
  BY <1>2, PersistStep, VerifyStep, CleanStep
<1>3. ASSUME NEW r \in Runs, Describe(r) \/ Name(r) \/ Interrupted(r) PROVE ScopeInv'
  BY <1>3, DescribeStep, NameStep, FailStep DEF Interrupted
<1>4. ASSUME NEW r \in Runs, NEW d \in Directories, NEW writes \in BOOLEAN, StartRun(r, d, writes) PROVE ScopeInv'
  BY <1>4, StartStep
<1>5. CASE Initialize
  BY <1>5, ChangeStep DEF Initialize, ScopeInv, ScopeTypeOK
<1>6. ASSUME NEW n \in RemoteNames, NEW url \in {NoUrl} \cup Urls, SetRemote(n, url) PROVE ScopeInv'
  BY <1>6, ChangeStep DEF SetRemote, ScopeInv, ScopeTypeOK
<1>7. ASSUME NEW p \in Places, Move(p) PROVE ScopeInv'
  BY <1>7, ChangeStep DEF Move, ScopeInv, ScopeTypeOK
<1>8. CASE UNCHANGED scopeVars
  <2>1. ASSUME NEW r \in Runs PROVE Sound(runs[r])'
    <3>1. PICK s : s = runs[r]
      OBVIOUS
    <3>2. Sound(s)'
      BY <1>8, <3>1, SoundStays DEF ScopeInv, ScopeTypeOK, scopeVars
    <3>3. QED
      BY <1>8, <3>1, <3>2 DEF scopeVars
  <2>2. QED
    BY <1>8, <2>1 DEF scopeVars, ScopeInv, ScopeTypeOK
<1>9. QED
  BY <1>1, <1>2, <1>3, <1>4, <1>5, <1>6, <1>7, <1>8 DEF ScopeNext

LEMMA ScopeInitially == ScopeInit => ScopeInv
<1> SUFFICES ASSUME ScopeInit PROVE ScopeInv
  OBVIOUS
<1>1. NoRun \in RunType
  BY DEF NoRun, RunType, Over, Ids
<1>2. Sound(NoRun)
  BY DEF NoRun, Sound, Deciding, Undecided, Migrating, Agreeing
<1>3. ScopeTypeOK
  BY <1>1 DEF ScopeInit, ScopeTypeOK, NoRun
<1>4. QED
  BY <1>2, <1>3 DEF ScopeInit, ScopeInv

(* The two keys, what each command has seen of them and what it answers    *)
(* satisfy an inductive invariant, for any number of commands at any of    *)
(* their git processes, whatever the user or a crash does between two.     *)
THEOREM ScopeInvariant == ScopeSpec => []ScopeInv
BY ScopeInitially, ScopeStep, PTL DEF ScopeSpec

(* Commands that run while the user leaves the repository alone agree on   *)
(* its identity (scope.rs:316, commands/targets.rs:39).                    *)
THEOREM ScopeRunsAgree == ScopeSpec => []RunsAgree
<1>1. ASSUME ScopeInv, NEW r \in Runs, runs[r].pc = "done", runs[r].calm
      PROVE  LET present == IF git THEN Derived(r) ELSE DirectoryId(place, runs[r].directory)
             IN  /\ runs[r].name = present
                 /\ runs[r].id = IF config.id = Unset THEN present ELSE config.id
  BY <1>1, FoundDerived DEF ScopeInv, Sound, Agreeing, Present
<1>2. ScopeInv => RunsAgree
  BY <1>1 DEF RunsAgree
<1>3. QED
  BY <1>2, ScopeInvariant, PTL

(* An answer that came out of the repository is stored in it, and the old  *)
(* key is gone, whatever died before (scope.rs:328).                       *)
THEOREM ScopeMigrationFinished == ScopeSpec => []MigrationFinished
<1>1. ScopeInv => MigrationFinished
  BY DEF ScopeInv, Sound, Migrating, MigrationFinished, Stored
<1>2. QED
  BY <1>1, ScopeInvariant, PTL

(* A stored identity is replaced only where the user crossed a run that    *)
(* had decided already, and never if it cannot be read (scope.rs:335).     *)
THEOREM ScopeStoredOnce == ScopeSpec => StoredOnce
<1>1. ASSUME ScopeInv, NEW r \in Runs, Persist(r), config.id # Unset, config'.id # config.id
      PROVE  crossed /\ config.id # Malformed
  <2>1. Found(r) /\ runs[r].pc = "persist" /\ config'.id = runs[r].id /\ runs[r].writes
    BY <1>1 DEF Persist, Fail, ScopeInv, ScopeTypeOK, Sound, Migrating
  <2>2. Undecided(runs[r]) /\ Deciding(runs[r])
    BY <2>1, <1>1 DEF Undecided, ScopeInv, Sound
  <2>3. QED
    BY <1>1, <2>1, <2>2 DEF Deciding
<1>2. ASSUME ScopeInv, NEW r \in Runs, Clean(r)
      PROVE  config'.id = config.id
  BY <1>2 DEF Clean, ScopeInv, ScopeTypeOK
<1>3. ASSUME [ScopeNext]_scopeVars, \A r \in Runs : ~Persist(r) /\ ~Clean(r)
      PROVE  UNCHANGED config
  BY <1>3 DEF ScopeNext, scopeVars, Locate, ReadId, ReadLegacy, Derive, Verify, Describe, Name,
              Interrupted, StartRun, Initialize, SetRemote, Move, Change
<1>4. ScopeInv /\ [ScopeNext]_scopeVars =>
        (config.id # Unset /\ config'.id # config.id => crossed /\ config.id # Malformed)
  BY <1>1, <1>2, <1>3
<1>5. QED
  BY <1>4, ScopeInvariant, PTL DEF ScopeSpec, StoredOnce

(* The old key goes only after an identity is stored, and only an old key  *)
(* of the form that was once written (scope.rs:425).                       *)
THEOREM ScopeOldKeyLast == ScopeSpec => OldKeyLast
<1>1. ASSUME ScopeInv, NEW r \in Runs, Clean(r), config'.legacy # config.legacy
      PROVE  config.legacy = "exact" /\ config.id \notin {Unset, Malformed}
  BY <1>1 DEF Clean, ScopeInv, ScopeTypeOK, Sound, Migrating, Stored
<1>2. ASSUME ScopeInv, NEW r \in Runs, Persist(r)
      PROVE  config'.legacy = config.legacy
  BY <1>2 DEF Persist, ScopeInv, ScopeTypeOK
<1>3. ASSUME [ScopeNext]_scopeVars, \A r \in Runs : ~Persist(r) /\ ~Clean(r)
      PROVE  UNCHANGED config
  BY <1>3 DEF ScopeNext, scopeVars, Locate, ReadId, ReadLegacy, Derive, Verify, Describe, Name,
              Interrupted, StartRun, Initialize, SetRemote, Move, Change
<1>4. ScopeInv /\ [ScopeNext]_scopeVars =>
        (config'.legacy # config.legacy => config.legacy = "exact" /\ config.id \notin {Unset, Malformed})
  BY <1>1, <1>2, <1>3
<1>5. QED
  BY <1>4, ScopeInvariant, PTL DEF ScopeSpec, OldKeyLast
=============================================================================
