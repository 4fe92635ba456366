-------------------------- MODULE PluginRecallProofs --------------------------
(***************************************************************************)
(* What a hook adds to a message was asked for by its session.             *)
(*                                                                         *)
(* The first part says when a World is Sound: what its objects remember,   *)
(* its hooks wait for and its calls search are terms that the session      *)
(* asked for, by a history h of what was asked until now and in this step. *)
(* The second says of each operator that it keeps a World Sound, for a     *)
(* history that already has what the step asks for.  The third takes       *)
(* every step of the plugin from one state's history to the next (AskInv). *)
(***************************************************************************)
EXTENDS PluginSessionsProofs
LOCAL INSTANCE SequencesExt

-----------------------------------------------------------------------------
(* What is recalled.                                                       *)

\* The slots of hooks K, which have sent their recall and send no other.
Spent(K) == {<<x, "own">> : x \in K}

\* A recall that a session object remembers asks for terms in S.
EntrySound(w, e, S, K) ==
  IF e.slot = Nothing THEN e.receipt # Nothing => e.receipt.terms \in S
  ELSE e.slot \in Spent(K) /\ w.requests[e.slot].terms \in S
CacheSound(w, e, S, K) == e # Nothing => EntrySound(w, e, S, K)

\* By history h: the terms that sessions asked for, their messages so far, and
\* the objects that were listed when the step began, which only lists others
\* of one session.
ObjectSound(w, o, h, K) ==
  LET b == w.objects[o] IN
  /\ b.session \in Sessions
  /\ o \in h.listed \/ b.session = h.session
  /\ b.terms \in h.asked[b.session] \cup {Undefined}
  /\ b.message \in (1..h.latest[b.session]) \cup {Undefined, Label}
  /\ CacheSound(w, b.cache, h.asked[b.session], K)

\* A hook under way is for a message of its session, whose object it holds.
HookHolds(w, x, h) ==
  LET t == w.tasks[x] IN
  Pending(w, x) =>
    /\ t.message \in 1..h.latest[t.session]
    /\ t.object \in Objects /\ t.session \in Sessions
    /\ w.objects[t.object].session = t.session
    /\ t.generation \in Nat /\ t.generation <= w.objects[t.object].generation
HookSound(w, x, h, K) ==
  LET t == w.tasks[x] IN
  /\ HookHolds(w, x, h)
  /\ t.receipt # Nothing => t.pc = "recording"
  /\ t.pc = "recalling" /\ Fresh(w, x) =>
       t.slot \in Spent(K) /\ w.requests[t.slot].terms \in h.asked[t.session]
  /\ t.pc = "recording" /\ t.receipt # Nothing /\ Fresh(w, x) =>
       t.receipt.terms \in h.asked[t.session]

CallSound(w, c) ==
  w.tasks[c].pc = "searching" =>
    /\ w.tasks[c].slot = <<c, "own">>
    /\ w.requests[<<c, "own">>].terms = w.tasks[c].terms

\* A generation is a number.
Whole(w) ==
  /\ Shape(w) /\ Mapped(w)
  /\ \A o \in Objects : w.objects[o].generation \in Nat \ {0}

\* Nothing wrong is recalled, by any of the tasks T.
Sound(w, h, T, K) ==
  /\ Whole(w)
  /\ \A o \in In(w) : ObjectSound(w, o, h, K)
  /\ \A x \in Transforms \cap T : HookSound(w, x, h, K)
  /\ \A c \in Calls \cap T : CallSound(w, c)

\* No object comes back, changes its session or loses a generation.
Later(w, v) ==
  \A o \in Objects : w.objects[o].session # Nothing =>
    /\ v.objects[o].session = w.objects[o].session
    /\ o \in In(v) => o \in In(w)
    /\ v.objects[o].generation >= w.objects[o].generation

\* What was asked in the slots that matter to hooks K and tasks T is there.
AsksOn(w, v, T, K) ==
  \A i \in Spent(K) \cup {<<c, "own">> : c \in Calls \cap T} : v.requests[i].terms = w.requests[i].terms

LEMMA KeptTerms ==
  ASSUME NEW r, NEW q, r # Nothing => IsRequest(r), Kept(r, q)
  PROVE  q.terms = r.terms
<1>1. CASE q = r
  BY <1>1
<1>2. CASE q = Stopped(r) /\ q # r
  <2>1. Live(r)
    BY <1>2 DEF Stopped
  <2>2. IsRequest(r)
    BY <2>1 DEF Live, Running
  <2>3. QED
    BY <1>2, <2>1, <2>2 DEF Stopped, IsRequest, RequestFields
<1>3. QED
  BY <1>1, <1>2 DEF Kept

LEMMA KeptAsks ==
  ASSUME NEW w, NEW v, Shape(w), \A i \in Slots : Kept(w.requests[i], v.requests[i]),
         NEW T, NEW K \in SUBSET Transforms
  PROVE  AsksOn(w, v, T, K)
<1>1. \A i \in Spent(K) \cup {<<c, "own">> : c \in Calls \cap T} : i \in Slots
  BY SlotsAssumption DEF Spent, Tasks
<1>2. \A i \in Slots : v.requests[i].terms = w.requests[i].terms
  BY KeptTerms DEF Shape
<1>3. QED
  BY <1>1, <1>2 DEF AsksOn

LEMMA ObjectFramed ==
  ASSUME NEW w, NEW v, NEW h, NEW T, NEW K, NEW L, K \subseteq L, AsksOn(w, v, T, K),
         NEW o, ObjectSound(w, o, h, K),
         v.objects[o].session = w.objects[o].session,
         v.objects[o].terms = w.objects[o].terms,
         v.objects[o].message = w.objects[o].message,
         v.objects[o].cache = w.objects[o].cache \/ v.objects[o].cache = Nothing
  PROVE  ObjectSound(v, o, h, L)
<1>1. Spent(K) \subseteq Spent(L)
  BY DEF Spent
<1>2. CacheSound(v, v.objects[o].cache, h.asked[v.objects[o].session], L)
  BY <1>1 DEF ObjectSound, CacheSound, EntrySound, AsksOn
<1>3. QED
  BY <1>2 DEF ObjectSound

LEMMA HookFramed ==
  ASSUME NEW w, NEW v, NEW h, NEW T, NEW K, NEW L, K \subseteq L, AsksOn(w, v, T, K),
         Later(w, v), Whole(w), Whole(v), NEW x, HookSound(w, x, h, K), v.tasks[x] = w.tasks[x]
  PROVE  HookSound(v, x, h, L)
<1> DEFINE t == w.tasks[x]
           o == t.object
<1>1. Spent(K) \subseteq Spent(L)
  BY DEF Spent
<1>2. ASSUME Pending(w, x)
      PROVE  /\ o \in Objects /\ t.session \in Sessions /\ t.session # Nothing
             /\ v.objects[o].session = t.session
             /\ t.generation \in Nat /\ t.generation <= w.objects[o].generation
             /\ w.objects[o].generation \in Nat /\ v.objects[o].generation \in Nat
             /\ w.objects[o].generation <= v.objects[o].generation
             /\ o \in In(v) => o \in In(w)
  <2>1. /\ o \in Objects /\ t.session \in Sessions
        /\ w.objects[o].session = t.session
        /\ t.generation \in Nat /\ t.generation <= w.objects[o].generation
    BY <1>2 DEF HookSound, HookHolds
  <2>2. t.session # Nothing
    BY <2>1, NothingAssumption
  <2>3. w.objects[o].generation \in Nat /\ v.objects[o].generation \in Nat
    BY <2>1 DEF Whole
  <2>4. QED
    BY <2>1, <2>2, <2>3 DEF Later
<1>3. Pending(w, x) /\ Fresh(v, x) => Fresh(w, x)
  <2> SUFFICES ASSUME Pending(w, x), Fresh(v, x) PROVE Fresh(w, x)
    OBVIOUS
  <2>1. o \in In(v) /\ t.generation = v.objects[o].generation
    BY DEF Fresh
  <2>2. o \in In(w) /\ t.generation = w.objects[o].generation
    BY <1>2, <2>1
  <2>3. QED
    BY <2>2 DEF Fresh
<1>4. Pending(v, x) =>
        /\ o \in Objects /\ t.session \in Sessions
        /\ v.objects[o].session = t.session
        /\ t.generation \in Nat /\ t.generation <= v.objects[o].generation
  BY <1>2 DEF Pending
<1>5. t.receipt # Nothing => t.pc = "recording"
  BY DEF HookSound
<1>6. Pending(v, x) => t.message \in 1..h.latest[t.session]
  BY DEF HookSound, HookHolds, Pending
<1>7. t.pc = "recalling" /\ Fresh(v, x) =>
       t.slot \in Spent(L) /\ v.requests[t.slot].terms \in h.asked[t.session]
  <2>1. t.pc = "recalling" => Pending(w, x)
    BY DEF Pending
  <2>2. QED
    BY <1>1, <1>3, <2>1 DEF HookSound, AsksOn
<1>8. t.pc = "recording" /\ t.receipt # Nothing /\ Fresh(v, x) =>
       t.receipt.terms \in h.asked[t.session]
  <2>1. t.pc = "recording" => Pending(w, x)
    BY DEF Pending
  <2>2. QED
    BY <1>3, <2>1 DEF HookSound
<1>9. QED
  BY <1>4, <1>5, <1>6, <1>7, <1>8 DEF HookSound, HookHolds

\* Nothing of what matters changes, but perhaps some objects.
LEMMA Framed ==
  ASSUME NEW w, NEW v, NEW h, NEW T, NEW K, NEW L, K \subseteq L, AsksOn(w, v, T, K),
         Sound(w, h, T, K), Later(w, v), Whole(v),
         \A o \in In(v) : \/ ObjectSound(v, o, h, L)
                          \/ /\ o \in In(w)
                             /\ v.objects[o].session = w.objects[o].session
                             /\ v.objects[o].terms = w.objects[o].terms
                             /\ v.objects[o].message = w.objects[o].message
                             /\ v.objects[o].cache = w.objects[o].cache \/ v.objects[o].cache = Nothing,
         \A t \in Tasks \cap T : v.tasks[t] = w.tasks[t]
  PROVE  Sound(v, h, T, L)
<1>1. Whole(w)
  BY DEF Sound
<1>2. \A o \in In(v) : ObjectSound(v, o, h, L)
  BY ObjectFramed DEF Sound
<1>3. \A x \in Transforms \cap T : HookSound(v, x, h, L)
  BY <1>1, HookFramed DEF Sound, Tasks
<1>4. \A c \in Calls \cap T : CallSound(v, c)
  BY DEF Sound, CallSound, AsksOn, Tasks
<1>5. QED
  BY <1>2, <1>3, <1>4 DEF Sound

\* A step of tasks that nothing is said of.
LEMMA TasksSound ==
  ASSUME NEW w, NEW v, NEW h, NEW T, NEW K, Sound(w, h, T, K), Shape(v),
         v.objects = w.objects, v.sessions = w.sessions, v.disposed = w.disposed,
         v.requests = w.requests, \A t \in Tasks \cap T : v.tasks[t] = w.tasks[t]
  PROVE  Sound(v, h, T, K)
<1>1. Whole(v) /\ In(v) = In(w)
  <2>1. Mapped(w)
    BY DEF Sound, Whole
  <2>2. Same(w, v)
    BY <2>1, SameObjects
  <2>3. Mapped(v) /\ In(v) = In(w)
    BY <2>1, <2>2, SameMapped
  <2>4. QED
    BY <2>3 DEF Sound, Whole
<1>2. Later(w, v)
  BY <1>1 DEF Later, Sound, Whole
<1>3. AsksOn(w, v, T, K)
  BY DEF AsksOn
<1>4. QED
  BY <1>1, <1>2, <1>3, Framed

\* Requests that are stopped.
LEMMA StopsSound ==
  ASSUME NEW w, NEW v, NEW h, NEW T, NEW K \in SUBSET Transforms, Sound(w, h, T, K),
         Calm(w, v), v.objects = w.objects, v.sessions = w.sessions, v.disposed = w.disposed
  PROVE  Sound(v, h, T, K)
<1>1. Whole(v) /\ In(v) = In(w)
  <2>1. Mapped(w)
    BY DEF Sound, Whole
  <2>2. Same(w, v)
    BY <2>1, SameObjects
  <2>3. Mapped(v) /\ In(v) = In(w)
    BY <2>1, <2>2, SameMapped
  <2>4. QED
    BY <2>3 DEF Sound, Whole, Calm
<1>2. Later(w, v)
  BY <1>1 DEF Later, Sound, Whole
<1>3. AsksOn(w, v, T, K)
  BY KeptAsks DEF Sound, Whole, Calm
<1>4. v.tasks = w.tasks
  BY DEF Calm
<1>5. QED
  BY <1>1, <1>2, <1>3, <1>4, Framed

\* Object o becomes b, which is where and what it was, and as sound.
Edited(w, v, o, b) ==
  /\ DOMAIN v = DOMAIN w
  /\ v.sessions = w.sessions /\ v.disposed = w.disposed /\ v.tasks = w.tasks
  /\ v.requests = w.requests
  /\ v.objects = [w.objects EXCEPT ![o] = b]
Edits(w, o, b, h, K) ==
  /\ o \in Objects => /\ DOMAIN b = ObjectFields
                      /\ b.session = w.objects[o].session
                      /\ b.generation = w.objects[o].generation
  /\ o \in In(w) => /\ b.terms \in h.asked[b.session] \cup {Undefined}
                    /\ b.message \in (1..h.latest[b.session]) \cup {Undefined, Label}
                    /\ CacheSound(w, b.cache, h.asked[b.session], K)

LEMMA ObjectsSound ==
  ASSUME NEW w, NEW v, NEW h, NEW T, NEW K, Sound(w, h, T, K),
         NEW o, NEW b, Edited(w, v, o, b), Edits(w, o, b, h, K)
  PROVE  /\ Sound(v, h, T, K) /\ In(v) = In(w)
         /\ \A p \in Objects : v.objects[p].session = w.objects[p].session
         /\ \A p \in Objects : p # o => v.objects[p] = w.objects[p]
         /\ o \in Objects => v.objects[o] = b
<1> USE DEF Edited, Edits
<1>0. Shape(w) /\ Mapped(w) /\ Whole(w)
  BY DEF Sound, Whole
<1>1. /\ DOMAIN w.objects = Objects /\ In(w) \subseteq Objects
      /\ \A p \in Objects : DOMAIN w.objects[p] = ObjectFields
  BY <1>0, InListed DEF Mapped, Listed
<1>2. /\ \A p \in Objects : p # o => v.objects[p] = w.objects[p]
      /\ o \in Objects => v.objects[o] = b
  BY <1>1
<1>3. Same(w, v)
  <2>1. DOMAIN v.objects = Objects
    BY <1>1
  <2>2. ASSUME NEW p \in Objects
        PROVE  /\ DOMAIN v.objects[p] = ObjectFields
               /\ v.objects[p].session = w.objects[p].session
               /\ v.objects[p].generation = w.objects[p].generation
    BY <1>1, <1>2
  <2>3. QED
    BY <2>1, <2>2 DEF Same
<1>4. Mapped(v) /\ In(v) = In(w)
  BY <1>0, <1>3, SameMapped
<1>5. Whole(v)
  <2>1. Shape(v)
    BY <1>0, OthersCalm DEF Calm
  <2>2. QED
    BY <1>0, <1>3, <1>4, <2>1 DEF Whole, Same
<1>6. Later(w, v)
  BY <1>0, <1>3, <1>4 DEF Later, Same, Whole
<1>7. AsksOn(w, v, T, K)
  BY DEF AsksOn
<1>8. ASSUME NEW p \in In(v)
      PROVE  ObjectSound(v, p, h, K) \/ (p \in In(w) /\ v.objects[p] = w.objects[p])
  <2>1. CASE p # o
    BY <1>1, <1>2, <1>4, <2>1
  <2>2. CASE p = o
    <3>1. v.objects[o] = b /\ o \in In(w) /\ o \in Objects
      BY <1>1, <1>2, <1>4, <2>2
    <3>2. b.session \in Sessions /\ (o \in h.listed \/ b.session = h.session)
      BY <3>1 DEF Sound, ObjectSound
    <3>3. CacheSound(v, b.cache, h.asked[b.session], K)
      BY <3>1 DEF CacheSound, EntrySound
    <3>4. QED
      BY <2>2, <3>1, <3>2, <3>3 DEF ObjectSound
  <2>3. QED
    BY <2>1, <2>2
<1>9. Sound(v, h, T, K)
  BY <1>5, <1>6, <1>7, <1>8, Framed
<1>10. QED
  BY <1>2, <1>3, <1>4, <1>9 DEF Same

\* A message given to an object, and what the host told of it.
LEMMA LabelSound ==
  ASSUME NEW w, NEW h, NEW T, NEW K, Sound(w, h, T, K), NEW o, NEW n,
         o \in In(w) => n \in (1..h.latest[w.objects[o].session]) \cup {Undefined, Label},
         NEW v, v = [w EXCEPT !.objects[o].message = n]
  PROVE  Sound(v, h, T, K) /\ In(v) = In(w)
<1> DEFINE b == [w.objects[o] EXCEPT !.message = n]
<1>0. Shape(w) /\ Mapped(w)
  BY DEF Sound, Whole
<1>1. Edited(w, v, o, b)
  BY <1>0 DEF Shape, Edited
<1>2. o \in Objects => /\ DOMAIN b = ObjectFields /\ b.message = n
                       /\ \A f \in ObjectFields \ {"message"} : b[f] = w.objects[o][f]
  BY <1>0 DEF Mapped, Listed, ObjectFields
<1>3. In(w) \subseteq Objects
  BY <1>0, InListed DEF Mapped
<1>4. o \in Objects => /\ DOMAIN b = ObjectFields /\ b.message = n
                       /\ b.session = w.objects[o].session /\ b.generation = w.objects[o].generation
                       /\ b.terms = w.objects[o].terms /\ b.cache = w.objects[o].cache
  BY <1>2 DEF ObjectFields
<1>5. o \in In(w) => ObjectSound(w, o, h, K)
  BY DEF Sound
<1> HIDE DEF b
<1>6. Edits(w, o, b, h, K)
  BY <1>3, <1>4, <1>5 DEF ObjectSound, Edits
<1>7. QED
  BY <1>1, <1>6, ObjectsSound

LEMMA KnownSound ==
  ASSUME NEW w, NEW h, NEW T, NEW K, Sound(w, h, T, K), NEW o,
         NEW v, v = [w EXCEPT !.objects[o].directory = TRUE]
  PROVE  Sound(v, h, T, K) /\ In(v) = In(w)
<1> DEFINE b == [w.objects[o] EXCEPT !.directory = TRUE]
<1>0. Shape(w) /\ Mapped(w)
  BY DEF Sound, Whole
<1>1. Edited(w, v, o, b)
  BY <1>0 DEF Shape, Edited
<1>3. In(w) \subseteq Objects
  BY <1>0, InListed DEF Mapped
<1>4. o \in Objects => /\ DOMAIN b = ObjectFields /\ b.message = w.objects[o].message
                       /\ b.session = w.objects[o].session /\ b.generation = w.objects[o].generation
                       /\ b.terms = w.objects[o].terms /\ b.cache = w.objects[o].cache
  BY <1>0 DEF Mapped, Listed, ObjectFields
<1>5. o \in In(w) => ObjectSound(w, o, h, K)
  BY DEF Sound
<1> HIDE DEF b
<1>6. Edits(w, o, b, h, K)
  BY <1>3, <1>4, <1>5 DEF ObjectSound, Edits
<1>7. QED
  BY <1>1, <1>6, ObjectsSound

LEMMA AbortSound ==
  ASSUME NEW w, NEW h, NEW T, NEW K \in SUBSET Transforms, Sound(w, h, T, K), NEW O,
         NEW v, v = Abort(w, O)
  PROVE  /\ Sound(v, h, T, K) /\ Calm(w, v)
         /\ v.objects = w.objects /\ v.sessions = w.sessions /\ v.disposed = w.disposed
<1>1. Shape(w)
  BY DEF Sound, Whole
<1>2. v.objects = w.objects /\ v.sessions = w.sessions /\ v.disposed = w.disposed
  BY <1>1 DEF Abort, Shape
<1>3. Calm(w, v)
  BY <1>1, AbortCalm
<1>4. QED
  BY <1>2, <1>3, StopsSound

\* What an object of a new generation keeps.
LEMMA InvalidateDoes ==
  ASSUME NEW w, Whole(w), NEW o, NEW v, v = Invalidate(w, o)
  PROVE  /\ Calm(w, v) /\ v.sessions = w.sessions /\ v.disposed = w.disposed
         /\ v.approvals = w.approvals
         /\ DOMAIN v.objects = Objects
         /\ \A p \in Objects : p # o => v.objects[p] = w.objects[p]
         /\ o \in Objects =>
              /\ DOMAIN v.objects[o] = ObjectFields
              /\ \A f \in ObjectFields \ {"aborted", "generation", "cache"} : v.objects[o][f] = w.objects[o][f]
              /\ ~v.objects[o].aborted /\ v.objects[o].cache = Nothing
              /\ v.objects[o].generation = w.objects[o].generation + 1
<1> DEFINE u == Abort(w, {o})
<1>1. Shape(w) /\ DOMAIN w.objects = Objects
  BY DEF Whole, Mapped, Listed
<1>2. /\ u.objects = w.objects /\ u.sessions = w.sessions /\ u.disposed = w.disposed
      /\ u.approvals = w.approvals /\ Shape(u)
  BY <1>1, AbortCalm DEF Abort, Shape, Calm
<1>3. v = [u EXCEPT !.objects[o] = Renewal(@)]
  BY DEF Invalidate
<1>4. DOMAIN u = {"objects", "sessions", "approvals", "disposed", "tasks", "requests"}
  BY <1>2 DEF Shape
<1> HIDE DEF u
<1>5. /\ v.sessions = w.sessions /\ v.disposed = w.disposed /\ v.approvals = w.approvals
      /\ v.objects = [w.objects EXCEPT ![o] = Renewal(w.objects[o])]
  BY <1>2, <1>3, <1>4
<1>6. Calm(w, v)
  BY <1>1, InvalidateCalm
<1>7. /\ DOMAIN v.objects = Objects
      /\ \A p \in Objects : p # o => v.objects[p] = w.objects[p]
      /\ o \in Objects => v.objects[o] = Renewal(w.objects[o])
  BY <1>1, <1>5
<1>8. ASSUME o \in Objects
      PROVE  LET c == Renewal(w.objects[o]) IN
             /\ DOMAIN c = ObjectFields
             /\ \A f \in ObjectFields \ {"aborted", "generation", "cache"} : c[f] = w.objects[o][f]
             /\ c.aborted = FALSE /\ c.cache = Nothing
             /\ c.generation = w.objects[o].generation + 1
  <2> DEFINE b == w.objects[o]
             g == b.generation + 1
  <2>1. DOMAIN b = ObjectFields
    BY <1>8 DEF Whole, Mapped, Listed
  <2>2. Renewal(b) = [b EXCEPT !.aborted = FALSE, !.generation = g, !.cache = Nothing]
    BY DEF Renewal
  <2> HIDE DEF b, g
  <2>3. /\ DOMAIN Renewal(b) = ObjectFields
        /\ Renewal(b).aborted = FALSE /\ Renewal(b).cache = Nothing /\ Renewal(b).generation = g
    BY <2>1, <2>2 DEF ObjectFields
  <2>4. \A f \in ObjectFields \ {"aborted", "generation", "cache"} : Renewal(b)[f] = b[f]
    BY <2>1, <2>2 DEF ObjectFields
  <2>5. QED
    BY <2>3, <2>4 DEF b, g
<1>9. QED
  BY <1>5, <1>6, <1>7, <1>8

LEMMA InvalidateSound ==
  ASSUME NEW w, NEW h, NEW T, NEW K \in SUBSET Transforms, Sound(w, h, T, K), NEW o,
         NEW v, v = Invalidate(w, o)
  PROVE  Sound(v, h, T, K) /\ In(v) = In(w) /\ v.tasks = w.tasks
<1>0. Whole(w) /\ Shape(w) /\ Mapped(w)
  BY DEF Sound, Whole
<1>1. /\ Calm(w, v) /\ v.sessions = w.sessions /\ v.disposed = w.disposed
      /\ DOMAIN v.objects = Objects
      /\ \A p \in Objects : p # o => v.objects[p] = w.objects[p]
      /\ o \in Objects =>
           /\ DOMAIN v.objects[o] = ObjectFields
           /\ \A f \in ObjectFields \ {"aborted", "generation", "cache"} : v.objects[o][f] = w.objects[o][f]
           /\ ~v.objects[o].aborted /\ v.objects[o].cache = Nothing
           /\ v.objects[o].generation = w.objects[o].generation + 1
  BY <1>0, InvalidateDoes
<1>2. o \in Objects =>
        /\ v.objects[o].session = w.objects[o].session
        /\ v.objects[o].terms = w.objects[o].terms
        /\ v.objects[o].message = w.objects[o].message
        /\ v.objects[o].cache = Nothing
        /\ v.objects[o].generation = w.objects[o].generation + 1
  BY <1>0, <1>1 DEF Mapped, Listed, ObjectFields
<1>3. Mapped(v) /\ In(v) = In(w)
  <2>1. Renewed(w, v, o)
    BY <1>0, InvalidateRenewed
  <2>2. CASE o \in Objects
    BY <1>0, <2>1, <2>2, RenewedMapped
  <2>3. CASE o \notin Objects
    <3>1. Same(w, v)
      BY <1>0, <1>1, <2>3 DEF Same, Mapped, Listed
    <3>2. QED
      BY <1>0, <3>1, SameMapped
  <2>4. QED
    BY <2>2, <2>3
<1>4. Whole(v)
  BY <1>0, <1>1, <1>2, <1>3 DEF Whole, Calm
<1>5. Later(w, v)
  <2>1. \A p \in Objects : /\ v.objects[p].session = w.objects[p].session
                           /\ v.objects[p].generation >= w.objects[p].generation
    BY <1>0, <1>1, <1>2 DEF Whole
  <2>2. QED
    BY <1>3, <2>1 DEF Later
<1>6. AsksOn(w, v, T, K)
  BY <1>0, <1>1, KeptAsks DEF Calm
<1>7. v.tasks = w.tasks
  BY <1>1 DEF Calm
<1>8. \A p \in In(v) : /\ p \in In(w)
                       /\ v.objects[p].session = w.objects[p].session
                       /\ v.objects[p].terms = w.objects[p].terms
                       /\ v.objects[p].message = w.objects[p].message
                       /\ v.objects[p].cache = w.objects[p].cache \/ v.objects[p].cache = Nothing
  BY <1>0, <1>1, <1>2, <1>3, InListed DEF Mapped
<1>9. Sound(v, h, T, K)
  BY <1>4, <1>5, <1>6, <1>7, <1>8, Framed
<1>10. QED
  BY <1>3, <1>7, <1>9

\* Clear aborts an object and does nothing else to any.
LEMMA ClearDoes ==
  ASSUME NEW w, Shape(w), DOMAIN w.objects = Objects,
         \A o \in Objects : DOMAIN w.objects[o] = ObjectFields, NEW s, NEW v, v = Clear(w, s)
  PROVE  \A p \in Objects : \A f \in ObjectFields \ {"aborted"} : v.objects[p][f] = w.objects[p][f]
<1>1. CASE Held(w, s) = {}
  BY <1>1 DEF Clear
<1>2. CASE Held(w, s) # {}
  <2> DEFINE o == CHOOSE o \in Held(w, s) : TRUE
             u == Abort(w, {o})
  <2>1. u.objects = w.objects /\ DOMAIN u = DOMAIN w
    BY DEF Abort, Shape
  <2>2. v = [u EXCEPT !.objects[o].aborted = TRUE, !.sessions = RemoveFirst(@, o)]
    BY <1>2 DEF Clear
  <2> HIDE DEF o, u
  <2>3. v.objects = [w.objects EXCEPT ![o] = [@ EXCEPT !["aborted"] = TRUE]]
    BY <2>1, <2>2 DEF Shape
  <2>4. QED
    BY <2>3 DEF Listed, ObjectFields
<1>3. QED
  BY <1>1, <1>2

LEMMA ClearSound ==
  ASSUME NEW w, NEW h, NEW T, NEW K \in SUBSET Transforms, Sound(w, h, T, K), NEW s,
         NEW v, v = Clear(w, s)
  PROVE  /\ Sound(v, h, T, K) /\ In(v) = In(w) \ Held(w, s) /\ Calm(w, v)
         /\ Later(w, v)
<1>0. Whole(w) /\ Shape(w) /\ Mapped(w) /\ Listed(w)
  BY DEF Sound, Whole, Mapped
<1>1. /\ Listed(v) /\ v.disposed = w.disposed /\ Len(v.sessions) <= Len(w.sessions)
      /\ In(v) = In(w) \ Held(w, s)
  BY <1>0, ClearMapped
<1>2. \A p \in Objects : /\ v.objects[p].session = w.objects[p].session
                         /\ v.objects[p].terms = w.objects[p].terms
                         /\ v.objects[p].message = w.objects[p].message
                         /\ v.objects[p].cache = w.objects[p].cache
                         /\ v.objects[p].generation = w.objects[p].generation
  BY <1>0, ClearDoes DEF ObjectFields, Listed
<1>3. Calm(w, v)
  BY <1>0, ClearCalm
<1>4. Whole(v)
  <2>1. Mapped(v)
    BY <1>0, <1>1, SessionsAssumption DEF Mapped, Listed
  <2>2. QED
    BY <1>0, <1>2, <1>3, <2>1 DEF Whole, Calm
<1>5. Later(w, v)
  BY <1>0, <1>1, <1>2 DEF Later, Whole
<1>6. AsksOn(w, v, T, K)
  BY <1>0, <1>3, KeptAsks DEF Calm
<1>7. v.tasks = w.tasks
  BY <1>3 DEF Calm
<1>8. \A p \in In(v) : /\ p \in In(w)
                       /\ v.objects[p].session = w.objects[p].session
                       /\ v.objects[p].terms = w.objects[p].terms
                       /\ v.objects[p].message = w.objects[p].message
                       /\ v.objects[p].cache = w.objects[p].cache
  BY <1>0, <1>1, <1>2, InListed
<1>9. Sound(v, h, T, K)
  BY <1>4, <1>5, <1>6, <1>7, <1>8, Framed
<1>10. QED
  BY <1>1, <1>3, <1>5, <1>9

\* What stateFor makes of the objects.
LEMMA StateForDoes ==
  ASSUME NEW w, Whole(w), NEW s \in Sessions, CanHold(w, s), NEW v, v = StateFor(w, s)
  PROVE  LET o == Latest(v) IN
         /\ \A p \in Objects \ {o} : \A f \in ObjectFields \ {"aborted"} : v.objects[p][f] = w.objects[p][f]
         /\ Held(w, s) # {} => \A f \in ObjectFields \ {"aborted"} : v.objects[o][f] = w.objects[o][f]
         /\ Held(w, s) = {} =>
              /\ w.objects[o].session = Nothing
              /\ \A f \in ObjectFields \ {"aborted"} : v.objects[o][f] = NewObject(s)[f]
<1> DEFINE found == Held(w, s)
           o == IF found = {} THEN Unused(w) ELSE CHOOSE x \in found : TRUE
           list == Append(RemoveFirst(w.sessions, o), o)
           object == IF found = {} THEN NewObject(s) ELSE w.objects[o]
           moved == [w EXCEPT !.sessions = Append(RemoveFirst(@, o), o),
                              !.objects[o] = IF found = {} THEN NewObject(s) ELSE @]
           r == moved.objects[Head(moved.sessions)].session
<1>0. Shape(w) /\ Mapped(w) /\ s # Nothing /\ Listed(w)
  BY NothingAssumption DEF Whole, Mapped
<1>1. v \in {Clear(moved, r), moved}
  BY DEF StateFor
<1>2. /\ Latest(v) \in Objects
      /\ found # {} => Latest(v) \in found
      /\ found = {} => Latest(v) = Unused(w)
  BY <1>0, StateForMapped
<1>3. found # {} => o = Latest(v)
  BY <1>0, <1>2, HeldOnce
<1>4. found = {} => o = Latest(v) /\ w.objects[o].session = Nothing
  BY <1>2 DEF CanHold, Spare, Unused
<1>5. o = Latest(v) /\ o \in Objects
  BY <1>2, <1>3, <1>4
<1> HIDE DEF o, found
<1>6. /\ moved.objects = [w.objects EXCEPT ![o] = object] /\ moved.tasks = w.tasks
      /\ moved.requests = w.requests /\ DOMAIN moved = DOMAIN w
  BY <1>0 DEF Shape
<1>7. DOMAIN object = ObjectFields
  BY <1>0, <1>5 DEF NewObject, ObjectFields, Listed
<1> HIDE DEF moved, object
<1>8. /\ \A p \in Objects \ {o} : moved.objects[p] = w.objects[p]
      /\ moved.objects[o] = object /\ Shape(moved)
      /\ DOMAIN moved.objects = Objects
      /\ \A p \in Objects : DOMAIN moved.objects[p] = ObjectFields
  BY <1>0, <1>5, <1>6, <1>7, OthersCalm DEF Calm, Listed
<1>9. \A p \in Objects : \A f \in ObjectFields \ {"aborted"} : v.objects[p][f] = moved.objects[p][f]
  <2>1. ASSUME v = Clear(moved, r)
        PROVE  \A p \in Objects : \A f \in ObjectFields \ {"aborted"} : v.objects[p][f] = moved.objects[p][f]
    BY <1>8, <2>1, ClearDoes
  <2>2. QED
    BY <1>1, <2>1
<1>10. QED
  BY <1>4, <1>5, <1>8, <1>9 DEF object, found

LEMMA StateForSound ==
  ASSUME NEW w, NEW h, NEW T, NEW K \in SUBSET Transforms, Sound(w, h, T, K),
         NEW s \in Sessions, CanHold(w, s), Held(w, s) = {} => h.session = s,
         NEW v, v = StateFor(w, s)
  PROVE  /\ Sound(v, h, T, K) /\ Calm(w, v) /\ v.tasks = w.tasks
         /\ Latest(v) \in In(v) /\ Latest(v) \in Objects /\ v.objects[Latest(v)].session = s
         /\ Held(v, s) # {} /\ CanHold(v, s)
         /\ In(v) \subseteq In(w) \cup {Latest(v)}
<1> DEFINE o == Latest(v)
<1>0. Whole(w) /\ Shape(w) /\ Mapped(w) /\ s # Nothing
  BY NothingAssumption DEF Sound, Whole
<1>1. /\ Mapped(v) /\ v.disposed = w.disposed /\ Steady(w, v, {})
      /\ o \in In(v) /\ o \in Objects /\ v.objects[o].session = s /\ CanHold(v, s)
      /\ Held(w, s) # {} => In(v) = In(w) /\ o \in Held(w, s)
      /\ Held(w, s) = {} => In(v) \subseteq In(w) \cup {o}
  BY <1>0, StateForMapped
<1>2. Calm(w, v) /\ v.tasks = w.tasks
  BY <1>0, StateForCalm DEF Calm
<1>3. /\ \A p \in Objects \ {o} : \A f \in ObjectFields \ {"aborted"} : v.objects[p][f] = w.objects[p][f]
      /\ Held(w, s) # {} => \A f \in ObjectFields \ {"aborted"} : v.objects[o][f] = w.objects[o][f]
      /\ Held(w, s) = {} =>
           /\ w.objects[o].session = Nothing
           /\ \A f \in ObjectFields \ {"aborted"} : v.objects[o][f] = NewObject(s)[f]
  BY <1>0, StateForDoes
<1> HIDE DEF o
<1>4. \A p \in Objects : p # o \/ Held(w, s) # {} =>
        /\ v.objects[p].session = w.objects[p].session
        /\ v.objects[p].terms = w.objects[p].terms
        /\ v.objects[p].message = w.objects[p].message
        /\ v.objects[p].cache = w.objects[p].cache
        /\ v.objects[p].generation = w.objects[p].generation
  BY <1>3 DEF ObjectFields
<1>5. Held(w, s) = {} =>
        /\ v.objects[o].session = s /\ v.objects[o].terms = Undefined
        /\ v.objects[o].message = Undefined /\ v.objects[o].cache = Nothing
        /\ v.objects[o].generation = 1
  BY <1>3 DEF ObjectFields, NewObject
<1>6. Whole(v)
  BY <1>0, <1>1, <1>2, <1>4, <1>5 DEF Whole, Calm
<1>7. Later(w, v)
  <2>1. ASSUME NEW p \in Objects, w.objects[p].session # Nothing
        PROVE  /\ v.objects[p].session = w.objects[p].session
               /\ v.objects[p].generation = w.objects[p].generation
               /\ w.objects[p].generation \in Nat
    BY <1>0, <1>3, <1>4, <2>1 DEF Whole
  <2>2. QED
    BY <1>1, <2>1 DEF Later, Steady
<1>8. AsksOn(w, v, T, K)
  BY <1>0, <1>2, KeptAsks DEF Calm
<1>9. ASSUME NEW p \in In(v)
      PROVE  \/ ObjectSound(v, p, h, K)
             \/ /\ p \in In(w)
                /\ v.objects[p].session = w.objects[p].session
                /\ v.objects[p].terms = w.objects[p].terms
                /\ v.objects[p].message = w.objects[p].message
                /\ v.objects[p].cache = w.objects[p].cache
  <2>1. p \in Objects
    BY <1>1, InListed DEF Mapped
  <2>2. CASE p = o /\ Held(w, s) = {}
    BY <1>5, <2>2 DEF ObjectSound, CacheSound
  <2>3. CASE p # o \/ Held(w, s) # {}
    <3>1. p \in In(w)
      BY <1>1, <2>3
    <3>2. QED
      BY <1>4, <2>1, <2>3, <3>1
  <2>4. QED
    BY <2>2, <2>3
<1>10. Sound(v, h, T, K)
  BY <1>2, <1>6, <1>7, <1>8, <1>9, Framed
<1>11. Held(v, s) # {} /\ In(v) \subseteq In(w) \cup {o}
  BY <1>1 DEF Held, In
<1>12. QED
  BY <1>1, <1>2, <1>10, <1>11 DEF o

\* A request of a task that nothing is said of, in a slot of its own.
LEMMA SendSound ==
  ASSUME NEW w, NEW h, NEW T, NEW K \in SUBSET Transforms, Sound(w, h, T, K),
         NEW t \in Tasks, t \notin T, NEW op, t \in K => op = "select",
         NEW targets, NEW terms, NEW o, NEW c,
         NEW v, v = Send(w, t, op, targets, terms, o, c)
  PROVE  /\ Sound(v, h, T, K)
         /\ v.objects = w.objects /\ v.sessions = w.sessions /\ v.disposed = w.disposed
         /\ v.approvals = w.approvals
         /\ v.tasks[t] = [w.tasks[t] EXCEPT !.slot = SlotOf(t, op)]
         /\ v.requests[SlotOf(t, op)].terms = terms
<1> DEFINE g == IF o = Nothing THEN 0 ELSE w.objects[o].generation
           i == SlotOf(t, op)
           r == Request(op, targets, terms, o, g, c, Aborted(w, o, g, c))
<1>0. Whole(w) /\ Shape(w) /\ Mapped(w) /\ i = SlotOf(t, op)
  BY DEF Sound, Whole
<1> HIDE DEF i
<1>1. /\ Shape(v)
      /\ i \in Slots
      /\ \A s \in Tasks \ {t} : v.tasks[s] = w.tasks[s]
      /\ v.tasks[t] = [w.tasks[t] EXCEPT !.slot = i]
      /\ \A j \in Slots \ {i} : v.requests[j] = w.requests[j]
      /\ \E generation, aborted : v.requests[i] = Request(op, targets, terms, o, generation, c, aborted)
  BY <1>0, SendDoes
<1>2. v = [w EXCEPT !.requests[i] = r, !.tasks[t].slot = i]
  BY <1>0 DEF Send
<1> HIDE DEF r
<1>3. v.objects = w.objects /\ v.sessions = w.sessions /\ v.disposed = w.disposed
      /\ v.approvals = w.approvals
  BY <1>0, <1>2 DEF Shape
<1>4. v.requests[i].terms = terms
  BY <1>1 DEF Request
<1>5. AsksOn(w, v, T, K)
  <2>1. ASSUME NEW j \in Spent(K) \cup {<<d, "own">> : d \in Calls \cap T}
        PROVE  j \in Slots \ {i}
    <3>1. PICK d \in K \cup (Calls \cap T) : j = <<d, "own">>
      BY DEF Spent
    <3>2. j \in Slots
      BY <3>1, SlotsAssumption DEF Tasks
    <3>3. j # i
      BY <3>1 DEF i, SlotOf
    <3>4. QED
      BY <3>2, <3>3
  <2>2. QED
    BY <1>1, <2>1 DEF AsksOn
<1>6. Same(w, v)
  BY <1>0, <1>3, SameObjects
<1>7. Mapped(v) /\ In(v) = In(w)
  BY <1>0, <1>6, SameMapped
<1>8. Whole(v)
  BY <1>0, <1>1, <1>3, <1>7 DEF Whole
<1>9. Later(w, v)
  BY <1>0, <1>3, <1>7 DEF Later, Whole
<1>10. Sound(v, h, T, K)
  BY <1>1, <1>3, <1>5, <1>7, <1>8, <1>9, Framed
<1>11. QED
  BY <1>1, <1>3, <1>4, <1>10 DEF i

LEMMA CaptureSound ==
  ASSUME NEW w, NEW h, NEW T, NEW K \in SUBSET Transforms, Sound(w, h, T, K),
         NEW s \in Sessions, CanHold(w, s), Held(w, s) = {} => h.session = s, NEW n, n \in h.asked[s], n \in 1..h.latest[s],
         NEW v, v = Capture(w, s, n)
  PROVE  Sound(v, h, T, K) /\ v.tasks = w.tasks
<1> DEFINE w1 == StateFor(w, s)
           o == Latest(w1)
           w2 == IF w1.objects[o].message # n THEN Invalidate(w1, o) ELSE w1
           b == [w2.objects[o] EXCEPT !.message = n, !.terms = n]
<1>1. /\ Sound(w1, h, T, K) /\ w1.tasks = w.tasks
      /\ o \in In(w1) /\ o \in Objects /\ w1.objects[o].session = s
  BY StateForSound
<1>2. v = [w2 EXCEPT !.objects[o].message = n, !.objects[o].terms = n]
  BY DEF Capture
<1> HIDE DEF w1, o
<1>3. /\ Sound(w2, h, T, K) /\ w2.tasks = w.tasks /\ w2.objects[o].session = s
  <2> DEFINE u == Invalidate(w1, o)
  <2>1. u = Invalidate(w1, o)
    OBVIOUS
  <2> HIDE DEF u
  <2>2. Whole(w1)
    BY <1>1 DEF Sound
  <2>3. Sound(u, h, T, K) /\ u.tasks = w1.tasks
    BY <1>1, <2>1, InvalidateSound
  <2>4. u.objects[o].session = w1.objects[o].session
    BY <1>1, <2>1, <2>2, InvalidateDoes DEF ObjectFields
  <2>5. QED
    BY <1>1, <2>3, <2>4 DEF u
<1> HIDE DEF w2
<1>4. Shape(w2) /\ Mapped(w2)
  BY <1>3 DEF Sound, Whole
<1>5. DOMAIN w2.objects = Objects /\ DOMAIN w2.objects[o] = ObjectFields
  BY <1>1, <1>4 DEF Mapped, Listed
<1>6. Edited(w2, v, o, b)
  <2> DEFINE e == w2.objects[o]
             w3 == [w2 EXCEPT !.objects[o].message = n]
             c == [e EXCEPT !.message = n]
  <2>1. v = [w3 EXCEPT !.objects[o].terms = n] /\ DOMAIN w3 = DOMAIN w2
        /\ w3.sessions = w2.sessions /\ w3.disposed = w2.disposed /\ w3.tasks = w2.tasks
        /\ w3.requests = w2.requests /\ w3.objects = [w2.objects EXCEPT ![o] = c]
    BY <1>2, <1>4 DEF Shape
  <2>2. w3.objects[o] = c /\ DOMAIN w3 = {"objects", "sessions", "approvals", "disposed", "tasks", "requests"}
    BY <1>1, <1>4, <1>5, <2>1 DEF Shape
  <2>3. b = [c EXCEPT !.terms = n]
    OBVIOUS
  <2> HIDE DEF w3, b, c
  <2>4. /\ v.objects = [w3.objects EXCEPT ![o] = b] /\ DOMAIN v = DOMAIN w2
        /\ v.sessions = w3.sessions /\ v.disposed = w3.disposed /\ v.tasks = w3.tasks
        /\ v.requests = w3.requests
    BY <2>1, <2>2, <2>3
  <2>5. v.objects = [w2.objects EXCEPT ![o] = b]
    BY <2>1, <2>4
  <2>6. QED
    BY <2>1, <2>4, <2>5 DEF Edited
<1>7. /\ DOMAIN b = ObjectFields /\ b.session = s /\ b.generation = w2.objects[o].generation
      /\ b.terms = n /\ b.message = n /\ b.cache = w2.objects[o].cache
  BY <1>3, <1>5 DEF ObjectFields
<1> HIDE DEF b
<1>8. o \in In(w2) => CacheSound(w2, b.cache, h.asked[s], K)
  BY <1>3, <1>7 DEF Sound, ObjectSound
<1>9. Edits(w2, o, b, h, K)
  BY <1>3, <1>7, <1>8 DEF Edits
<1>10. Sound(v, h, T, K)
  BY <1>3, <1>6, <1>9, ObjectsSound
<1>11. QED
  BY <1>3, <1>6, <1>10 DEF Edited

LEMMA CaptureQuietSound ==
  ASSUME NEW w, NEW h, NEW T, NEW K \in SUBSET Transforms, Sound(w, h, T, K),
         NEW s \in Sessions, CanHold(w, s), Held(w, s) = {} => h.session = s,
         NEW v, v = CaptureQuiet(w, s)
  PROVE  Sound(v, h, T, K) /\ v.tasks = w.tasks
<1> DEFINE w1 == StateFor(w, s)
           o == Latest(w1)
           w2 == Invalidate(w1, o)
<1>1. Sound(w1, h, T, K) /\ w1.tasks = w.tasks
  BY StateForSound
<1>2. v = [w2 EXCEPT !.objects[o].message = Label]
  BY DEF CaptureQuiet
<1>3. w2 = Invalidate(w1, o)
  OBVIOUS
<1> HIDE DEF w1, o, w2
<1>4. Sound(w2, h, T, K) /\ w2.tasks = w1.tasks
  BY <1>1, <1>3, InvalidateSound
<1>5. Sound(v, h, T, K)
  <2>1. Label \in (1..h.latest[w2.objects[o].session]) \cup {Undefined, Label}
    OBVIOUS
  <2>2. QED
    BY <1>2, <1>4, <2>1, LabelSound, ZenonT(30)
<1>6. v.tasks = w2.tasks
  BY <1>2, <1>4 DEF Sound, Whole, Shape
<1>7. QED
  BY <1>1, <1>4, <1>5, <1>6

\* More hooks have sent their recall.
LEMMA SoundMore ==
  ASSUME NEW w, NEW h, NEW T, NEW K, NEW L, K \subseteq L, Sound(w, h, T, K)
  PROVE  Sound(w, h, T, L)
<1>1. Whole(w) /\ Later(w, w) /\ AsksOn(w, w, T, K)
  BY DEF Sound, Whole, Later, AsksOn
<1>2. QED
  BY <1>1, Framed

\* What is said of a task that nothing was said of.
LEMMA HookBack ==
  ASSUME NEW w, NEW h, NEW K, NEW x \in Transforms, Sound(w, h, Tasks \ {x}, K),
         HookSound(w, x, h, K)
  PROVE  Sound(w, h, Tasks, K)
<1>1. \A y \in Transforms \cap Tasks : HookSound(w, y, h, K)
  <2>1. ASSUME NEW y \in Transforms, y # x PROVE HookSound(w, y, h, K)
    BY <2>1 DEF Sound, Tasks
  <2>2. QED
    BY <2>1
<1>2. \A c \in Calls \cap Tasks : CallSound(w, c)
  <2>1. \A c \in Calls : c \in Calls \cap (Tasks \ {x})
    BY TasksAssumption DEF Tasks
  <2>2. QED
    BY <2>1 DEF Sound
<1>3. QED
  BY <1>1, <1>2 DEF Sound

LEMMA CallBack ==
  ASSUME NEW w, NEW h, NEW K, NEW c \in Calls, Sound(w, h, Tasks \ {c}, K), CallSound(w, c)
  PROVE  Sound(w, h, Tasks, K)
<1>1. \A x \in Transforms \cap Tasks : HookSound(w, x, h, K)
  <2>1. \A x \in Transforms : x \in Transforms \cap (Tasks \ {c})
    BY TasksAssumption DEF Tasks
  <2>2. QED
    BY <2>1 DEF Sound
<1>2. \A d \in Calls \cap Tasks : CallSound(w, d)
  <2>1. ASSUME NEW d \in Calls, d # c PROVE CallSound(w, d)
    BY <2>1 DEF Sound, Tasks
  <2>2. QED
    BY <2>1
<1>3. QED
  BY <1>1, <1>2 DEF Sound

LEMMA EndSound ==
  ASSUME NEW w, NEW h, NEW K, NEW t \in Tasks, Sound(w, h, Tasks \ {t}, K), NEW report,
         NEW v, v = End(w, t, report)
  PROVE  Sound(v, h, Tasks, K)
<1> DEFINE e == [Idle EXCEPT !.pc = "done", !.session = w.tasks[t].session,
                             !.aborted = w.tasks[t].aborted, !.report = report]
<1>0. Shape(w)
  BY DEF Sound, Whole
<1>1. v = [w EXCEPT !.tasks[t] = e]
  BY DEF End
<1>2. e.pc = "done" /\ e.receipt = Nothing /\ e.object = Nothing
  BY DEF Idle
<1> HIDE DEF e
<1>3. /\ v.objects = w.objects /\ v.sessions = w.sessions /\ v.disposed = w.disposed
      /\ v.requests = w.requests /\ v.tasks[t] = e
      /\ \A s \in Tasks \ {t} : v.tasks[s] = w.tasks[s]
  BY <1>0, <1>1 DEF Shape
<1>4. Shape(v)
  BY <1>0, EndMoves DEF Moves
<1>5. Sound(v, h, Tasks \ {t}, K)
  BY <1>3, <1>4, TasksSound
<1>6. CASE t \in Transforms
  <2>1. HookSound(v, t, h, K)
    BY <1>2, <1>3 DEF HookSound, HookHolds, Pending
  <2>2. QED
    BY <1>5, <1>6, <2>1, HookBack
<1>7. CASE t \in Calls
  <2>1. CallSound(v, t)
    BY <1>2, <1>3 DEF CallSound
  <2>2. QED
    BY <1>5, <1>7, <2>1, CallBack
<1>8. QED
  BY <1>6, <1>7 DEF Tasks

\* Objects and task t are where they were; the task's slot may be another.
Alike(t, w, v) ==
  /\ In(v) = In(w) /\ v.disposed = w.disposed
  /\ \A p \in Objects : /\ v.objects[p].session = w.objects[p].session
                        /\ v.objects[p].generation = w.objects[p].generation
  /\ \A f \in TaskFields \ {"slot"} : v.tasks[t][f] = w.tasks[t][f]

LEMMA AlikeTwice ==
  ASSUME NEW t, NEW u, NEW v, NEW w, Alike(t, u, v), Alike(t, v, w)
  PROVE  Alike(t, u, w)
  BY DEF Alike

LEMMA AlikeTask ==
  ASSUME NEW t, NEW w, NEW v, Alike(t, w, v)
  PROVE  /\ v.tasks[t].pc = w.tasks[t].pc /\ v.tasks[t].object = w.tasks[t].object
         /\ v.tasks[t].session = w.tasks[t].session /\ v.tasks[t].message = w.tasks[t].message
         /\ v.tasks[t].generation = w.tasks[t].generation
         /\ v.tasks[t].receipt = w.tasks[t].receipt /\ v.tasks[t].call = w.tasks[t].call
         /\ v.tasks[t].targets = w.tasks[t].targets /\ v.tasks[t].terms = w.tasks[t].terms
  BY DEF Alike, TaskFields

LEMMA AlikeHolds ==
  ASSUME NEW x, NEW w, NEW v, Alike(x, w, v), Mapped(w), NEW h
  PROVE  /\ HookHolds(w, x, h) => HookHolds(v, x, h)
         /\ w.tasks[x].object # Nothing => (Fresh(v, x) <=> Fresh(w, x))
<1>1. /\ v.tasks[x].pc = w.tasks[x].pc /\ v.tasks[x].object = w.tasks[x].object
      /\ v.tasks[x].session = w.tasks[x].session /\ v.tasks[x].message = w.tasks[x].message
      /\ v.tasks[x].generation = w.tasks[x].generation
  BY AlikeTask
<1>2. In(w) \subseteq Objects
  BY InListed DEF Mapped
<1>3. HookHolds(w, x, h) => HookHolds(v, x, h)
  BY <1>1 DEF HookHolds, Pending, Alike
<1>4. Fresh(v, x) <=> Fresh(w, x)
  BY <1>1, <1>2 DEF Fresh, Alike
<1>5. QED
  BY <1>3, <1>4

LEMMA AlikeSlot ==
  ASSUME NEW w, Whole(w), NEW t \in Tasks, NEW i, NEW v, v = [w EXCEPT !.tasks[t].slot = i]
  PROVE  /\ Alike(t, w, v) /\ v.tasks[t].slot = i /\ Shape(v)
         /\ v.objects = w.objects /\ v.sessions = w.sessions /\ v.disposed = w.disposed
         /\ v.requests = w.requests /\ \A s \in Tasks \ {t} : v.tasks[s] = w.tasks[s]
<1>0. Shape(w)
  BY DEF Whole
<1>1. /\ v.objects = w.objects /\ v.sessions = w.sessions /\ v.disposed = w.disposed
      /\ v.requests = w.requests /\ v.tasks[t] = [w.tasks[t] EXCEPT !.slot = i]
      /\ \A s \in Tasks \ {t} : v.tasks[s] = w.tasks[s]
      /\ DOMAIN v.tasks = Tasks
  BY <1>0 DEF Shape
<1>2. /\ DOMAIN v.tasks[t] = TaskFields /\ v.tasks[t].slot = i
      /\ \A f \in TaskFields \ {"slot"} : v.tasks[t][f] = w.tasks[t][f]
  BY <1>0, <1>1 DEF Shape, TaskFields
<1>3. DOMAIN v = DOMAIN w
  BY <1>0 DEF Shape
<1>4. Moves(t, w, v)
  BY <1>0, <1>1, <1>2, <1>3, TaskMoves
<1>5. Shape(v)
  BY <1>4 DEF Moves
<1>6. Alike(t, w, v)
  <2>1. In(v) = In(w)
    BY <1>1 DEF In
  <2>2. QED
    BY <1>1, <1>2, <2>1 DEF Alike
<1>7. QED
  BY <1>1, <1>2, <1>5, <1>6

LEMMA SendAlike ==
  ASSUME NEW w, NEW h, NEW T, NEW K \in SUBSET Transforms, Sound(w, h, T, K),
         NEW t \in Tasks, t \notin T, NEW op, t \in K => op = "select",
         NEW targets, NEW terms, NEW o, NEW c,
         NEW v, v = Send(w, t, op, targets, terms, o, c)
  PROVE  /\ Sound(v, h, T, K) /\ Alike(t, w, v)
         /\ v.tasks[t].slot = SlotOf(t, op)
         /\ v.requests[SlotOf(t, op)].terms = terms
         /\ v.objects = w.objects
<1> DEFINE i == SlotOf(t, op)
<1>0. i = SlotOf(t, op)
  OBVIOUS
<1> HIDE DEF i
<1>1. /\ Sound(v, h, T, K)
      /\ v.objects = w.objects /\ v.sessions = w.sessions /\ v.disposed = w.disposed
      /\ v.tasks[t] = [w.tasks[t] EXCEPT !.slot = i]
      /\ v.requests[i].terms = terms
  BY <1>0, SendSound
<1>2. v.tasks[t] = [w.tasks[t] EXCEPT !.slot = i] /\ DOMAIN w.tasks[t] = TaskFields
  BY <1>1 DEF Sound, Whole, Shape
<1>3. v.tasks[t].slot = i /\ \A f \in TaskFields \ {"slot"} : v.tasks[t][f] = w.tasks[t][f]
  BY <1>2 DEF TaskFields
<1>4. Alike(t, w, v)
  BY <1>1, <1>3 DEF Alike, In
<1>5. QED
  BY <1>1, <1>3, <1>4 DEF i

\* A field of an object that says nothing of what it recalls.
LEMMA OtherSound ==
  ASSUME NEW w, NEW h, NEW T, NEW K, Sound(w, h, T, K), NEW o,
         NEW f \in {"directory", "targets", "aborted", "resolving"}, NEW e,
         NEW v, DOMAIN v = DOMAIN w, v.sessions = w.sessions, v.disposed = w.disposed,
         v.tasks = w.tasks, v.requests = w.requests,
         v.objects = [w.objects EXCEPT ![o] = [@ EXCEPT ![f] = e]]
  PROVE  Sound(v, h, T, K) /\ \A t : Alike(t, w, v)
<1> DEFINE b == [w.objects[o] EXCEPT ![f] = e]
<1>0. Shape(w) /\ Mapped(w)
  BY DEF Sound, Whole
<1>1. Edited(w, v, o, b)
  BY DEF Edited
<1>2. o \in Objects => /\ DOMAIN b = ObjectFields
                       /\ b.session = w.objects[o].session /\ b.generation = w.objects[o].generation
                       /\ b.message = w.objects[o].message
                       /\ b.terms = w.objects[o].terms /\ b.cache = w.objects[o].cache
  BY <1>0 DEF Mapped, Listed, ObjectFields
<1>3. In(w) \subseteq Objects
  BY <1>0, InListed DEF Mapped
<1>4. o \in In(w) => ObjectSound(w, o, h, K)
  BY DEF Sound
<1> HIDE DEF b
<1>5. Edits(w, o, b, h, K)
  BY <1>2, <1>3, <1>4 DEF ObjectSound, Edits
<1>6. /\ Sound(v, h, T, K) /\ In(v) = In(w)
      /\ \A p \in Objects : v.objects[p].session = w.objects[p].session
  BY <1>1, <1>5, ObjectsSound
<1>7. /\ \A p \in Objects : p # o => v.objects[p] = w.objects[p]
      /\ o \in Objects => v.objects[o] = b
  BY <1>0, <1>1 DEF Edited, Mapped, Listed
<1>8. \A p \in Objects : v.objects[p].generation = w.objects[p].generation
  BY <1>2, <1>7
<1>9. QED
  BY <1>6, <1>8 DEF Alike

\* The hooks that have sent their recall, or never will.
Spenders == {"recalling", "recording", "done"}

\* After a step of hook x.
SoundNow(v, x, h, K) ==
  \/ x \notin K /\ Sound(v, h, Tasks, K)
  \/ v.tasks[x].pc \in Spenders /\ Sound(v, h, Tasks, K \cup {x})

\* Hook x waits for something else.
Goes(x, w, v, h, K) ==
  /\ Shape(v) /\ v.objects = w.objects /\ v.sessions = w.sessions /\ v.disposed = w.disposed
  /\ v.requests = w.requests /\ \A s \in Tasks \ {x} : v.tasks[s] = w.tasks[s]
  /\ v.tasks[x].object = w.tasks[x].object /\ v.tasks[x].session = w.tasks[x].session
  /\ v.tasks[x].message = w.tasks[x].message /\ v.tasks[x].generation = w.tasks[x].generation
  /\ v.tasks[x].receipt # Nothing => v.tasks[x].pc = "recording"
  /\ v.tasks[x].pc = "recalling" /\ Fresh(w, x) =>
       /\ v.tasks[x].slot \in Spent(K)
       /\ w.requests[v.tasks[x].slot].terms \in h.asked[w.tasks[x].session]
  /\ v.tasks[x].pc = "recording" /\ v.tasks[x].receipt # Nothing /\ Fresh(w, x) =>
       v.tasks[x].receipt.terms \in h.asked[w.tasks[x].session]

LEMMA HookGoes ==
  ASSUME NEW w, NEW h, NEW K, NEW x \in Transforms, Sound(w, h, Tasks \ {x}, K),
         HookHolds(w, x, h), Pending(w, x), NEW v, Goes(x, w, v, h, K)
  PROVE  Sound(v, h, Tasks, K)
<1> USE DEF Goes
<1> DEFINE T == Tasks \ {x}
<1>1. \A s \in Tasks \cap T : v.tasks[s] = w.tasks[s]
  OBVIOUS
<1> HIDE DEF T
<1>2. Sound(v, h, T, K)
  BY <1>1, TasksSound DEF T
<1>3. Fresh(v, x) => Fresh(w, x)
  BY DEF Fresh, In
<1>4. HookHolds(v, x, h)
  BY DEF HookHolds
<1>5. HookSound(v, x, h, K)
  BY <1>3, <1>4 DEF HookSound
<1>6. QED
  BY <1>2, <1>5, HookBack DEF T

LEMMA InjectSound ==
  ASSUME NEW w, NEW h, NEW K, NEW x \in Transforms, Sound(w, h, Tasks \ {x}, K),
         HookHolds(w, x, h), Pending(w, x), NEW receipt,
         receipt # Nothing /\ Fresh(w, x) => receipt.terms \in h.asked[w.tasks[x].session],
         NEW v, v = Inject(w, x, receipt)
  PROVE  /\ Sound(v, h, Tasks, K) /\ v.tasks[x].pc \in Spenders
         /\ v.tasks[x].report \in {"silent", w.tasks[x].report}
<1> DEFINE u == [w EXCEPT !.tasks[x].receipt = receipt]
           z == [u EXCEPT !.tasks[x].slot = Nothing]
           ended == End(w, x, "silent")
           gone == Goto(z, x, "recording")
<1>0. Shape(w) /\ x \in Tasks
  BY DEF Sound, Whole, Tasks
<1>1. v \in {ended, gone}
  BY DEF Inject
<1>2. Sound(ended, h, Tasks, K) /\ ended.tasks[x].pc = "done" /\ ended.tasks[x].report = "silent"
  <2>1. ended = End(w, x, "silent")
    OBVIOUS
  <2>2. ended.tasks[x].pc = "done" /\ ended.tasks[x].report = "silent"
    BY <1>0, EndMoves
  <2> HIDE DEF ended
  <2>3. Sound(ended, h, Tasks, K)
    BY <1>0, <2>1, EndSound
  <2>4. QED
    BY <2>2, <2>3
<1>3. /\ Shape(gone) /\ gone.objects = w.objects /\ gone.sessions = w.sessions
      /\ gone.disposed = w.disposed /\ gone.requests = w.requests
      /\ \A s \in Tasks \ {x} : gone.tasks[s] = w.tasks[s]
      /\ gone.tasks[x].pc = "recording" /\ gone.tasks[x].receipt = receipt
      /\ gone.tasks[x].object = w.tasks[x].object /\ gone.tasks[x].session = w.tasks[x].session
      /\ gone.tasks[x].message = w.tasks[x].message
      /\ gone.tasks[x].generation = w.tasks[x].generation
      /\ gone.tasks[x].report = w.tasks[x].report
  <2>1. /\ Shape(u) /\ u.objects = w.objects /\ u.sessions = w.sessions
        /\ u.disposed = w.disposed /\ u.requests = w.requests
        /\ \A s \in Tasks \ {x} : u.tasks[s] = w.tasks[s]
        /\ u.tasks[x] = [w.tasks[x] EXCEPT !.receipt = receipt]
    BY <1>0 DEF Shape, TaskFields
  <2> HIDE DEF u
  <2>2. /\ Shape(z) /\ z.objects = w.objects /\ z.sessions = w.sessions
        /\ z.disposed = w.disposed /\ z.requests = w.requests
        /\ \A s \in Tasks \ {x} : z.tasks[s] = w.tasks[s]
        /\ z.tasks[x] = [u.tasks[x] EXCEPT !.slot = Nothing]
    BY <1>0, <2>1 DEF Shape, TaskFields
  <2> HIDE DEF z
  <2>3. /\ Shape(gone) /\ gone.objects = w.objects /\ gone.sessions = w.sessions
        /\ gone.disposed = w.disposed /\ gone.requests = w.requests
        /\ \A s \in Tasks \ {x} : gone.tasks[s] = w.tasks[s]
        /\ gone.tasks[x] = [z.tasks[x] EXCEPT !.pc = "recording"]
    BY <1>0, <2>2 DEF Shape, TaskFields, Goto
  <2>4. DOMAIN w.tasks[x] = TaskFields
    BY <1>0 DEF Shape
  <2> HIDE DEF gone
  <2>5. /\ gone.tasks[x].pc = "recording" /\ gone.tasks[x].receipt = receipt
        /\ gone.tasks[x].object = w.tasks[x].object /\ gone.tasks[x].session = w.tasks[x].session
        /\ gone.tasks[x].message = w.tasks[x].message
        /\ gone.tasks[x].generation = w.tasks[x].generation
        /\ gone.tasks[x].report = w.tasks[x].report
    BY <2>1, <2>2, <2>3, <2>4 DEF TaskFields
  <2>6. QED
    BY <2>3, <2>5
<1> HIDE DEF ended, gone
<1>4. Sound(gone, h, Tasks, K)
  <2>1. Goes(x, w, gone, h, K)
    BY <1>3 DEF Goes
  <2>2. QED
    BY <2>1, HookGoes
<1>5. QED
  BY <1>1, <1>2, <1>3, <1>4 DEF Spenders

LEMMA FailedSound ==
  ASSUME NEW w, NEW h, NEW K, NEW x \in Transforms, Sound(w, h, Tasks \ {x}, K),
         HookHolds(w, x, h), Pending(w, x), NEW v, v = Failed(w, x)
  PROVE  Sound(v, h, Tasks, K) /\ v.tasks[x].pc \in Spenders
<1> DEFINE n == w.tasks[x].message
           o == w.tasks[x].object
           u == [w EXCEPT !.objects[o].message = n]
<1>0. Shape(w) /\ x \in Tasks
  BY DEF Sound, Whole, Tasks
<1>1. v = End(w, x, "silent") \/ v = End(u, x, "part")
  BY DEF Failed
<1>2. n \in 1..h.latest[w.objects[o].session]
  BY DEF HookHolds
<1>3. u = [w EXCEPT !.objects[o].message = n]
  OBVIOUS
<1> HIDE DEF u, n, o
<1>4. Sound(u, h, Tasks \ {x}, K)
  <2>1. n \in (1..h.latest[w.objects[o].session]) \cup {Undefined, Label}
    BY <1>2
  <2>2. QED
    BY <1>3, <2>1, LabelSound, ZenonT(30)
<1>5. Shape(u)
  BY <1>4 DEF Sound, Whole
<1>6. ASSUME v = End(w, x, "silent")
      PROVE  Sound(v, h, Tasks, K) /\ v.tasks[x].pc = "done"
  BY <1>0, <1>6, EndSound, EndMoves
<1>7. ASSUME v = End(u, x, "part")
      PROVE  Sound(v, h, Tasks, K) /\ v.tasks[x].pc = "done"
  BY <1>0, <1>4, <1>5, <1>7, EndSound, EndMoves
<1>8. QED
  BY <1>1, <1>6, <1>7 DEF Spenders

LEMMA SelectSound ==
  ASSUME NEW w, NEW h, NEW T, NEW K \in SUBSET Transforms, Sound(w, h, T, K),
         NEW t \in Tasks, t \notin T, NEW c, NEW v, v = Select(w, t, c)
  PROVE  Sound(v, h, T, K) /\ Alike(t, w, v)
<1> DEFINE o == w.tasks[t].object
           i == w.objects[o].resolving
           array == [repository |-> Home[w.objects[o].session], id |-> o]
           w1 == Send(w, t, "select", array, Undefined, o, c)
           j == w1.tasks[t].slot
<1>0. Whole(w) /\ Shape(w)
  BY DEF Sound, Whole
<1>1. CASE i # Nothing
  <2>1. v = [w EXCEPT !.tasks[t].slot = i]
    BY <1>1 DEF Select
  <2> HIDE DEF i
  <2>2. /\ Alike(t, w, v) /\ Shape(v)
        /\ v.objects = w.objects /\ v.sessions = w.sessions /\ v.disposed = w.disposed
        /\ v.requests = w.requests /\ \A s \in Tasks \ {t} : v.tasks[s] = w.tasks[s]
    BY <1>0, <2>1, AlikeSlot
  <2>3. \A s \in Tasks \cap T : v.tasks[s] = w.tasks[s]
    BY <2>2
  <2>4. QED
    BY <2>2, <2>3, TasksSound
<1>2. CASE i = Nothing
  <2>1. v = [w1 EXCEPT !.objects[o].resolving = j]
    BY <1>2 DEF Select
  <2>2. w1 = Send(w, t, "select", array, Undefined, o, c)
    OBVIOUS
  <2> HIDE DEF o, array, w1, j, i
  <2>3. Sound(w1, h, T, K) /\ Alike(t, w, w1)
    BY <2>2, SendAlike
  <2>4. Shape(w1)
    BY <2>3 DEF Sound, Whole
  <2>5. /\ DOMAIN v = DOMAIN w1 /\ v.sessions = w1.sessions /\ v.disposed = w1.disposed
        /\ v.tasks = w1.tasks /\ v.requests = w1.requests
        /\ v.objects = [w1.objects EXCEPT ![o] = [@ EXCEPT !["resolving"] = j]]
    BY <2>1, <2>4 DEF Shape
  <2>6. Sound(v, h, T, K) /\ Alike(t, w1, v)
    BY <2>3, <2>5, OtherSound
  <2>7. QED
    BY <2>3, <2>6, AlikeTwice
<1>3. QED
  BY <1>1, <1>2

LEMMA CachedSound ==
  ASSUME NEW w, NEW h, NEW T, NEW K, Sound(w, h, T, K), NEW t, NEW o, NEW e,
         o \in In(w) => CacheSound(w, e, h.asked[w.objects[o].session], K),
         NEW v, v = [w EXCEPT !.objects[o].cache = e]
  PROVE  Sound(v, h, T, K) /\ v.requests = w.requests /\ Alike(t, w, v)
<1> DEFINE b == [w.objects[o] EXCEPT !.cache = e]
<1>0. Shape(w) /\ Mapped(w)
  BY DEF Sound, Whole
<1>1. Edited(w, v, o, b)
  BY <1>0 DEF Shape, Edited
<1>2. In(w) \subseteq Objects
  BY <1>0, InListed DEF Mapped
<1>3. o \in Objects => /\ DOMAIN b = ObjectFields /\ b.message = w.objects[o].message
                       /\ b.session = w.objects[o].session /\ b.generation = w.objects[o].generation
                       /\ b.terms = w.objects[o].terms /\ b.cache = e
  BY <1>0 DEF Mapped, Listed, ObjectFields
<1>4. o \in In(w) => ObjectSound(w, o, h, K)
  BY DEF Sound
<1> HIDE DEF b
<1>5. Edits(w, o, b, h, K)
  BY <1>2, <1>3, <1>4 DEF ObjectSound, Edits
<1>6. /\ Sound(v, h, T, K) /\ In(v) = In(w)
      /\ \A p \in Objects : v.objects[p].session = w.objects[p].session
  BY <1>1, <1>5, ObjectsSound
<1>7. /\ \A p \in Objects : p # o => v.objects[p] = w.objects[p]
      /\ o \in Objects => v.objects[o] = b
  BY <1>0, <1>1 DEF Edited, Mapped, Listed
<1>8. \A p \in Objects : v.objects[p].generation = w.objects[p].generation
  BY <1>3, <1>7
<1>9. QED
  BY <1>1, <1>6, <1>8 DEF Alike, Edited

\* A hook that is given an entry waits for it or records what it says.
LEMMA EntryGoes ==
  ASSUME NEW w, NEW h, NEW K, NEW x \in Transforms, Sound(w, h, Tasks \ {x}, K),
         HookHolds(w, x, h), Pending(w, x), w.tasks[x].receipt = Nothing, NEW e,
         Fresh(w, x) => EntrySound(w, e, h.asked[w.tasks[x].session], K),
         NEW v, v = IF e.slot = Nothing THEN Inject(w, x, e.receipt)
                    ELSE Goto([w EXCEPT !.tasks[x].slot = e.slot], x, "recalling")
  PROVE  /\ Sound(v, h, Tasks, K) /\ v.tasks[x].pc \in Spenders
         /\ v.tasks[x].report \in {"silent", w.tasks[x].report}
<1> DEFINE i == e.slot
           u == [w EXCEPT !.tasks[x].slot = i]
           z == Goto(u, x, "recalling")
<1>0. Whole(w) /\ Shape(w) /\ x \in Tasks
  BY DEF Sound, Whole, Tasks
<1>1. CASE i = Nothing
  <2>1. v = Inject(w, x, e.receipt)
    BY <1>1
  <2>2. e.receipt # Nothing /\ Fresh(w, x) => e.receipt.terms \in h.asked[w.tasks[x].session]
    BY <1>1 DEF EntrySound
  <2>3. QED
    BY <2>1, <2>2, InjectSound
<1>2. CASE i # Nothing
  <2>1. v = z
    BY <1>2
  <2>2. Fresh(w, x) => i \in Spent(K) /\ w.requests[i].terms \in h.asked[w.tasks[x].session]
    BY <1>2 DEF EntrySound
  <2> HIDE DEF i
  <2>3. /\ Shape(u) /\ u.objects = w.objects /\ u.sessions = w.sessions
        /\ u.disposed = w.disposed /\ u.requests = w.requests
        /\ \A s \in Tasks \ {x} : u.tasks[s] = w.tasks[s]
        /\ u.tasks[x] = [w.tasks[x] EXCEPT !.slot = i]
    BY <1>0 DEF Shape, TaskFields
  <2> HIDE DEF u
  <2>4. /\ Shape(z) /\ z.objects = w.objects /\ z.sessions = w.sessions
        /\ z.disposed = w.disposed /\ z.requests = w.requests
        /\ \A s \in Tasks \ {x} : z.tasks[s] = w.tasks[s]
        /\ z.tasks[x] = [u.tasks[x] EXCEPT !.pc = "recalling"]
    BY <1>0, <2>3 DEF Shape, TaskFields, Goto
  <2>5. DOMAIN w.tasks[x] = TaskFields
    BY <1>0 DEF Shape
  <2> HIDE DEF z
  <2>6. /\ z.tasks[x].pc = "recalling" /\ z.tasks[x].receipt = Nothing
        /\ z.tasks[x].object = w.tasks[x].object /\ z.tasks[x].session = w.tasks[x].session
        /\ z.tasks[x].message = w.tasks[x].message
        /\ z.tasks[x].generation = w.tasks[x].generation
        /\ z.tasks[x].report = w.tasks[x].report /\ z.tasks[x].slot = i
    BY <2>3, <2>4, <2>5 DEF TaskFields
  <2>7. Goes(x, w, z, h, K)
    BY <2>2, <2>4, <2>6 DEF Goes
  <2>8. Sound(z, h, Tasks, K)
    BY <2>7, HookGoes
  <2>9. QED
    BY <2>1, <2>6, <2>8 DEF Spenders
<1>3. QED
  BY <1>1, <1>2

LEMMA AutomaticSound ==
  ASSUME NEW w, NEW h, NEW K \in SUBSET Transforms, NEW x \in Transforms, x \notin K,
         Sound(w, h, Tasks \ {x}, K),
         HookHolds(w, x, h), Pending(w, x), w.tasks[x].receipt = Nothing,
         NEW v, v = Automatic(w, x)
  PROVE  /\ Sound(v, h, Tasks, K \cup {x}) /\ v.tasks[x].pc \in Spenders
         /\ v.tasks[x].report \in {"silent", w.tasks[x].report}
<1> DEFINE o == w.tasks[x].object
           s == w.tasks[x].session
           L == K \cup {x}
           T == Tasks \ {x}
           key == Key(w, o)
           terms == key.terms
           targets == w.objects[o].targets
           cache == w.objects[o].cache
           send == Send(w, x, "recall", targets, terms, o, Nothing)
           sent == IF terms = Undefined THEN w ELSE send
           slot == IF terms = Undefined THEN Nothing ELSE sent.tasks[x].slot
           hit == cache # Nothing /\ cache.key = key
           new == [key |-> key, slot |-> slot, receipt |-> Nothing]
           entry == IF hit THEN cache ELSE new
           u == [sent EXCEPT !.objects[o].cache = entry]
           w1 == IF hit THEN w ELSE u
           S == h.asked[s]
           op == "recall"
<1>0. x \in Tasks /\ Mapped(w) /\ o \in Objects /\ w.objects[o].session = s /\ x \in L
  BY DEF Tasks, Sound, Whole, HookHolds
<1>1. v = IF entry.slot = Nothing THEN Inject(w1, x, entry.receipt)
          ELSE Goto([w1 EXCEPT !.tasks[x].slot = entry.slot], x, "recalling")
  BY DEF Automatic
<1>2. terms = w.objects[o].terms
  BY DEF Key
<1>3. /\ new.slot = slot /\ new.receipt = Nothing
      /\ ~hit => entry = new /\ w1 = u /\ u = [sent EXCEPT !.objects[o].cache = new]
      /\ hit => entry = cache /\ cache # Nothing /\ w1 = w
      /\ terms = Undefined => sent = w /\ slot = Nothing
      /\ terms # Undefined => sent = send /\ slot = sent.tasks[x].slot
      /\ send = Send(w, x, op, targets, terms, o, Nothing)
  OBVIOUS
<1> HIDE DEF o, s, key, terms, targets, cache, send, sent, slot, hit, new, entry, u, w1, S, L, T, op
<1>4. Sound(w, h, T, L) /\ Sound(w, h, T, K) /\ x \notin T
  BY SoundMore DEF L, T
<1>5. /\ Sound(send, h, T, K) /\ Alike(x, w, send)
      /\ send.tasks[x].slot = SlotOf(x, op) /\ send.requests[SlotOf(x, op)].terms = terms
  <2>1. /\ x \in Tasks /\ Sound(w, h, T, K) /\ x \notin T
        /\ x \in K => op = "select"
        /\ send = Send(w, x, op, targets, terms, o, Nothing)
    BY <1>0, <1>3, <1>4
  <2>2. QED
    BY <2>1, SendAlike
<1>6. o \in In(w) => (terms \in S \cup {Undefined}) /\ CacheSound(w, cache, S, L)
  BY <1>0, <1>2, <1>4 DEF Sound, ObjectSound, cache, S
<1>7. Sound(sent, h, T, L) /\ Alike(x, w, sent)
  <2>1. CASE terms = Undefined
    BY <1>3, <1>4, <2>1 DEF Alike
  <2>2. CASE terms # Undefined
    BY <1>3, <1>5, <2>2, SoundMore DEF L
  <2>3. QED
    BY <2>1, <2>2
<1>8. terms # Undefined => slot = <<x, "own">> /\ sent.requests[slot].terms = terms
  <2>1. SlotOf(x, op) = <<x, "own">>
    BY DEF SlotOf, op
  <2>2. QED
    BY <1>3, <1>5, <2>1
<1>9. <<x, "own">> \in Spent(L)
  BY <1>0 DEF Spent
<1>10. o \in In(w) => EntrySound(sent, new, S, L)
  <2>1. CASE terms = Undefined
    BY <1>3, <2>1 DEF EntrySound
  <2>2. CASE terms # Undefined
    <3>1. slot # Nothing
      BY <1>0, <1>8, <2>2, SlotsAssumption
    <3>2. QED
      BY <1>3, <1>6, <1>8, <1>9, <2>2, <3>1 DEF EntrySound
  <2>3. QED
    BY <2>1, <2>2
<1>11. sent.objects[o].session = s /\ In(sent) = In(w)
  BY <1>0, <1>7 DEF Alike
<1>12. ~hit => /\ Sound(u, h, T, L) /\ u.requests = sent.requests /\ Alike(x, sent, u)
  <2>1. o \in In(sent) => CacheSound(sent, new, h.asked[sent.objects[o].session], L)
    BY <1>10, <1>11 DEF CacheSound, S
  <2>2. ASSUME u = [sent EXCEPT !.objects[o].cache = new]
        PROVE  Sound(u, h, T, L) /\ u.requests = sent.requests /\ Alike(x, sent, u)
    <3>1. Sound(sent, h, T, L)
      BY <1>7
    <3>2. Sound(u, h, T, L)
      BY <2>1, <2>2, <3>1, CachedSound
    <3>3. u.requests = sent.requests
      BY <2>1, <2>2, <3>1, CachedSound
    <3>4. Alike(x, sent, u)
      BY <2>1, <2>2, <3>1, CachedSound
    <3>5. QED
      BY <3>2, <3>3, <3>4
  <2>3. QED
    BY <1>3, <2>2
<1>13. Sound(w1, h, T, L) /\ Alike(x, w, w1) /\ (o \in In(w) => EntrySound(w1, entry, S, L))
  <2>1. CASE hit
    <3>1. Alike(x, w, w)
      BY DEF Alike
    <3>2. QED
      BY <1>3, <1>4, <1>6, <2>1, <3>1 DEF CacheSound
  <2>2. CASE ~hit
    <3>1. Alike(x, w, u)
      BY <1>7, <1>12, <2>2, AlikeTwice
    <3>2. o \in In(w) => EntrySound(u, new, S, L)
      BY <1>10, <1>12, <2>2 DEF EntrySound
    <3>3. QED
      BY <1>3, <1>12, <2>2, <3>1, <3>2
  <2>3. QED
    BY <2>1, <2>2
<1>14. /\ w1.tasks[x].pc = w.tasks[x].pc /\ w1.tasks[x].receipt = Nothing
       /\ w1.tasks[x].session = s /\ w1.tasks[x].object = o
  BY <1>13, AlikeTask DEF s, o
<1>15. Pending(w1, x) /\ HookHolds(w1, x, h) /\ w1.tasks[x].report = w.tasks[x].report
  <2>1. w1.tasks[x].report = w.tasks[x].report
    BY <1>13 DEF Alike, TaskFields
  <2>2. QED
    BY <1>0, <1>13, <1>14, <2>1, AlikeHolds DEF Pending
<1>16. Fresh(w1, x) => EntrySound(w1, entry, h.asked[w1.tasks[x].session], L)
  BY <1>13, <1>14 DEF Fresh, Alike, S
<1>17. QED
  BY <1>1, <1>13, <1>14, <1>15, <1>16, EntryGoes DEF L, T

LEMMA SoundLess ==
  ASSUME NEW w, NEW h, NEW K, Sound(w, h, Tasks, K), NEW T, T \subseteq Tasks
  PROVE  /\ Sound(w, h, T, K)
         /\ \A x \in Transforms : HookSound(w, x, h, K)
         /\ \A c \in Calls : CallSound(w, c)
<1>1. /\ \A x \in Transforms : HookSound(w, x, h, K)
      /\ \A c \in Calls : CallSound(w, c)
  BY DEF Sound, Tasks
<1>2. Sound(w, h, T, K)
  BY <1>1 DEF Sound
<1>3. QED
  BY <1>1, <1>2

LEMMA SelectedSound ==
  ASSUME NEW w, NEW h, NEW T, NEW K, Sound(w, h, T, K), NEW t, NEW v, v = Selected(w, t)
  PROVE  Sound(v, h, T, K) /\ Alike(t, w, v)
<1> DEFINE o == w.tasks[t].object
           e == IF Answer(w, t).outcome = "ok" THEN Answer(w, t).targets ELSE w.objects[o].targets
           u == [w EXCEPT !.objects[o].resolving = Nothing]
           z == [u EXCEPT !.objects[o].targets = e]
<1>0. Shape(w) /\ Mapped(w)
  BY DEF Sound, Whole
<1>1. v = [w EXCEPT !.objects[o].resolving = Nothing,
                    !.objects[o].targets = IF Answer(w, t).outcome = "ok" THEN Answer(w, t).targets ELSE @]
  BY DEF Selected
<1>2. u.objects[o].targets = w.objects[o].targets \/ o \notin Objects
  BY <1>0 DEF Shape, Mapped, Listed, ObjectFields
<1>3. v = z
  <2>1. CASE o \in Objects
    BY <1>1, <1>2, <2>1
  <2>2. CASE o \notin Objects
    BY <1>0, <1>1, <2>2 DEF Shape, Mapped, Listed
  <2>3. QED
    BY <2>1, <2>2
<1>4. /\ DOMAIN u = DOMAIN w /\ u.sessions = w.sessions /\ u.disposed = w.disposed
      /\ u.tasks = w.tasks /\ u.requests = w.requests
      /\ u.objects = [w.objects EXCEPT ![o] = [@ EXCEPT !["resolving"] = Nothing]]
  BY <1>0 DEF Shape
<1> HIDE DEF e, o, u
<1>5. Sound(u, h, T, K) /\ Alike(t, w, u)
  BY <1>4, OtherSound
<1>6. /\ DOMAIN z = DOMAIN u /\ z.sessions = u.sessions /\ z.disposed = u.disposed
      /\ z.tasks = u.tasks /\ z.requests = u.requests
      /\ z.objects = [u.objects EXCEPT ![o] = [@ EXCEPT !["targets"] = e]]
  BY <1>0, <1>4 DEF Shape
<1> HIDE DEF z
<1>7. Sound(z, h, T, K) /\ Alike(t, u, z)
  BY <1>5, <1>6, OtherSound
<1>8. QED
  BY <1>3, <1>5, <1>7, AlikeTwice

\* What an operator leaves of a hook that is under way.
LEMMA AlikeHook ==
  ASSUME NEW w, NEW v, NEW h, NEW x, Alike(x, w, v), Mapped(w), HookHolds(w, x, h), Pending(w, x)
  PROVE  HookHolds(v, x, h) /\ Pending(v, x) /\ v.tasks[x].report = w.tasks[x].report
<1>1. v.tasks[x].pc = w.tasks[x].pc /\ v.tasks[x].report = w.tasks[x].report
  BY DEF Alike, TaskFields
<1>2. QED
  BY <1>1, AlikeHolds DEF Pending

LEMMA RecalledSound ==
  ASSUME NEW w, NEW h, NEW K, NEW x \in Transforms, x \in K, Sound(w, h, Tasks, K),
         w.tasks[x].pc = "recalling", NEW v, v = Recalled(w, x)
  PROVE  Sound(v, h, Tasks, K) /\ v.tasks[x].pc \in Spenders
<1> DEFINE r == Answer(w, x)
           e == IF r.outcome = "ok" THEN Receipt(r.targets, r.terms) ELSE Nothing
           T == Tasks \ {x}
<1>1. Sound(w, h, T, K) /\ HookSound(w, x, h, K)
  BY SoundLess
<1>2. v = Inject(w, x, e)
  BY DEF Recalled
<1>3. e # Nothing => e.terms = r.terms
  BY DEF Receipt
<1>4. Fresh(w, x) => r.terms \in h.asked[w.tasks[x].session]
  BY <1>1 DEF HookSound, Answer
<1>5. HookHolds(w, x, h) /\ Pending(w, x)
  BY <1>1 DEF HookSound, Pending
<1> HIDE DEF e, r, T
<1>6. e # Nothing /\ Fresh(w, x) => e.terms \in h.asked[w.tasks[x].session]
  BY <1>3, <1>4
<1>7. QED
  BY <1>1, <1>2, <1>5, <1>6, InjectSound DEF T

LEMMA TransformingSound ==
  ASSUME NEW w, NEW h, NEW K \in SUBSET Transforms, NEW x \in Transforms, Sound(w, h, Tasks, K),
         w.tasks[x].pc \in {"selecting", "recalling"}, w.tasks[x].pc = "recalling" <=> x \in K,
         NEW v, v = Transforming(w, x)
  PROVE  Sound(v, h, Tasks, K \cup {x}) /\ v.tasks[x].pc \in Spenders
<1> DEFINE u == Selected(w, x)
           T == Tasks \ {x}
<1>0. Mapped(w) /\ x \in Tasks
  BY DEF Sound, Whole, Tasks
<1>1. Sound(w, h, T, K) /\ HookSound(w, x, h, K) /\ u = Selected(w, x)
  BY SoundLess
<1>2. HookHolds(w, x, h) /\ Pending(w, x)
  BY <1>1 DEF HookSound, Pending
<1>3. CASE w.tasks[x].pc = "recalling"
  <2>1. v = Recalled(w, x) /\ x \in K /\ K \cup {x} = K
    BY <1>3 DEF Transforming
  <2>2. QED
    BY <1>3, <2>1, RecalledSound
<1>4. CASE w.tasks[x].pc = "selecting"
  <2>1. (v = Automatic(u, x) \/ v = Failed(u, x)) /\ x \notin K /\ w.tasks[x].receipt = Nothing
    BY <1>1, <1>4 DEF Transforming, HookSound
  <2> HIDE DEF u, T
  <2>2. Sound(u, h, T, K) /\ Alike(x, w, u)
    BY <1>1, SelectedSound
  <2>3. HookHolds(u, x, h) /\ Pending(u, x)
    BY <1>0, <1>2, <2>2, AlikeHook
  <2>4. u.tasks[x].receipt = Nothing
    BY <2>1, <2>2, AlikeTask
  <2>5. ASSUME v = Automatic(u, x)
        PROVE  Sound(v, h, Tasks, K \cup {x}) /\ v.tasks[x].pc \in Spenders
    BY <2>1, <2>2, <2>3, <2>4, <2>5, AutomaticSound DEF T
  <2>6. ASSUME v = Failed(u, x)
        PROVE  Sound(v, h, Tasks, K \cup {x}) /\ v.tasks[x].pc \in Spenders
    <3>1. Sound(v, h, Tasks, K) /\ v.tasks[x].pc \in Spenders
      BY <2>2, <2>3, <2>6, FailedSound DEF T
    <3>2. QED
      BY <3>1, SoundMore
  <2>7. QED
    BY <2>1, <2>5, <2>6
<1>5. QED
  BY <1>3, <1>4

\* What an operator on session s, which may list an object of it, starts from.
Hosts(w, s, h) == s \in Sessions /\ CanHold(w, s) /\ (Held(w, s) = {} => h.session = s)

LEMMA LocatedSound ==
  ASSUME NEW w, NEW h, NEW K \in SUBSET Transforms, NEW x \in Transforms, x \notin K,
         Sound(w, h, Tasks \ {x}, K), HookHolds(w, x, h), Pending(w, x),
         w.tasks[x].receipt = Nothing, NEW s, s = w.tasks[x].session, Hosts(w, s, h),
         w.tasks[x].message \in h.asked[s], NEW v, v = Located(w, x)
  PROVE  /\ SoundNow(v, x, h, K) /\ v.tasks[x].pc \in {"selecting", "recalling", "recording", "done"}
         /\ v.tasks[x].report \in {"silent", "off", w.tasks[x].report}
<1> DEFINE n == w.tasks[x].message
           o == w.tasks[x].object
           T == Tasks \ {x}
           w0 == Capture(w, s, n)
           w1 == IF w.objects[o].message # n THEN w0 ELSE w
           g == w1.objects[o].generation
           w2 == [w1 EXCEPT !.tasks[x].generation = g]
           w3 == Select(w2, x, Nothing)
           w4 == Goto(w3, x, "selecting")
           w5 == Automatic(w2, x)
           w6 == End(w1, x, "off")
<1>0. /\ Shape(w) /\ Mapped(w) /\ x \in Tasks /\ s # Nothing /\ s \in Sessions
      /\ CanHold(w, s) /\ o \in Objects /\ w.objects[o].session = s
      /\ n \in 1..h.latest[s]
  BY NothingAssumption DEF Sound, Whole, Tasks, HookHolds, Hosts
<1>1. w0 = Capture(w, s, n) /\ w1 \in {w0, w} /\ Sound(w, h, T, K) /\ n \in h.asked[s]
  OBVIOUS
<1>2. v \in {w4, w5, w6}
  BY DEF Located
<1>3. w2 = [w1 EXCEPT !.tasks[x].generation = g]
  OBVIOUS
<1>4. w3 = Select(w2, x, Nothing) /\ w4 = Goto(w3, x, "selecting") /\ w5 = Automatic(w2, x)
      /\ w6 = End(w1, x, "off")
  OBVIOUS
<1>5. g = w1.objects[o].generation
  OBVIOUS
<1> HIDE DEF n, o, T, w0, w1, g, w2, w3, w4, w5, w6
<1>6. Sound(w0, h, T, K) /\ w0.tasks = w.tasks
  <2>1. Held(w, s) = {} => h.session = s
    BY DEF Hosts
  <2>2. QED
    BY <1>0, <1>1, <2>1, CaptureSound
<1>7. w0.objects[o].session = s
  <2>1. Steady(w, w0, {s})
    BY <1>0, <1>1, CaptureWithin DEF Within
  <2>2. QED
    BY <1>0, <2>1 DEF Steady
<1>8. Sound(w1, h, T, K) /\ w1.tasks = w.tasks /\ w1.objects[o].session = s
  BY <1>0, <1>1, <1>6, <1>7
<1>9. Shape(w1) /\ Whole(w1) /\ g \in Nat
  BY <1>0, <1>5, <1>8 DEF Sound, Whole
<1>10. /\ Shape(w2) /\ w2.objects = w1.objects /\ w2.sessions = w1.sessions
       /\ w2.disposed = w1.disposed /\ w2.requests = w1.requests
       /\ \A t \in Tasks \ {x} : w2.tasks[t] = w1.tasks[t]
       /\ w2.tasks[x] = [w.tasks[x] EXCEPT !.generation = g]
  BY <1>0, <1>3, <1>8, <1>9 DEF Shape, TaskFields
<1>11. /\ w2.tasks[x].generation = g /\ w2.tasks[x].object = o /\ w2.tasks[x].session = s
       /\ w2.tasks[x].message = n /\ w2.tasks[x].pc = w.tasks[x].pc
       /\ w2.tasks[x].receipt = Nothing /\ w2.tasks[x].report = w.tasks[x].report
  <2>1. DOMAIN w.tasks[x] = TaskFields
    BY <1>0 DEF Shape
  <2>2. QED
    BY <1>10, <2>1 DEF TaskFields, o, n
<1>12. HookHolds(w2, x, h) /\ Pending(w2, x)
  BY <1>0, <1>5, <1>8, <1>9, <1>10, <1>11 DEF HookHolds, Pending
<1>13. Sound(w2, h, T, K)
  <2>1. \A t \in Tasks \cap T : w2.tasks[t] = w1.tasks[t]
    BY <1>10 DEF T
  <2>2. QED
    BY <1>8, <1>10, <2>1, TasksSound
<1>14. /\ Sound(w5, h, Tasks, K \cup {x}) /\ w5.tasks[x].pc \in Spenders
       /\ w5.tasks[x].report \in {"silent", w.tasks[x].report}
  BY <1>4, <1>11, <1>12, <1>13, AutomaticSound DEF T
<1>15. Sound(w3, h, T, K) /\ Alike(x, w2, w3)
  <2>1. x \notin T
    BY DEF T
  <2>2. QED
    BY <1>0, <1>4, <1>13, <2>1, SelectSound
<1>16. HookHolds(w3, x, h) /\ Pending(w3, x) /\ w3.tasks[x].receipt = Nothing
       /\ w3.tasks[x].report = w.tasks[x].report
  <2>1. Mapped(w2)
    BY <1>13 DEF Sound, Whole
  <2>2. QED
    BY <1>11, <1>12, <1>15, <2>1, AlikeHook, AlikeTask
<1>17. Goes(x, w3, w4, h, K) /\ w4.tasks[x].pc = "selecting"
       /\ w4.tasks[x].report = w3.tasks[x].report
  <2>1. Shape(w3) /\ DOMAIN w3.tasks[x] = TaskFields
    BY <1>0, <1>15 DEF Sound, Whole, Shape
  <2>2. /\ Shape(w4) /\ w4.objects = w3.objects /\ w4.sessions = w3.sessions
        /\ w4.disposed = w3.disposed /\ w4.requests = w3.requests
        /\ \A t \in Tasks \ {x} : w4.tasks[t] = w3.tasks[t]
        /\ w4.tasks[x] = [w3.tasks[x] EXCEPT !.pc = "selecting"]
    BY <1>0, <1>4, <2>1 DEF Shape, TaskFields, Goto
  <2>3. /\ w4.tasks[x].pc = "selecting" /\ w4.tasks[x].receipt = Nothing
        /\ w4.tasks[x].object = w3.tasks[x].object /\ w4.tasks[x].session = w3.tasks[x].session
        /\ w4.tasks[x].message = w3.tasks[x].message
        /\ w4.tasks[x].generation = w3.tasks[x].generation
        /\ w4.tasks[x].report = w3.tasks[x].report
    BY <1>16, <2>1, <2>2 DEF TaskFields
  <2>4. QED
    BY <2>2, <2>3 DEF Goes
<1>18. Sound(w4, h, Tasks, K)
  BY <1>15, <1>16, <1>17, HookGoes DEF T
<1>19. Sound(w6, h, Tasks, K) /\ w6.tasks[x].pc = "done" /\ w6.tasks[x].report = "off"
  <2>1. Sound(w6, h, Tasks, K)
    BY <1>0, <1>4, <1>8, EndSound DEF T
  <2>2. Shape(w1) /\ x \in Tasks
    BY <1>0, <1>9
  <2>3. w6.tasks[x].pc = "done" /\ w6.tasks[x].report = "off"
    BY <1>4, <2>2, EndMoves
  <2>4. QED
    BY <2>1, <2>3
<1>20. QED
  BY <1>2, <1>14, <1>16, <1>17, <1>18, <1>19 DEF SoundNow, Spenders

LEMMA UnlocatedSound ==
  ASSUME NEW w, NEW h, NEW K \in SUBSET Transforms, NEW x \in Transforms,
         Sound(w, h, Tasks \ {x}, K), HookHolds(w, x, h), Pending(w, x),
         NEW s, s = w.tasks[x].session, Hosts(w, s, h), NEW v, v = Unlocated(w, x)
  PROVE  Sound(v, h, Tasks, K) /\ v.tasks[x].pc \in Spenders
<1> DEFINE n == w.tasks[x].message
           w1 == StateFor(w, s)
           o == Latest(w1)
           u == [w1 EXCEPT !.objects[o].message = n]
           T == Tasks \ {x}
<1>0. /\ Shape(w) /\ x \in Tasks /\ s \in Sessions /\ CanHold(w, s)
      /\ n \in 1..h.latest[s] /\ Sound(w, h, T, K)
  BY DEF Sound, Whole, Tasks, HookHolds, Hosts
<1>1. v = End(w, x, "silent") \/ v = End(u, x, "part")
  BY DEF Unlocated
<1>2. u = [w1 EXCEPT !.objects[o].message = n] /\ w1 = StateFor(w, s) /\ o = Latest(w1)
  OBVIOUS
<1> HIDE DEF u, n, o, w1, T
<1>3. Sound(w1, h, T, K) /\ w1.objects[o].session = s
  <2>1. Held(w, s) = {} => h.session = s
    BY DEF Hosts
  <2>2. QED
    BY <1>0, <1>2, <2>1, StateForSound
<1>4. Sound(u, h, T, K)
  <2>1. n \in (1..h.latest[w1.objects[o].session]) \cup {Undefined, Label}
    BY <1>0, <1>3
  <2>2. QED
    BY <1>2, <1>3, <2>1, LabelSound, ZenonT(30)
<1>5. Shape(u)
  BY <1>4 DEF Sound, Whole
<1>6. ASSUME v = End(w, x, "silent")
      PROVE  Sound(v, h, Tasks, K) /\ v.tasks[x].pc = "done"
  BY <1>0, <1>6, EndSound, EndMoves
<1>7. ASSUME v = End(u, x, "part")
      PROVE  Sound(v, h, Tasks, K) /\ v.tasks[x].pc = "done"
  BY <1>0, <1>4, <1>5, <1>7, EndSound, EndMoves DEF T
<1>8. QED
  BY <1>1, <1>6, <1>7 DEF Spenders

LEMMA TransformSound ==
  ASSUME NEW w, NEW h, NEW K \in SUBSET Transforms, NEW x \in Transforms, x \notin K,
         Sound(w, h, Tasks \ {x}, K), NEW s, Hosts(w, s, h),
         NEW n, n \in h.asked[s], n \in 1..h.latest[s], NEW v, v = Transform(w, x, s, n)
  PROVE  SoundNow(v, x, h, K)
<1> DEFINE w1 == StateFor(w, s)
           o == Latest(w1)
           e == [Idle EXCEPT !.pc = "locating", !.session = s, !.message = n, !.object = o]
           u == [w1 EXCEPT !.tasks[x] = e]
           T == Tasks \ {x}
<1>0. /\ Shape(w) /\ x \in Tasks /\ s \in Sessions /\ CanHold(w, s) /\ Sound(w, h, T, K)
      /\ Held(w, s) = {} => h.session = s
  BY DEF Sound, Whole, Tasks, Hosts
<1>1. v = Located(u, x) \/ v = u
  BY DEF Transform
<1>2. u = [w1 EXCEPT !.tasks[x] = e] /\ w1 = StateFor(w, s) /\ o = Latest(w1)
  OBVIOUS
<1>3. /\ DOMAIN e = TaskFields /\ e.pc = "locating" /\ e.session = s /\ e.message = n
      /\ e.object = o /\ e.generation = 0 /\ e.receipt = Nothing
  BY DEF Idle, TaskFields
<1> HIDE DEF u, o, w1, T, e
<1>4. /\ Sound(w1, h, T, K) /\ w1.tasks = w.tasks /\ o \in Objects
      /\ w1.objects[o].session = s /\ Held(w1, s) # {} /\ CanHold(w1, s)
  BY <1>0, <1>2, StateForSound
<1>5. Whole(w1) /\ Shape(w1)
  BY <1>4 DEF Sound, Whole
<1>6. /\ Shape(u) /\ u.objects = w1.objects /\ u.sessions = w1.sessions
      /\ u.disposed = w1.disposed /\ u.requests = w1.requests
      /\ \A t \in Tasks \ {x} : u.tasks[t] = w1.tasks[t]
      /\ u.tasks[x] = e
  BY <1>0, <1>2, <1>3, <1>5 DEF Shape
<1>7. Sound(u, h, T, K)
  <2>1. \A t \in Tasks \cap T : u.tasks[t] = w1.tasks[t]
    BY <1>6 DEF T
  <2>2. QED
    BY <1>4, <1>6, <2>1, TasksSound
<1>8. HookHolds(u, x, h) /\ Pending(u, x)
  <2>1. w1.objects[o].generation \in Nat /\ 0 <= w1.objects[o].generation
    BY <1>4, <1>5 DEF Whole
  <2>2. QED
    BY <1>0, <1>3, <1>4, <1>6, <2>1 DEF HookHolds, Pending
<1>9. Hosts(u, s, h)
  BY <1>0, <1>4, <1>6 DEF Hosts, Held, CanHold, Spare
<1>10. ASSUME v = u
       PROVE  SoundNow(v, x, h, K)
  <2>1. HookSound(u, x, h, K)
    BY <1>3, <1>6, <1>8 DEF HookSound
  <2>2. Sound(u, h, Tasks, K)
    BY <1>7, <2>1, HookBack DEF T
  <2>3. QED
    BY <1>10, <2>2 DEF SoundNow
<1>11. ASSUME v = Located(u, x)
       PROVE  SoundNow(v, x, h, K)
  <2>1. u.tasks[x].session = s /\ u.tasks[x].message \in h.asked[s] /\ u.tasks[x].receipt = Nothing
    BY <1>3, <1>6
  <2>2. QED
    BY <1>7, <1>8, <1>9, <1>11, <2>1, LocatedSound DEF T
<1>12. QED
  BY <1>1, <1>10, <1>11

\* What a call may still become; the tasks but c.
Besides(c) == Tasks \ {c}

LEMMA TaskSound ==
  ASSUME NEW w, NEW h, NEW K, NEW c \in Tasks, Sound(w, h, Besides(c), K), NEW e, DOMAIN e = TaskFields,
         NEW v, v = [w EXCEPT !.tasks[c] = e]
  PROVE  /\ Sound(v, h, Besides(c), K) /\ v.tasks[c] = e
         /\ v.objects = w.objects /\ v.sessions = w.sessions /\ v.disposed = w.disposed
         /\ v.requests = w.requests /\ v.approvals = w.approvals
<1>0. Shape(w)
  BY DEF Sound, Whole
<1>1. /\ v.tasks[c] = e
      /\ v.objects = w.objects /\ v.sessions = w.sessions /\ v.disposed = w.disposed
      /\ v.requests = w.requests /\ v.approvals = w.approvals
      /\ \A t \in Tasks \ {c} : v.tasks[t] = w.tasks[t]
  BY <1>0 DEF Shape
<1>2. Shape(v)
  BY <1>0 DEF Shape
<1>3. \A t \in Tasks \cap Besides(c) : v.tasks[t] = w.tasks[t]
  BY <1>1 DEF Besides
<1>4. Sound(v, h, Besides(c), K)
  BY <1>1, <1>2, <1>3, TasksSound
<1>5. QED
  BY <1>1, <1>4

LEMMA FieldSound ==
  ASSUME NEW w, NEW h, NEW K, NEW c \in Tasks, Sound(w, h, Besides(c), K),
         NEW f \in TaskFields, NEW e,
         NEW v, v = [w EXCEPT !.tasks[c] = [w.tasks[c] EXCEPT ![f] = e]]
  PROVE  /\ Sound(v, h, Besides(c), K) /\ v.tasks[c][f] = e
         /\ \A g \in TaskFields : g # f => v.tasks[c][g] = w.tasks[c][g]
         /\ v.objects = w.objects /\ v.sessions = w.sessions /\ v.disposed = w.disposed
         /\ v.requests = w.requests /\ v.approvals = w.approvals
<1> DEFINE z == [w.tasks[c] EXCEPT ![f] = e]
<1>1. DOMAIN w.tasks[c] = TaskFields
  BY DEF Sound, Whole, Shape
<1>2. /\ DOMAIN z = TaskFields /\ z[f] = e
      /\ \A g \in TaskFields : g # f => z[g] = w.tasks[c][g]
      /\ v = [w EXCEPT !.tasks[c] = z]
  BY <1>1
<1> HIDE DEF z
<1>3. DOMAIN z = TaskFields /\ v = [w EXCEPT !.tasks[c] = z]
  BY <1>2
<1>4. Sound(v, h, Besides(c), K)
  BY <1>3, TaskSound
<1>5. /\ v.tasks[c] = z
      /\ v.objects = w.objects /\ v.sessions = w.sessions /\ v.disposed = w.disposed
      /\ v.requests = w.requests /\ v.approvals = w.approvals
  BY <1>3 DEF Sound, Whole, Shape
<1>6. QED
  BY <1>2, <1>4, <1>5

LEMMA NotedSound ==
  ASSUME NEW w, NEW h, NEW T, NEW K, Sound(w, h, T, K), NEW a, NEW e,
         NEW v, v = [w EXCEPT !.approvals[a] = e]
  PROVE  /\ Sound(v, h, T, K) /\ v.tasks = w.tasks /\ v.objects = w.objects
         /\ v.sessions = w.sessions
<1>1. Shape(w)
  BY DEF Sound, Whole
<1>2. /\ v.tasks = w.tasks /\ v.objects = w.objects /\ v.sessions = w.sessions
      /\ v.disposed = w.disposed /\ v.requests = w.requests /\ DOMAIN v = DOMAIN w
  BY <1>1 DEF Shape
<1>3. Shape(v)
  BY <1>1, <1>2, OthersCalm DEF Calm
<1>4. QED
  BY <1>2, <1>3, TasksSound

LEMMA CallGoes ==
  ASSUME NEW w, NEW h, NEW K, NEW c \in Calls, Sound(w, h, Besides(c), K), NEW pc,
         pc = "searching" => /\ w.tasks[c].slot = <<c, "own">>
                             /\ w.requests[<<c, "own">>].terms = w.tasks[c].terms,
         NEW v, v = Goto(w, c, pc)
  PROVE  Sound(v, h, Tasks, K)
<1>1. c \in Tasks
  BY DEF Tasks
<1>2. v = [w EXCEPT !.tasks[c] = [w.tasks[c] EXCEPT !["pc"] = pc]] /\ "pc" \in TaskFields
  BY DEF Goto, TaskFields
<1>3. /\ Sound(v, h, Besides(c), K) /\ v.tasks[c]["pc"] = pc /\ v.requests = w.requests
      /\ \A g \in TaskFields : g # "pc" => v.tasks[c][g] = w.tasks[c][g]
  <2>1. Sound(v, h, Besides(c), K)
    BY <1>1, <1>2, FieldSound
  <2>2. v.tasks[c]["pc"] = pc /\ v.requests = w.requests
    BY <1>1, <1>2, FieldSound
  <2>3. \A g \in TaskFields : g # "pc" => v.tasks[c][g] = w.tasks[c][g]
    BY <1>1, <1>2, FieldSound
  <2>4. QED
    BY <2>1, <2>2, <2>3
<1>4. v.tasks[c].slot = w.tasks[c].slot /\ v.tasks[c].terms = w.tasks[c].terms
  BY <1>3 DEF TaskFields
<1>5. CallSound(v, c)
  BY <1>3, <1>4 DEF CallSound
<1>6. QED
  BY <1>3, <1>5, CallBack DEF Besides

LEMMA SendGoes ==
  ASSUME NEW w, NEW h, NEW K \in SUBSET Transforms, NEW c \in Calls, Sound(w, h, Besides(c), K),
         NEW op, NEW targets, NEW terms, NEW o, NEW d, NEW pc,
         pc = "searching" => op # "select" /\ terms = w.tasks[c].terms,
         NEW v, v = Goto(Send(w, c, op, targets, terms, o, d), c, pc)
  PROVE  Sound(v, h, Tasks, K)
<1> DEFINE u == Send(w, c, op, targets, terms, o, d)
<1>1. c \in Tasks /\ c \notin Besides(c) /\ (c \in K => op = "select")
  BY TasksAssumption DEF Tasks, Besides
<1>2. u = Send(w, c, op, targets, terms, o, d) /\ v = Goto(u, c, pc)
  OBVIOUS
<1> HIDE DEF u
<1>3. Sound(u, h, Besides(c), K) /\ Alike(c, w, u)
  BY <1>1, <1>2, SendAlike
<1>4. u.tasks[c].slot = SlotOf(c, op) /\ u.requests[SlotOf(c, op)].terms = terms
  BY <1>1, <1>2, SendAlike
<1>5. u.tasks[c].terms = w.tasks[c].terms
  BY <1>3, AlikeTask
<1>6. pc = "searching" => SlotOf(c, op) = <<c, "own">>
  BY DEF SlotOf
<1>7. pc = "searching" => /\ u.tasks[c].slot = <<c, "own">>
                          /\ u.requests[<<c, "own">>].terms = u.tasks[c].terms
  BY <1>4, <1>5, <1>6
<1>8. QED
  BY <1>2, <1>3, <1>7, CallGoes

LEMMA WorkSound ==
  ASSUME NEW w, NEW h, NEW K \in SUBSET Transforms, NEW c \in Calls, Sound(w, h, Besides(c), K),
         NEW v, v = Work(w, c)
  PROVE  Sound(v, h, Tasks, K)
<1> DEFINE t == w.tasks[c]
           o == t.object
           g == w.objects[o].generation
           terms == Terms(w, c)
           e == [t EXCEPT !.generation = g, !.terms = terms]
           u == [w EXCEPT !.tasks[c].generation = g, !.tasks[c].terms = terms]
           v1 == Goto(Send(u, c, "remember", t.targets, Undefined, o, c), c, "writing")
           v2 == Goto(Send(u, c, "recall", t.targets, terms, o, c), c, "searching")
<1>0. c \in Tasks /\ Shape(w) /\ DOMAIN t = TaskFields
  BY DEF Tasks, Sound, Whole, Shape
<1>1. v \in {v1, v2}
  BY DEF Work
<1>2. DOMAIN e = TaskFields /\ e.terms = terms
  BY <1>0 DEF TaskFields
<1>3. u = [w EXCEPT !.tasks[c] = e]
  <2> HIDE DEF g, terms
  <2>1. QED
    BY <1>0 DEF Shape, TaskFields
<1>4. /\ v1 = Goto(Send(u, c, "remember", t.targets, Undefined, o, c), c, "writing")
      /\ v2 = Goto(Send(u, c, "recall", t.targets, terms, o, c), c, "searching")
  OBVIOUS
<1> HIDE DEF u, v1, v2, e, terms, t, o
<1>5. Sound(u, h, Besides(c), K) /\ u.tasks[c].terms = terms
  <2>1. c \in Tasks /\ DOMAIN e = TaskFields /\ u = [w EXCEPT !.tasks[c] = e]
    BY <1>0, <1>2, <1>3
  <2>2. Sound(u, h, Besides(c), K)
    BY <2>1, TaskSound
  <2>3. u.tasks[c] = e
    BY <2>1 DEF Sound, Whole, Shape
  <2>4. QED
    BY <1>2, <2>2, <2>3
<1>6. Sound(v1, h, Tasks, K)
  BY <1>4, <1>5, SendGoes
<1>7. Sound(v2, h, Tasks, K)
  BY <1>4, <1>5, SendGoes
<1>8. QED
  BY <1>1, <1>6, <1>7

LEMMA TargetedSound ==
  ASSUME NEW w, NEW h, NEW K \in SUBSET Transforms, NEW c \in Calls, Sound(w, h, Besides(c), K),
         NEW targets, NEW v, v = Targeted(w, c, targets)
  PROVE  Sound(v, h, Tasks, K)
<1> DEFINE t == w.tasks[c]
           a == targets.id
           n == [object |-> t.object, generation |-> t.generation, call |-> c]
           w1 == [w EXCEPT !.tasks[c].targets = targets]
           w2 == [w1 EXCEPT !.approvals[a] = n]
           w3 == [w2 EXCEPT !.tasks[c].slot = Nothing]
           v1 == End(w, c, "not_started")
           v2 == Goto(w3, c, "asking")
           v3 == Work(w1, c)
           v4 == Work(w2, c)
<1>0. c \in Tasks /\ Shape(w) /\ "targets" \in TaskFields /\ "slot" \in TaskFields
  BY DEF Tasks, Sound, Whole, TaskFields
<1>1. v \in {v1, v2, v3, v4}
  BY DEF Targeted, Invalid, Refuse
<1>2. w1 = [w EXCEPT !.tasks[c] = [w.tasks[c] EXCEPT !["targets"] = targets]]
  BY <1>0 DEF Shape
<1>3. /\ w2 = [w1 EXCEPT !.approvals[a] = n] /\ w3 = [w2 EXCEPT !.tasks[c].slot = Nothing]
      /\ v1 = End(w, c, "not_started") /\ v2 = Goto(w3, c, "asking")
      /\ v3 = Work(w1, c) /\ v4 = Work(w2, c)
  OBVIOUS
<1> HIDE DEF t, a, n, w1, w2, w3, v1, v2, v3, v4
<1>4. Sound(w1, h, Besides(c), K)
  BY <1>0, <1>2, FieldSound
<1>5. Sound(w2, h, Besides(c), K)
  BY <1>3, <1>4, NotedSound
<1>6. w3 = [w2 EXCEPT !.tasks[c] = [w2.tasks[c] EXCEPT !["slot"] = Nothing]]
  <2>1. Shape(w2)
    BY <1>5 DEF Sound, Whole
  <2>2. QED
    BY <1>0, <1>3, <2>1 DEF Shape
<1>7. Sound(w3, h, Besides(c), K)
  BY <1>0, <1>5, <1>6, FieldSound
<1>8. Sound(v1, h, Tasks, K)
  BY <1>0, <1>3, EndSound DEF Besides
<1>9. Sound(v2, h, Tasks, K)
  BY <1>3, <1>7, CallGoes
<1>10. Sound(v3, h, Tasks, K) /\ Sound(v4, h, Tasks, K)
  BY <1>3, <1>4, <1>5, WorkSound
<1>11. QED
  BY <1>1, <1>8, <1>9, <1>10

LEMMA TargetsSound ==
  ASSUME NEW w, NEW h, NEW K \in SUBSET Transforms, NEW c \in Calls, Sound(w, h, Besides(c), K),
         NEW v, v = Targets(w, c)
  PROVE  Sound(v, h, Tasks, K)
<1> DEFINE o == w.tasks[c].object
           g == w.objects[o].generation
           n == IF w.objects[o].message = Undefined THEN Label ELSE w.objects[o].message
           u == [w EXCEPT !.objects[o].message = n]
           w1 == [u EXCEPT !.tasks[c].generation = g]
           array == [repository |-> CallOf(w, c).repository, id |-> c]
           w2 == Select(w1, c, c)
           v1 == Goto(Send(w1, c, "resolve", array, Undefined, o, c), c, "resolving")
           v2 == Targeted(w1, c, w.objects[o].targets)
           v3 == Goto(w2, c, "selecting")
<1>0. c \in Tasks /\ Shape(w) /\ Mapped(w) /\ "generation" \in TaskFields /\ c \notin Besides(c)
  BY DEF Tasks, Sound, Whole, TaskFields, Besides
<1>1. w1 = [w EXCEPT !.objects[o].message = IF @ = Undefined THEN Label ELSE @,
                     !.tasks[c].generation = g]
  <2> HIDE DEF g
  <2>1. QED
    BY <1>0 DEF Shape
<1>2. v \in {v1, v2, v3}
  <2> HIDE DEF u, n, w1, w2
  <2>1. QED
    BY <1>1 DEF Targets, w2
<1>3. /\ u = [w EXCEPT !.objects[o].message = n] /\ w1 = [u EXCEPT !.tasks[c].generation = g]
      /\ w2 = Select(w1, c, c)
      /\ v1 = Goto(Send(w1, c, "resolve", array, Undefined, o, c), c, "resolving")
      /\ v2 = Targeted(w1, c, w.objects[o].targets) /\ v3 = Goto(w2, c, "selecting")
  OBVIOUS
<1>4. o \in In(w) => n \in (1..h.latest[w.objects[o].session]) \cup {Undefined, Label}
  BY DEF Sound, ObjectSound
<1> HIDE DEF n, u, w1, w2, v1, v2, v3, array, g, o
<1>5. Sound(u, h, Besides(c), K)
  BY <1>3, <1>4, LabelSound
<1>6. w1 = [u EXCEPT !.tasks[c] = [u.tasks[c] EXCEPT !["generation"] = g]]
  <2>1. Shape(u)
    BY <1>5 DEF Sound, Whole
  <2>2. QED
    BY <1>0, <1>3, <2>1 DEF Shape
<1>7. Sound(w1, h, Besides(c), K)
  BY <1>0, <1>5, <1>6, FieldSound
<1>8. Sound(v1, h, Tasks, K)
  BY <1>3, <1>7, SendGoes
<1>9. Sound(v2, h, Tasks, K)
  BY <1>3, <1>7, TargetedSound
<1>10. Sound(w2, h, Besides(c), K)
  BY <1>0, <1>3, <1>7, SelectSound
<1>11. Sound(v3, h, Tasks, K)
  BY <1>3, <1>10, CallGoes
<1>12. QED
  BY <1>2, <1>8, <1>9, <1>11

\* A call that waits for something else than a search.
LEMMA TaskGoes ==
  ASSUME NEW w, NEW h, NEW K, NEW c \in Calls, Sound(w, h, Besides(c), K),
         NEW e, DOMAIN e = TaskFields, e.pc # "searching", NEW v, v = [w EXCEPT !.tasks[c] = e]
  PROVE  Sound(v, h, Tasks, K)
<1>1. c \in Tasks
  BY DEF Tasks
<1>2. Sound(v, h, Besides(c), K)
  BY <1>1, TaskSound
<1>3. v.tasks[c] = e
  BY <1>1 DEF Sound, Whole, Shape
<1>4. CallSound(v, c)
  BY <1>3 DEF CallSound
<1>5. QED
  BY <1>2, <1>4, CallBack DEF Besides

LEMMA BeginSound ==
  ASSUME NEW w, NEW h, NEW K \in SUBSET Transforms, NEW c \in Calls, Sound(w, h, Besides(c), K),
         NEW s, Hosts(w, s, h), NEW q, NEW v, v = Call(w, c, s, q)
  PROVE  Sound(v, h, Tasks, K)
<1> DEFINE w1 == StateFor(w, s)
           o == Latest(w1)
           start == [Idle EXCEPT !.call = q, !.session = s]
           e == [start EXCEPT !.pc = "locating", !.object = o]
           a == [start EXCEPT !.pc = "asking"]
           w0 == [w EXCEPT !.tasks[c] = a]
           w2 == [w1 EXCEPT !.tasks[c] = e]
           v2 == Targets(w2, c)
<1>0. c \in Tasks /\ s \in Sessions /\ CanHold(w, s) /\ (Held(w, s) = {} => h.session = s)
  BY DEF Tasks, Hosts
<1>1. v \in {w0, w2, v2}
  BY DEF Call
<1>2. DOMAIN e = TaskFields /\ e.pc = "locating" /\ DOMAIN a = TaskFields /\ a.pc = "asking"
  BY DEF Idle, TaskFields
<1>3. /\ w1 = StateFor(w, s) /\ w0 = [w EXCEPT !.tasks[c] = a]
      /\ w2 = [w1 EXCEPT !.tasks[c] = e] /\ v2 = Targets(w2, c)
  OBVIOUS
<1> HIDE DEF w0, w1, w2, v2, a, e, o
<1>4. Sound(w0, h, Tasks, K)
  BY <1>2, <1>3, TaskGoes
<1>5. Sound(w1, h, Besides(c), K)
  BY <1>0, <1>3, StateForSound
<1>6. Sound(w2, h, Tasks, K)
  BY <1>2, <1>3, <1>5, TaskGoes
<1>7. Sound(w2, h, Besides(c), K)
  BY <1>6, SoundLess DEF Besides
<1>8. Sound(v2, h, Tasks, K)
  BY <1>3, <1>7, TargetsSound
<1>9. QED
  BY <1>1, <1>4, <1>6, <1>8

LEMMA AgreedSound ==
  ASSUME NEW w, NEW h, NEW K \in SUBSET Transforms, NEW c \in Calls, Sound(w, h, Tasks, K),
         NEW s, s = w.tasks[c].session, Hosts(w, s, h), NEW v, v = Agreed(w, c)
  PROVE  Sound(v, h, Tasks, K)
<1> DEFINE w1 == StateFor(w, s)
           o == Latest(w1)
           w2 == [w1 EXCEPT !.tasks[c].object = o]
           w3 == Invalidate(w1, o)
           database == [repository |-> Database, id |-> Nothing]
           v1 == Goto(Send(w3, c, "apply", database, Undefined, Nothing, c), c, "applying")
           v2 == Goto(w2, c, "relocating")
           v3 == End(w2, c, "not_started")
           v4 == Work(w2, c)
<1>0. /\ c \in Tasks /\ s \in Sessions /\ CanHold(w, s) /\ (Held(w, s) = {} => h.session = s)
      /\ Sound(w, h, Besides(c), K)
  BY SoundLess DEF Tasks, Hosts, Besides
<1>1. v \in {v1, v2, v3, v4}
  BY DEF Agreed, CallOf, Invalid, Refuse
<1>2. /\ w1 = StateFor(w, s) /\ w2 = [w1 EXCEPT !.tasks[c].object = o]
      /\ w3 = Invalidate(w1, o)
      /\ v1 = Goto(Send(w3, c, "apply", database, Undefined, Nothing, c), c, "applying")
      /\ v2 = Goto(w2, c, "relocating") /\ v3 = End(w2, c, "not_started")
      /\ v4 = Work(w2, c)
  OBVIOUS
<1> HIDE DEF w1, w2, w3, v1, v2, v3, v4, o, database
<1>3. Sound(w1, h, Besides(c), K)
  BY <1>0, <1>2, StateForSound
<1>4. Sound(w3, h, Besides(c), K)
  BY <1>2, <1>3, InvalidateSound
<1>5. Sound(v1, h, Tasks, K)
  BY <1>2, <1>4, SendGoes
<1>6. Sound(w2, h, Besides(c), K)
  <2>1. w2 = [w1 EXCEPT !.tasks[c] = [w1.tasks[c] EXCEPT !["object"] = o]]
    BY <1>0, <1>2, <1>3 DEF Sound, Whole, Shape
  <2>2. "object" \in TaskFields
    BY DEF TaskFields
  <2>3. QED
    BY <1>0, <1>3, <2>1, <2>2, FieldSound
<1>7. Sound(v2, h, Tasks, K)
  BY <1>2, <1>6, CallGoes
<1>8. Sound(v3, h, Tasks, K)
  BY <1>0, <1>2, <1>6, EndSound DEF Besides
<1>9. Sound(v4, h, Tasks, K)
  BY <1>2, <1>6, WorkSound
<1>10. QED
  BY <1>1, <1>5, <1>7, <1>8, <1>9

\* A tool's recall becomes its session's.
LEMMA SeedSound ==
  ASSUME NEW w, NEW h, NEW T, NEW K, Sound(w, h, T, K), NEW o, NEW terms, NEW receipt,
         o \in In(w) => terms \in h.asked[w.objects[o].session],
         receipt # Nothing => receipt.terms = terms,
         NEW v, v = Seed(w, o, terms, receipt)
  PROVE  Sound(v, h, T, K)
<1> DEFINE w1 == [w EXCEPT !.objects[o].terms = terms]
           e == [key |-> Key(w1, o), slot |-> Nothing, receipt |-> receipt]
           c == [w.objects[o] EXCEPT !.terms = terms]
           b == [c EXCEPT !.cache = e]
<1>0. Shape(w) /\ Mapped(w)
  BY DEF Sound, Whole
<1>1. v = [w1 EXCEPT !.objects[o].cache = e]
  BY DEF Seed
<1>2. e.slot = Nothing /\ e.receipt = receipt
  OBVIOUS
<1>3. /\ w1.objects = [w.objects EXCEPT ![o] = c] /\ w1.sessions = w.sessions
      /\ w1.disposed = w.disposed /\ w1.tasks = w.tasks /\ w1.requests = w.requests
      /\ DOMAIN w1 = DOMAIN w
  BY <1>0 DEF Shape
<1>4. b = [c EXCEPT !.cache = e]
  OBVIOUS
<1>5. In(w) \subseteq Objects /\ DOMAIN w.objects = Objects
  BY <1>0, InListed DEF Mapped, Listed
<1>6. o \in Objects => /\ DOMAIN c = ObjectFields /\ c.message = w.objects[o].message
                       /\ c.session = w.objects[o].session /\ c.generation = w.objects[o].generation
                       /\ c.terms = terms
  BY <1>0 DEF Mapped, Listed, ObjectFields
<1> HIDE DEF w1, c, e, b
<1>7. o \in Objects => /\ DOMAIN b = ObjectFields /\ b.message = w.objects[o].message
                       /\ b.session = w.objects[o].session /\ b.generation = w.objects[o].generation
                       /\ b.terms = terms /\ b.cache = e
  BY <1>4, <1>6 DEF ObjectFields
<1>8. Edited(w, v, o, b)
  <2>1. DOMAIN w1 = {"objects", "sessions", "approvals", "disposed", "tasks", "requests"}
    BY <1>0, <1>3 DEF Shape
  <2>2. /\ v.objects = [w1.objects EXCEPT ![o] = [w1.objects[o] EXCEPT !.cache = e]]
        /\ v.sessions = w1.sessions
        /\ v.disposed = w1.disposed /\ v.tasks = w1.tasks /\ v.requests = w1.requests
        /\ DOMAIN v = DOMAIN w1
    BY <1>1, <2>1
  <2>3. v.objects = [w.objects EXCEPT ![o] = b]
    <3>1. o \in Objects => w1.objects[o] = c
      BY <1>3, <1>5
    <3>2. QED
      BY <1>3, <1>4, <1>5, <2>2, <3>1
  <2>4. QED
    BY <1>3, <2>2, <2>3 DEF Edited
<1>9. o \in In(w) => ObjectSound(w, o, h, K)
  BY DEF Sound
<1>10. o \in In(w) => CacheSound(w, e, h.asked[w.objects[o].session], K)
  BY <1>2 DEF CacheSound, EntrySound
<1>11. Edits(w, o, b, h, K)
  BY <1>5, <1>7, <1>9, <1>10 DEF ObjectSound, Edits
<1>12. QED
  BY <1>8, <1>11, ObjectsSound

LEMMA SearchedSound ==
  ASSUME NEW w, NEW h, NEW K \in SUBSET Transforms, NEW c \in Calls, Sound(w, h, Tasks, K),
         Owned(w, c), w.tasks[c].pc = "searching", NEW v, v = Searched(w, c),
         v.tasks[c].report = "ok" => w.tasks[c].terms \in h.asked[w.tasks[c].session]
  PROVE  Sound(v, h, Tasks, K)
<1> DEFINE t == w.tasks[c]
           o == t.object
           terms == t.terms
           r == Answer(w, c)
           receipt == Receipt(r.targets, r.terms)
           w1 == Invalidate(w, o)
           z == t.targets
           w2 == [w1 EXCEPT !.objects[o].targets = z]
           w3 == IF CallOf(w, c).op = "scope" THEN w2 ELSE w1
           w4 == Seed(w3, o, terms, receipt)
           refused == End(w, c, r.outcome)
           invalid == End(w, c, "not_started")
           ended == End(w4, c, "ok")
<1>0. c \in Tasks /\ Whole(w) /\ Sound(w, h, Besides(c), K) /\ CallSound(w, c)
  <2>1. Sound(w, h, Besides(c), K)
    BY SoundLess DEF Besides
  <2>2. CallSound(w, c)
    BY SoundLess
  <2>3. QED
    BY <2>1, <2>2 DEF Tasks, Sound
<1>1. v \in {refused, invalid, ended}
  BY DEF Searched, Refuse, Invalid
<1>2. receipt.terms = terms
  <2>1. r.terms = terms
    BY <1>0 DEF CallSound, Answer
  <2>2. QED
    BY <2>1 DEF Receipt
<1>3. o \in Objects => w.objects[o].session = t.session
  BY NothingAssumption DEF Owned
<1>4. /\ w1 = Invalidate(w, o) /\ w2 = [w1 EXCEPT !.objects[o].targets = z]
      /\ w3 \in {w1, w2} /\ w4 = Seed(w3, o, terms, receipt)
      /\ refused = End(w, c, r.outcome) /\ invalid = End(w, c, "not_started")
      /\ ended = End(w4, c, "ok")
  OBVIOUS
<1>5. terms = w.tasks[c].terms
  OBVIOUS
<1> HIDE DEF r, receipt, w1, w2, w3, w4, refused, invalid, ended, o, z, terms
<1>6. Sound(refused, h, Tasks, K) /\ Sound(invalid, h, Tasks, K)
  BY <1>0, <1>4, EndSound DEF Besides
<1>7. Sound(w1, h, Besides(c), K)
  BY <1>0, <1>4, InvalidateSound
<1>8. o \in Objects => w1.objects[o].session = w.objects[o].session
  BY <1>0, <1>4, InvalidateDoes DEF ObjectFields
<1>9. Sound(w2, h, Besides(c), K) /\ (o \in Objects => w2.objects[o].session = w1.objects[o].session)
  <2>1. /\ DOMAIN w2 = DOMAIN w1 /\ w2.sessions = w1.sessions /\ w2.disposed = w1.disposed
        /\ w2.tasks = w1.tasks /\ w2.requests = w1.requests
        /\ w2.objects = [w1.objects EXCEPT ![o] = [@ EXCEPT !["targets"] = z]]
    BY <1>4, <1>7 DEF Sound, Whole, Shape
  <2>2. Sound(w2, h, Besides(c), K)
    BY <1>7, <2>1, OtherSound
  <2>3. o \in Objects => DOMAIN w1.objects = Objects /\ DOMAIN w1.objects[o] = ObjectFields
    BY <1>7 DEF Sound, Whole, Mapped, Listed
  <2>4. o \in Objects => w2.objects[o].session = w1.objects[o].session
    BY <2>1, <2>3 DEF ObjectFields
  <2>5. QED
    BY <2>2, <2>4
<1>10. Sound(w3, h, Besides(c), K) /\ (o \in Objects => w3.objects[o].session = t.session)
  BY <1>3, <1>4, <1>7, <1>8, <1>9
<1>11. terms \in h.asked[t.session] => Sound(w4, h, Besides(c), K)
  <2>1. In(w3) \subseteq Objects
    BY <1>10, InListed DEF Sound, Whole, Mapped
  <2>2. ASSUME terms \in h.asked[t.session]
        PROVE  o \in In(w3) => terms \in h.asked[w3.objects[o].session]
    BY <1>10, <2>1, <2>2
  <2>3. receipt # Nothing => receipt.terms = terms
    BY <1>2
  <2>4. QED
    BY <1>4, <1>10, <2>2, <2>3, SeedSound
<1>12. Sound(w4, h, Besides(c), K) => Sound(ended, h, Tasks, K)
  BY <1>0, <1>4, EndSound DEF Besides
<1>13. ended.tasks[c].report = "ok"
  <2>1. Shape(w4) => ended.tasks[c].report = "ok"
    BY <1>0, <1>4, EndMoves
  <2>2. Shape(w4)
    <3>1. Shape(w3)
      BY <1>10 DEF Sound, Whole
    <3>2. QED
      BY <1>4, <3>1, SeedCalm DEF Calm
  <2>3. QED
    BY <2>1, <2>2
<1>14. v = ended => Sound(v, h, Tasks, K)
  BY <1>5, <1>11, <1>12, <1>13
<1>15. QED
  BY <1>1, <1>6, <1>14

LEMMA WrittenSound ==
  ASSUME NEW w, NEW h, NEW K \in SUBSET Transforms, NEW c \in Calls, Sound(w, h, Tasks, K),
         NEW v, v = Written(w, c)
  PROVE  Sound(v, h, Tasks, K)
<1> DEFINE t == w.tasks[c]
           o == t.object
           w1 == Invalidate(w, o)
           outcome == Answer(w, c).outcome
           targets == t.targets
           refused == End(w, c, outcome)
           gone == Goto(Send(w1, c, "list", targets, Undefined, o, c), c, "reading")
<1>0. c \in Tasks /\ Sound(w, h, Besides(c), K)
  BY SoundLess DEF Tasks, Besides
<1>1. v \in {refused, gone}
  BY DEF Written, Refuse
<1>2. /\ w1 = Invalidate(w, o) /\ refused = End(w, c, outcome)
      /\ gone = Goto(Send(w1, c, "list", targets, Undefined, o, c), c, "reading")
  OBVIOUS
<1> HIDE DEF t, o, w1, outcome, targets, refused, gone
<1>3. Sound(refused, h, Tasks, K)
  BY <1>0, <1>2, EndSound DEF Besides
<1>4. Sound(w1, h, Besides(c), K)
  BY <1>0, <1>2, InvalidateSound
<1>5. Sound(gone, h, Tasks, K)
  BY <1>2, <1>4, SendGoes
<1>6. QED
  BY <1>1, <1>3, <1>5

LEMMA AppliedSound ==
  ASSUME NEW w, NEW h, NEW K \in SUBSET Transforms, NEW c \in Calls, Sound(w, h, Tasks, K),
         NEW v, v = Applied(w, c)
  PROVE  Sound(v, h, Tasks, K)
<1> DEFINE r == Answer(w, c)
           refused == End(w, c, r.outcome)
           v1 == Goto(Send(w, c, "read", r.targets, Undefined, Nothing, c), c, "checking")
           v2 == Goto(Send(w, c, "read", r.targets, Undefined, Nothing, c), c, "looking")
<1>0. c \in Tasks /\ Sound(w, h, Besides(c), K)
  BY SoundLess DEF Tasks, Besides
<1>1. v \in {refused, v1, v2}
  BY DEF Applied, Refuse
<1>2. /\ refused = End(w, c, r.outcome)
      /\ v1 = Goto(Send(w, c, "read", r.targets, Undefined, Nothing, c), c, "checking")
      /\ v2 = Goto(Send(w, c, "read", r.targets, Undefined, Nothing, c), c, "looking")
  OBVIOUS
<1> HIDE DEF r, refused, v1, v2
<1>3. Sound(refused, h, Tasks, K)
  BY <1>0, <1>2, EndSound DEF Besides
<1>4. Sound(v1, h, Tasks, K) /\ Sound(v2, h, Tasks, K)
  BY <1>0, <1>2, SendGoes
<1>5. QED
  BY <1>1, <1>3, <1>4

LEMMA CallingSound ==
  ASSUME NEW w, NEW h, NEW K \in SUBSET Transforms, NEW c \in Calls, Sound(w, h, Tasks, K),
         Owned(w, c),
         w.tasks[c].pc \in {"resolving", "selecting", "searching", "writing", "reading",
                            "applying", "checking", "looking"},
         NEW v, v = Calling(w, c),
         v.tasks[c].report = "ok" => w.tasks[c].terms \in h.asked[w.tasks[c].session]
  PROVE  Sound(v, h, Tasks, K)
<1> DEFINE outcome == Answer(w, c).outcome
           targets == Answer(w, c).targets
           u == Selected(w, c)
<1>0. c \in Tasks /\ Sound(w, h, Besides(c), K)
  BY SoundLess DEF Tasks, Besides
<1>1. \A report : Sound(End(w, c, report), h, Tasks, K)
  BY <1>0, EndSound DEF Besides
<1>2. CASE w.tasks[c].pc = "resolving"
  <2>1. v = Targeted(w, c, targets) \/ v = End(w, c, outcome)
    BY <1>2 DEF Calling, Refuse
  <2>2. v = Targeted(w, c, targets) => Sound(v, h, Tasks, K)
    BY <1>0, TargetedSound
  <2>3. QED
    BY <1>1, <2>1, <2>2
<1>3. CASE w.tasks[c].pc = "selecting"
  <2>1. v = Targeted(u, c, targets) \/ v = End(u, c, outcome)
    BY <1>3 DEF Calling, Refuse
  <2>2. Sound(u, h, Besides(c), K)
    BY <1>0, SelectedSound
  <2> HIDE DEF u
  <2>3. v = Targeted(u, c, targets) => Sound(v, h, Tasks, K)
    BY <2>2, TargetedSound
  <2>4. v = End(u, c, outcome) => Sound(v, h, Tasks, K)
    BY <1>0, <2>2, EndSound DEF Besides
  <2>5. QED
    BY <2>1, <2>3, <2>4
<1>4. CASE w.tasks[c].pc = "searching"
  <2>1. v = Searched(w, c)
    BY <1>4 DEF Calling
  <2>2. QED
    BY <1>4, <2>1, SearchedSound
<1>5. CASE w.tasks[c].pc = "writing"
  <2>1. v = Written(w, c)
    BY <1>5 DEF Calling
  <2>2. QED
    BY <2>1, WrittenSound
<1>6. CASE w.tasks[c].pc = "applying"
  <2>1. v = Applied(w, c)
    BY <1>6 DEF Calling
  <2>2. QED
    BY <2>1, AppliedSound
<1>7. CASE w.tasks[c].pc \in {"reading", "checking", "looking"}
  <2>1. \E report : v = End(w, c, report)
    BY <1>7 DEF Calling
  <2>2. QED
    BY <1>1, <2>1
<1>8. QED
  BY <1>2, <1>3, <1>4, <1>5, <1>6, <1>7

LEMMA EndedSound ==
  ASSUME NEW w, NEW h, NEW K \in SUBSET Transforms, NEW c, Sound(w, h, Tasks, K),
         NEW s, s = w.tasks[c].session, Hosts(w, s, h), NEW command,
         NEW v, v = Ended(w, c, command)
  PROVE  Sound(v, h, Tasks, K)
<1> DEFINE w1 == StateFor(w, s)
           o == Latest(w1)
           u == [w1 EXCEPT !.objects[o].message = Label]
<1>0. s \in Sessions /\ CanHold(w, s) /\ (Held(w, s) = {} => h.session = s)
  BY DEF Hosts
<1>1. v \in {u, w}
  BY DEF Ended
<1>2. w1 = StateFor(w, s) /\ u = [w1 EXCEPT !.objects[o].message = Label]
  OBVIOUS
<1> HIDE DEF w1, o, u
<1>3. Sound(w1, h, Tasks, K)
  BY <1>0, <1>2, StateForSound
<1>4. Sound(u, h, Tasks, K)
  <2>1. Label \in (1..h.latest[w1.objects[o].session]) \cup {Undefined, Label}
    OBVIOUS
  <2>2. QED
    BY <1>2, <1>3, <2>1, LabelSound, ZenonT(30)
<1>5. QED
  BY <1>1, <1>4

\* A call is cancelled: its requests are stopped, and it knows.
LEMMA AbortedSound ==
  ASSUME NEW w, NEW h, NEW K \in SUBSET Transforms, NEW c \in Calls, Sound(w, h, Tasks, K),
         NEW v, v.objects = w.objects, v.sessions = w.sessions, v.disposed = w.disposed,
         Shape(v), \A i \in Slots : Kept(w.requests[i], v.requests[i]),
         \A t \in Tasks \ {c} : v.tasks[t] = w.tasks[t],
         v.tasks[c].pc = w.tasks[c].pc, v.tasks[c].slot = w.tasks[c].slot,
         v.tasks[c].terms = w.tasks[c].terms
  PROVE  Sound(v, h, Tasks, K)
<1>0. Shape(w) /\ Mapped(w) /\ Whole(w) /\ CallSound(w, c) /\ c \in Tasks
  BY DEF Sound, Whole, Tasks
<1>1. Same(w, v)
  BY <1>0, SameObjects
<1>2. Mapped(v) /\ In(v) = In(w)
  BY <1>0, <1>1, SameMapped
<1>3. Whole(v) /\ Later(w, v)
  BY <1>0, <1>2 DEF Whole, Later
<1>4. AsksOn(w, v, Tasks, K) /\ AsksOn(w, v, Besides(c), K)
  BY <1>0, KeptAsks
<1>5. Sound(w, h, Besides(c), K)
  BY SoundLess DEF Besides
<1>6. \A t \in Tasks \cap Besides(c) : v.tasks[t] = w.tasks[t]
  BY DEF Besides
<1>7. Sound(v, h, Besides(c), K)
  BY <1>2, <1>3, <1>4, <1>5, <1>6, Framed
<1>8. v.requests[<<c, "own">>].terms = w.requests[<<c, "own">>].terms
  <2>1. <<c, "own">> \in {<<d, "own">> : d \in Calls \cap Tasks}
    BY <1>0
  <2>2. QED
    BY <1>4, <2>1 DEF AsksOn
<1>9. CallSound(v, c)
  BY <1>0, <1>8 DEF CallSound
<1>10. QED
  BY <1>7, <1>9, CallBack DEF Besides

LEMMA ClearAllSound ==
  ASSUME NEW w, NEW h, NEW K \in SUBSET Transforms, Sound(w, h, Tasks, K), NEW v, v = ClearAll(w)
  PROVE  Sound(v, h, Tasks, K)
<1>0. Shape(w) /\ Mapped(w) /\ Whole(w)
  BY DEF Sound, Whole
<1>1. Mapped(v) /\ Steady(w, v, {}) /\ Calm(w, v)
  BY <1>0, ClearAllMapped, ClearAllCalm
<1>2. v.sessions = <<>> /\ \A o \in Objects : v.objects[o].session = w.objects[o].session
                                              /\ v.objects[o].generation = w.objects[o].generation
  <2> DEFINE u == Abort(w, ToSet(w.sessions))
             all == ToSet(w.sessions)
             marked == [o \in Objects |-> IF o \in all THEN [w.objects[o] EXCEPT !.aborted = TRUE]
                                          ELSE w.objects[o]]
  <2>1. u.objects = w.objects /\ DOMAIN u = {"objects", "sessions", "approvals", "disposed", "tasks", "requests"}
    BY <1>0 DEF Abort, Shape
  <2>2. v = [u EXCEPT !.objects = [o \in Objects |-> IF o \in all THEN [@[o] EXCEPT !.aborted = TRUE] ELSE @[o]],
                      !.sessions = <<>>, !.disposed = TRUE]
    BY DEF ClearAll
  <2> HIDE DEF u, all
  <2>3. v.sessions = <<>> /\ v.objects = marked
    BY <2>1, <2>2
  <2>4. \A o \in Objects : DOMAIN w.objects[o] = ObjectFields
    BY <1>0 DEF Mapped, Listed
  <2>5. QED
    BY <2>3, <2>4 DEF ObjectFields
<1>3. In(v) = {}
  BY <1>2 DEF In, ToSet
<1>4. Whole(v)
  BY <1>0, <1>1, <1>2 DEF Whole, Calm
<1>5. Later(w, v)
  BY <1>0, <1>2, <1>3 DEF Later, Whole
<1>6. AsksOn(w, v, Tasks, K) /\ v.tasks = w.tasks
  BY <1>0, <1>1, KeptAsks DEF Calm
<1>7. QED
  BY <1>3, <1>4, <1>5, <1>6, Framed

\* What is left of what can be reached.
LEMMA SweptDoes ==
  ASSUME NEW w, Whole(w), NEW v, v = Swept(w)
  PROVE  /\ Shape(v)
         /\ \A o \in In(w) : \A f \in ObjectFields \ {"generation"} : v.objects[o][f] = w.objects[o][f]
         /\ \A o \in Objects : v.objects[o].generation = 1
         /\ \A t \in Tasks : v.tasks[t].generation \in {0, 1}
         /\ \A t \in Tasks : v.tasks[t].generation = 1 =>
              w.tasks[t].generation = w.objects[w.tasks[t].object].generation
         /\ \A t \in Tasks : Pending(w, t) /\ w.tasks[t].slot \in Slots =>
              v.requests[w.tasks[t].slot].terms = w.requests[w.tasks[t].slot].terms
         /\ \A o \in In(w) : w.objects[o].cache # Nothing /\ w.objects[o].cache.slot \in Slots =>
              v.requests[w.objects[o].cache.slot].terms = w.requests[w.objects[o].cache.slot].terms
<1> DEFINE reached == {t \in Tasks : Pending(w, t)}
           asking == {t \in reached : w.tasks[t].pc \in {"asking", "relocating"}}
           arrays == {w.tasks[t].targets.id : t \in asking} \ {Nothing}
           kept == ToSet(w.sessions) \cup ({w.tasks[t].object : t \in reached} \ {Nothing})
                   \cup {w.approvals[a].object : a \in arrays}
           cached(o) == IF w.objects[o].cache = Nothing THEN Nothing ELSE w.objects[o].cache.slot
           slots == {w.tasks[t].slot : t \in reached} \cup {cached(o) : o \in kept}
                    \cup {w.objects[o].resolving : o \in kept}
           current(r) == IF r.object # Nothing /\ r.generation = w.objects[r.object].generation THEN 1 ELSE 0
           renumbered(r) == [r EXCEPT !.generation = current(r)]
           needed(r, inUse) == IF inUse /\ r # Nothing THEN renumbered(r) ELSE Nothing
<1>0. Shape(w) /\ Mapped(w)
  BY DEF Whole
<1>1. /\ DOMAIN v = DOMAIN w
      /\ v.objects = [o \in Objects |-> IF o \in kept THEN [w.objects[o] EXCEPT !.generation = 1] ELSE Blank]
      /\ v.tasks = [t \in Tasks |-> renumbered(w.tasks[t])]
      /\ v.requests = [i \in Slots |-> needed(w.requests[i], i \in slots)]
  BY <1>0 DEF Swept, Shape
<1>2. In(w) \subseteq kept /\ In(w) \subseteq Objects
  BY <1>0, InListed DEF In, Mapped
<1>3. \A t \in Tasks : Pending(w, t) => w.tasks[t].slot \in slots
  OBVIOUS
<1>4. \A o \in In(w) : w.objects[o].cache # Nothing => w.objects[o].cache.slot \in slots
  <2> HIDE DEF kept
  <2>1. QED
    BY <1>2
<1>5. \A r : current(r) \in {0, 1}
  OBVIOUS
<1>6. \A r : current(r) = 1 => r.generation = w.objects[r.object].generation
  OBVIOUS
<1> HIDE DEF kept, slots, current
<1>7. /\ \A o \in In(w) : \A f \in ObjectFields \ {"generation"} : v.objects[o][f] = w.objects[o][f]
      /\ \A o \in Objects : v.objects[o].generation = 1
  BY <1>0, <1>1, <1>2 DEF Mapped, Listed, ObjectFields, Blank, NewObject
<1>8. ASSUME NEW t \in Tasks
      PROVE  DOMAIN v.tasks[t] = TaskFields /\ v.tasks[t].generation = current(w.tasks[t])
  BY <1>0, <1>1 DEF Shape, TaskFields
<1>9. ASSUME NEW i \in Slots
      PROVE  /\ v.requests[i] # Nothing => IsRequest(v.requests[i])
             /\ i \in slots => v.requests[i].terms = w.requests[i].terms
  <2>1. CASE i \in slots /\ w.requests[i] # Nothing
    <3>1. v.requests[i] = [w.requests[i] EXCEPT !.generation = current(w.requests[i])]
      BY <1>1, <2>1
    <3>2. IsRequest(w.requests[i])
      BY <1>0, <2>1 DEF Shape
    <3>3. QED
      BY <3>1, <3>2 DEF IsRequest, RequestFields
  <2>2. CASE i \notin slots \/ w.requests[i] = Nothing
    BY <1>1, <2>2
  <2>3. QED
    BY <2>1, <2>2
<1>10. Shape(v)
  <2>1. DOMAIN v.tasks = Tasks /\ DOMAIN v.requests = Slots
    BY <1>1
  <2>2. QED
    BY <1>0, <1>1, <1>8, <1>9, <2>1 DEF Shape
<1>11. \A t \in Tasks : /\ v.tasks[t].generation \in {0, 1}
                        /\ v.tasks[t].generation = 1 =>
                             w.tasks[t].generation = w.objects[w.tasks[t].object].generation
  BY <1>5, <1>6, <1>8
<1>12. \A t \in Tasks : Pending(w, t) /\ w.tasks[t].slot \in Slots =>
         v.requests[w.tasks[t].slot].terms = w.requests[w.tasks[t].slot].terms
  BY <1>3, <1>9
<1>13. \A o \in In(w) : w.objects[o].cache # Nothing /\ w.objects[o].cache.slot \in Slots =>
         v.requests[w.objects[o].cache.slot].terms = w.requests[w.objects[o].cache.slot].terms
  BY <1>4, <1>9
<1>14. QED
  BY <1>7, <1>10, <1>11, <1>12, <1>13

LEMMA SweptSound ==
  ASSUME NEW w, NEW h, NEW K \in SUBSET Transforms, Sound(w, h, Tasks, K), NEW v, v = Swept(w)
  PROVE  Sound(v, h, Tasks, K)
<1>0. Shape(w) /\ Mapped(w) /\ Whole(w)
  BY DEF Sound, Whole
<1>1. /\ Mapped(v) /\ In(v) = In(w) /\ v.disposed = w.disposed
      /\ \A o \in In(w) \cup {w.tasks[t].object : t \in {t \in Tasks : Pending(w, t)}} :
           o \in Objects => v.objects[o].session = w.objects[o].session
  BY <1>0, SweptObjects
<1>2. In(w) \subseteq Objects
  BY <1>0, InListed DEF Mapped
<1>3. /\ Shape(v)
      /\ \A o \in In(w) : \A f \in ObjectFields \ {"generation"} : v.objects[o][f] = w.objects[o][f]
      /\ \A o \in Objects : v.objects[o].generation = 1
  BY <1>0, SweptDoes
<1>4. \A t \in Tasks : /\ v.tasks[t].generation \in {0, 1}
                       /\ v.tasks[t].generation = 1 =>
                            w.tasks[t].generation = w.objects[w.tasks[t].object].generation
  BY <1>0, SweptDoes
<1>5. /\ \A t \in Tasks : Pending(w, t) /\ w.tasks[t].slot \in Slots =>
           v.requests[w.tasks[t].slot].terms = w.requests[w.tasks[t].slot].terms
      /\ \A o \in In(w) : w.objects[o].cache # Nothing /\ w.objects[o].cache.slot \in Slots =>
           v.requests[w.objects[o].cache.slot].terms = w.requests[w.objects[o].cache.slot].terms
  BY <1>0, SweptDoes
<1>6. ASSUME NEW t \in Tasks
      PROVE  \A f \in TaskFields \ {"generation"} : v.tasks[t][f] = w.tasks[t][f]
  BY <1>0, SweptTasks
<1>7. Spent(K) \subseteq Slots /\ \A c \in Calls : <<c, "own">> \in Slots
  BY SlotsAssumption DEF Spent, Tasks
<1>8. Whole(v)
  BY <1>1, <1>3 DEF Whole
<1>9. ASSUME NEW o \in In(v)
      PROVE  ObjectSound(v, o, h, K)
  <2>1. ObjectSound(w, o, h, K) /\ o \in In(w)
    BY <1>1 DEF Sound
  <2>2. /\ v.objects[o].session = w.objects[o].session /\ v.objects[o].terms = w.objects[o].terms
        /\ v.objects[o].message = w.objects[o].message /\ v.objects[o].cache = w.objects[o].cache
    BY <1>3, <2>1 DEF ObjectFields
  <2>3. CacheSound(v, w.objects[o].cache, h.asked[w.objects[o].session], K)
    BY <1>5, <1>7, <2>1 DEF ObjectSound, CacheSound, EntrySound
  <2>4. QED
    BY <2>1, <2>2, <2>3 DEF ObjectSound
<1>10. ASSUME NEW x \in Transforms
       PROVE  HookSound(v, x, h, K)
  <2>0. x \in Tasks /\ HookSound(w, x, h, K)
    BY DEF Sound, Tasks
  <2>1. /\ v.tasks[x].pc = w.tasks[x].pc /\ v.tasks[x].object = w.tasks[x].object
        /\ v.tasks[x].session = w.tasks[x].session /\ v.tasks[x].message = w.tasks[x].message
        /\ v.tasks[x].receipt = w.tasks[x].receipt /\ v.tasks[x].slot = w.tasks[x].slot
    BY <1>6, <2>0 DEF TaskFields
  <2>2. HookHolds(v, x, h)
    <3>1. HookHolds(w, x, h) /\ (Pending(v, x) <=> Pending(w, x))
      BY <2>0, <2>1 DEF HookSound, Pending
    <3>2. Pending(w, x) /\ w.tasks[x].object \in Objects =>
            v.objects[w.tasks[x].object].session = w.objects[w.tasks[x].object].session
      BY <1>1, <2>0
    <3>3. /\ v.tasks[x].generation \in Nat
          /\ w.tasks[x].object \in Objects =>
               v.tasks[x].generation <= v.objects[w.tasks[x].object].generation
      BY <1>3, <1>4, <2>0
    <3>4. QED
      BY <2>1, <3>1, <3>2, <3>3 DEF HookHolds
  <2>3. Fresh(v, x) => Fresh(w, x)
    BY <1>1, <1>2, <1>3, <1>4, <2>0, <2>1 DEF Fresh
  <2>4. w.tasks[x].pc = "recalling" /\ w.tasks[x].slot \in Spent(K) =>
          v.requests[w.tasks[x].slot].terms = w.requests[w.tasks[x].slot].terms
    BY <1>5, <1>7, <2>0 DEF Pending
  <2>5. QED
    BY <2>0, <2>1, <2>2, <2>3, <2>4 DEF HookSound
<1>11. ASSUME NEW c \in Calls
       PROVE  CallSound(v, c)
  <2>0. c \in Tasks /\ CallSound(w, c) /\ <<c, "own">> \in Slots
    BY <1>7 DEF Sound, Tasks
  <2>1. /\ v.tasks[c].pc = w.tasks[c].pc /\ v.tasks[c].slot = w.tasks[c].slot
        /\ v.tasks[c].terms = w.tasks[c].terms
    BY <1>6, <2>0 DEF TaskFields
  <2>2. QED
    BY <1>5, <2>0, <2>1 DEF CallSound, Pending
<1>12. QED
  BY <1>8, <1>9, <1>10, <1>11 DEF Sound

\* Another history, of which only sessions R have less.
LEMMA HistorySound ==
  ASSUME NEW w, NEW h, NEW K, Sound(w, h, Tasks, K), NEW g, NEW R,
         \A s \in Sessions \ R : h.asked[s] \subseteq g.asked[s],
         \A s \in Sessions : 1..h.latest[s] \subseteq 1..g.latest[s],
         \A o \in In(w) : o \in g.listed \/ w.objects[o].session = g.session,
         \A o \in In(w) : w.objects[o].session \in R => ObjectSound(w, o, g, K),
         \A x \in Transforms : Pending(w, x) /\ w.tasks[x].session \in R => ~Fresh(w, x)
  PROVE  Sound(w, g, Tasks, K)
<1>1. ASSUME NEW o \in In(w), w.objects[o].session \notin R
      PROVE  ObjectSound(w, o, g, K)
  <2> DEFINE b == w.objects[o]
  <2>1. ObjectSound(w, o, h, K)
    BY DEF Sound
  <2>2. b.session \in Sessions /\ h.asked[b.session] \subseteq g.asked[b.session]
    BY <1>1, <2>1 DEF ObjectSound
  <2>3. CacheSound(w, b.cache, g.asked[b.session], K)
    BY <2>1, <2>2 DEF ObjectSound, CacheSound, EntrySound
  <2>4. 1..h.latest[b.session] \subseteq 1..g.latest[b.session]
    BY <2>2
  <2> HIDE DEF b
  <2>5. b.terms \in g.asked[b.session] \cup {Undefined}
    BY <2>1, <2>2 DEF ObjectSound, b
  <2>6. b.message \in (1..g.latest[b.session]) \cup {Undefined, Label}
    BY <2>1, <2>4 DEF ObjectSound, b
  <2>7. QED
    BY <2>2, <2>3, <2>5, <2>6 DEF ObjectSound, b
<1>2. ASSUME NEW x \in Transforms
      PROVE  HookSound(w, x, g, K)
  <2> DEFINE t == w.tasks[x]
  <2>1. HookSound(w, x, h, K)
    BY DEF Sound, Tasks
  <2>2. HookHolds(w, x, g)
    BY <2>1 DEF HookSound, HookHolds
  <2>3. Pending(w, x) /\ Fresh(w, x) => h.asked[t.session] \subseteq g.asked[t.session]
    BY <2>1 DEF HookSound, HookHolds
  <2>4. t.pc \in {"recalling", "recording"} => Pending(w, x)
    BY DEF Pending
  <2> HIDE DEF t
  <2>5. t.pc = "recalling" /\ Fresh(w, x) =>
          t.slot \in Spent(K) /\ w.requests[t.slot].terms \in g.asked[t.session]
    BY <2>1, <2>3, <2>4 DEF HookSound, t
  <2>6. t.pc = "recording" /\ t.receipt # Nothing /\ Fresh(w, x) =>
          t.receipt.terms \in g.asked[t.session]
    BY <2>1, <2>3, <2>4 DEF HookSound, t
  <2>7. t.receipt # Nothing => t.pc = "recording"
    BY <2>1 DEF HookSound, t
  <2>8. QED
    BY <2>2, <2>5, <2>6, <2>7 DEF HookSound, t
<1>3. QED
  BY <1>1, <1>2 DEF Sound

\* The hooks whose slots are spent.
HooksSpent(w) == {x \in Transforms : w.tasks[x].pc \in Spenders}

\* The history of a state, of the next, and the one that a step of session s
\* goes by, in which A was asked.
Present == [asked |-> asked, latest |-> latest, listed |-> Objects, session |-> Nothing]
Then == [asked |-> asked', latest |-> latest', listed |-> Objects, session |-> Nothing]
During(A, s) == [asked |-> A, latest |-> latest, listed |-> In(World), session |-> s]

\* What has been asked after a step into w, of sessions that it did not drop.
Asking(w) ==
  [s \in Sessions |->
     asked[s] \cup {tasks[c].terms : c \in {c \in Told(w) : tasks[c].session = s /\ w.tasks[c].report = "ok"}}
              \cup {tasks[x].message : x \in {x \in Capturing(w) : tasks[x].session = s}}]

\* Nothing wrong is or will be recalled.
AskInv ==
  /\ latest \in [Sessions -> Nat \ {0}]
  /\ \A s \in Sessions : latest[s] \in asked[s]
  /\ Sound(World, Present, Tasks, HooksSpent(World))

\* Only the tasks T report anything.
Only(T) == \A t \in Tasks \ T : tasks'[t].report = tasks[t].report

\* A step into w lists no object of another session but s.
Kin(w, s) ==
  /\ \A o \in In(World) : w.objects[o].session = objects[o].session
  /\ Held(World, s) # {} => In(w) \subseteq In(World)

LEMMA StartSound ==
  ASSUME AskInv, NEW A, \A r \in Sessions : asked[r] \subseteq A[r], NEW s
  PROVE  Sound(World, During(A, s), Tasks, HooksSpent(World))
<1> DEFINE R == {}
           h == Present
           g == During(A, s)
<1>1. Sound(World, h, Tasks, HooksSpent(World))
  BY DEF AskInv
<1>2. /\ \A r \in Sessions \ R : h.asked[r] \subseteq g.asked[r]
      /\ \A r \in Sessions : 1..h.latest[r] \subseteq 1..g.latest[r]
      /\ \A o \in In(World) : o \in g.listed \/ World.objects[o].session = g.session
  BY DEF Present, During
<1>3. /\ \A o \in In(World) : World.objects[o].session \in R => ObjectSound(World, o, g, HooksSpent(World))
      /\ \A x \in Transforms : Pending(World, x) /\ World.tasks[x].session \in R => ~Fresh(World, x)
  OBVIOUS
<1> HIDE DEF R, h, g
<1>4. Sound(World, g, Tasks, HooksSpent(World))
  BY <1>1, <1>2, <1>3, HistorySound
<1>5. QED
  BY <1>4 DEF g

LEMMA AskingMore ==
  ASSUME NEW w
  PROVE  \A r \in Sessions : asked[r] \subseteq Asking(w)[r]
  BY DEF Asking

\* The world that is swept is the next one.
LEMMA BecomeSound ==
  ASSUME NEW w, NEW touched, Become(w, touched), NEW K \in SUBSET Transforms,
         Sound(w, Then, Tasks, K), \A x \in K : w.tasks[x].pc \in Spenders,
         NEW T, \A t \in Tasks \ T : w.tasks[t] = tasks[t]
  PROVE  Sound(World', Then, Tasks, HooksSpent(World')) /\ Only(T)
<1> DEFINE v == Swept(w)
           h == Then
           V == World'
<1>1. /\ V.objects = v.objects /\ V.sessions = v.sessions /\ V.disposed = v.disposed
      /\ V.tasks = v.tasks /\ V.requests = v.requests /\ tasks' = v.tasks
      /\ DOMAIN V = {"objects", "sessions", "approvals", "disposed", "tasks", "requests"}
  BY DEF Become, World
<1>2. v = Swept(w) /\ Sound(w, h, Tasks, K)
  OBVIOUS
<1> HIDE DEF v, h, V
<1>3. Shape(w)
  BY <1>2 DEF Sound, Whole
<1>4. Sound(v, h, Tasks, K)
  BY <1>2, SweptSound
<1>5. Shape(V)
  BY <1>1, <1>4 DEF Sound, Whole, Shape
<1>6. Sound(V, h, Tasks, K)
  BY <1>1, <1>4, <1>5, TasksSound
<1>7. \A t \in Tasks : v.tasks[t].pc = w.tasks[t].pc /\ v.tasks[t].report = w.tasks[t].report
  BY <1>2, <1>3, SweptTasks DEF TaskFields
<1>8. K \subseteq HooksSpent(V)
  BY <1>1, <1>7 DEF HooksSpent, Tasks
<1>9. Sound(V, h, Tasks, HooksSpent(V))
  BY <1>6, <1>8, SoundMore
<1>10. Only(T)
  BY <1>1, <1>7 DEF Only
<1>11. QED
  BY <1>9, <1>10 DEF h, V

\* Objects of a session that was dropped are not listed.
LEMMA DroppedGone ==
  ASSUME NEW w, Mapped(World), Mapped(w), NEW s, Kin(w, s), NEW o \in In(w),
         o \in In(World) \/ w.objects[o].session = s
  PROVE  w.objects[o].session \notin Dropped(w)
<1> DEFINE r == w.objects[o].session
<1>1. World.objects = objects
  BY DEF World
<1>2. SUFFICES ASSUME Held(World, r) # {}
               PROVE  Held(w, r) = Held(World, r)
  BY DEF Dropped
<1>3. o \in In(World)
  BY <1>2 DEF Kin
<1>4. objects[o].session = r
  BY <1>3 DEF Kin
<1>5. o \in Held(World, r) /\ o \in Held(w, r)
  BY <1>1, <1>3, <1>4 DEF Held, In
<1>6. \A p \in Held(World, r) : p = o
  BY <1>1, <1>3, <1>4, InListed DEF Held, In, Mapped
<1>7. \A p \in Held(w, r) : p = o
  BY InListed DEF Held, In, Mapped
<1>8. QED
  BY <1>5, <1>6, <1>7

LEMMA StepSound ==
  ASSUME AskInv, NEW w, NEW touched, Become(w, touched), latest' = latest,
         NEW s, Kin(w, s), NEW K \in SUBSET Transforms,
         Sound(w, During(Asking(w), s), Tasks, K), \A x \in K : w.tasks[x].pc \in Spenders,
         NEW T, \A t \in Tasks \ T : w.tasks[t] = tasks[t]
  PROVE  AskInv' /\ Only(T)
<1> DEFINE R == Dropped(w)
           h == During(Asking(w), s)
           g == Then
<1>1. \A r \in Sessions : asked'[r] = IF r \in R THEN {latest[r]} ELSE Asking(w)[r]
  BY DEF Become, Asking
<1>2. Mapped(World) /\ Mapped(w)
  BY DEF AskInv, Sound, Whole
<1>3. ASSUME NEW o \in In(w)
      PROVE  w.objects[o].session \notin R /\ o \in g.listed
  <2>1. ObjectSound(w, o, h, K)
    BY DEF Sound
  <2>2. o \in In(World) \/ w.objects[o].session = s
    BY <2>1 DEF ObjectSound, During
  <2>3. o \in Objects
    BY <1>2, InListed DEF Mapped
  <2>4. QED
    BY <1>2, <2>2, <2>3, DroppedGone DEF Then
<1>4. ASSUME NEW x \in Transforms, Pending(w, x), w.tasks[x].session \in R
      PROVE  ~Fresh(w, x)
  <2>1. HookSound(w, x, h, K)
    BY DEF Sound, Tasks
  <2>2. w.objects[w.tasks[x].object].session = w.tasks[x].session
    BY <1>4, <2>1 DEF HookSound, HookHolds
  <2>3. QED
    BY <1>3, <1>4, <2>2 DEF Fresh
<1>5. /\ \A r \in Sessions \ R : h.asked[r] \subseteq g.asked[r]
      /\ \A r \in Sessions : 1..h.latest[r] \subseteq 1..g.latest[r]
  BY <1>1 DEF During, Then
<1>6. /\ Sound(w, h, Tasks, K)
      /\ \A o \in In(w) : o \in g.listed \/ w.objects[o].session = g.session
      /\ \A o \in In(w) : w.objects[o].session \in R => ObjectSound(w, o, g, K)
      /\ \A x \in Transforms : Pending(w, x) /\ w.tasks[x].session \in R => ~Fresh(w, x)
  BY <1>3, <1>4
<1> HIDE DEF R, h, g
<1>7. Sound(w, g, Tasks, K)
  BY <1>5, <1>6, HistorySound
<1>8. Sound(World', Then, Tasks, HooksSpent(World')) /\ Only(T)
  BY <1>7, BecomeSound DEF g
<1>9. latest' \in [Sessions -> Nat \ {0}] /\ \A r \in Sessions : latest'[r] \in asked'[r]
  BY <1>1, AskingMore DEF AskInv
<1>10. QED
  BY <1>8, <1>9 DEF AskInv, Present, Then

LEMMA SteadyKin ==
  ASSUME Mapped(World), NEW w, NEW S, Steady(World, w, S), NEW s,
         Held(World, s) # {} => In(w) \subseteq In(World)
  PROVE  Kin(w, s)
<1>1. World.objects = objects
  BY DEF World
<1>2. \A o \in In(World) : o \in Objects /\ World.objects[o].session # Nothing
  BY InListed DEF Mapped, Listed
<1>3. QED
  BY <1>1, <1>2 DEF Kin, Steady

-----------------------------------------------------------------------------
(* Every step keeps what is recalled right.                                *)

\* A step of hook x, which may have sent its recall.
LEMMA HookStep ==
  ASSUME AskInv, NEW x \in Transforms, NEW w, NEW touched, Become(w, touched), latest' = latest,
         NEW s, Kin(w, s), SoundNow(w, x, During(Asking(w), s), HooksSpent(World))
                           \/ (w.tasks[x].pc \in Spenders
                               /\ Sound(w, During(Asking(w), s), Tasks, HooksSpent(World))),
         \A t \in Tasks \ {x} : w.tasks[t] = tasks[t]
  PROVE  AskInv' /\ Only({x})
<1> DEFINE K == HooksSpent(World)
           h == During(Asking(w), s)
<1>1. \A y \in K : y \in Transforms /\ tasks[y].pc \in Spenders
  BY DEF HooksSpent, World
<1>2. \A y \in K \ {x} : w.tasks[y].pc \in Spenders
  BY <1>1 DEF Tasks
<1>3. PICK L \in SUBSET Transforms : /\ Sound(w, h, Tasks, L)
                                     /\ \A y \in L : w.tasks[y].pc \in Spenders
  <2>1. CASE x \notin K /\ Sound(w, h, Tasks, K)
    BY <1>1, <1>2, <2>1
  <2>2. CASE w.tasks[x].pc \in Spenders /\ Sound(w, h, Tasks, K \cup {x})
    BY <1>1, <1>2, <2>2
  <2>3. CASE w.tasks[x].pc \in Spenders /\ Sound(w, h, Tasks, K)
    BY <1>1, <1>2, <2>3
  <2>4. QED
    BY <2>1, <2>2, <2>3 DEF SoundNow
<1> DEFINE T == {x}
<1>4. \A t \in Tasks \ T : w.tasks[t] = tasks[t]
  OBVIOUS
<1> HIDE DEF T
<1>5. AskInv' /\ Only(T)
  BY <1>3, <1>4, StepSound
<1>6. QED
  BY <1>5 DEF T

LEMMA BecomeReports ==
  ASSUME NEW w, Shape(w), NEW touched, Become(w, touched), NEW t \in Tasks
  PROVE  tasks'[t].report = w.tasks[t].report
<1> DEFINE v == Swept(w)
<1>1. tasks' = v.tasks /\ v = Swept(w)
  BY DEF Become
<1> HIDE DEF v
<1>2. QED
  BY <1>1, SweptTasks DEF TaskFields

LEMMA WakeTransformAsks ==
  ASSUME PluginInv, PlaceInv, AskInv, NEW x \in Transforms, WakeTransform(x)
  PROVE  AskInv' /\ Only({x}) /\ tasks[x].pc # "recording"
<1> DEFINE v == Transforming(World, x)
           s == tasks[x].session
           K == HooksSpent(World)
           h == During(Asking(v), s)
<1>1. Become(v, {}) /\ v = Transforming(World, x) /\ x \in Tasks /\ latest' = latest
  BY DEF WakeTransform, Tasks
<1>2. World.tasks[x].pc \in {"selecting", "recalling"} /\ World.tasks = tasks
  BY <1>1, Here, SlotsAssumption DEF WakeTransform, Wakes, PluginInv, WorldInv, Hooked, Waits
<1>3. Moves(x, World, v)
  BY <1>1, <1>2, Here, TransformingMoves
<1>4. Ready(World, x) /\ Mapped(World)
  BY <1>1, HerePlaced DEF WakeTransform, Wakes
<1>5. World.tasks[x].pc = "recalling" <=> x \in K
  BY <1>2 DEF HooksSpent, Spenders
<1>6. Sound(World, h, Tasks, K) /\ K \in SUBSET Transforms
  BY StartSound, AskingMore DEF HooksSpent
<1> HIDE DEF v, K, h
<1>7. Rests(x, World, v)
  BY <1>1, <1>2, <1>4, TransformingRests
<1>8. Kin(v, s)
  BY <1>4, <1>7, SameSteady, SteadyKin DEF Rests, Stays
<1>9. Sound(v, h, Tasks, K \cup {x}) /\ v.tasks[x].pc \in Spenders
  BY <1>1, <1>2, <1>5, <1>6, TransformingSound
<1>10. SoundNow(v, x, h, K)
  BY <1>9 DEF SoundNow
<1>11. \A t \in Tasks \ {x} : v.tasks[t] = tasks[t]
  BY <1>2, <1>3 DEF Moves
<1>12. AskInv' /\ Only({x})
  BY <1>1, <1>8, <1>10, <1>11, HookStep DEF h, K
<1>13. QED
  BY <1>2, <1>12

\* A hook adds what it was given to its message only when its session asked
\* for it.
LEMMA RecordedAsks ==
  ASSUME PluginInv, PlaceInv, AskInv, NEW x \in Transforms, Recorded(x)
  PROVE  /\ AskInv' /\ Only({x})
         /\ tasks[x].receipt # Nothing /\ tasks'[x].report = "part" =>
              ~disposed /\ tasks[x].receipt.terms \in asked[tasks[x].session]
<1> DEFINE v == Injected(World, x)
           s == tasks[x].session
           K == HooksSpent(World)
           h == During(Asking(v), s)
           report == IF Unchanged(World, x) THEN "part" ELSE "silent"
<1>1. Become(v, {}) /\ x \in Tasks /\ tasks[x].pc = "recording" /\ latest' = latest
  BY DEF Recorded, Tasks
<1>2. v = End(World, x, report)
  BY DEF Injected
<1>3. /\ Shape(World) /\ Mapped(World) /\ World.tasks = tasks /\ World.disposed = disposed
  BY HerePlaced
<1>4. Sound(World, h, Tasks, K) /\ K \in SUBSET Transforms
  BY StartSound, AskingMore DEF HooksSpent
<1>5. HookSound(World, x, Present, K)
  BY DEF AskInv, Sound, Tasks
<1> HIDE DEF v, K, h
<1>6. Moves(x, World, v) /\ v.tasks[x].pc = "done" /\ v.tasks[x].report = report
  BY <1>1, <1>2, <1>3, EndMoves
<1>7. /\ v.objects = World.objects /\ v.sessions = World.sessions /\ v.disposed = World.disposed
  BY <1>2, <1>3 DEF End, Shape
<1>8. Kin(v, s)
  BY <1>3, <1>7, SameObjects, SameSteady, SteadyKin
<1>9. Sound(v, h, Tasks, K)
  BY <1>1, <1>2, <1>4, SoundLess, EndSound
<1>10. Shape(v) /\ \A t \in Tasks \ {x} : v.tasks[t] = tasks[t]
  BY <1>3, <1>6 DEF Moves
<1>11. AskInv' /\ Only({x})
  BY <1>1, <1>6, <1>8, <1>9, <1>10, HookStep DEF h, K, Spenders
<1>12. tasks'[x].report = report
  BY <1>1, <1>6, <1>10, BecomeReports
<1>13. Unchanged(World, x) => Fresh(World, x) /\ ~disposed
  BY <1>3 DEF Unchanged, Fresh, InSessions, In
<1>14. tasks[x].receipt # Nothing /\ Fresh(World, x) => tasks[x].receipt.terms \in asked[tasks[x].session]
  BY <1>1, <1>3, <1>5 DEF HookSound, Present
<1>15. QED
  BY <1>11, <1>12, <1>13, <1>14

LEMMA WithinKin ==
  ASSUME Mapped(World), NEW u, Same(World, u), NEW w, NEW s, NEW S, Within(u, w, s, S)
  PROVE  Kin(w, s)
<1>1. In(u) = In(World) /\ Steady(World, u, {}) /\ \A r : Held(u, r) = Held(World, r)
  BY SameMapped
<1>2. Steady(World, w, {} \cup S)
  BY <1>1, SteadyTwice DEF Within
<1> DEFINE R == {} \cup S
<1>3. Steady(World, w, R)
  BY <1>2
<1> HIDE DEF R
<1>4. QED
  BY <1>1, <1>3, SteadyKin DEF Within

\* What a step of session s of a host that can list it starts from.
LEMMA HostsHere ==
  ASSUME PluginInv, PlaceInv, NEW s \in Sessions, NEW A
  PROVE  Hosts(World, s, During(A, s)) /\ Same(World, World)
  BY HerePlaced, SameObjects DEF Hosts, During

LEMMA StartTransformAsks ==
  ASSUME PluginInv, PlaceInv, AskInv, NEW x \in Transforms, NEW s \in Working, StartTransform(x, s)
  PROVE  AskInv' /\ Only({x}) /\ tasks[x].pc # "recording"
<1> DEFINE w == StateFor(World, s)
           w1 == Invalidate(w, Latest(w))
           quieted == End(w1, x, "quiet")
           started == Transform(World, x, s, latest[s])
           taken == IF w.objects[Latest(w)].directory THEN Overtaken(World, s, Latest(w), latest[s]) ELSE {}
           K == HooksSpent(World)
<1>0. /\ x \in Tasks /\ s \in Sessions /\ s # Nothing
      /\ Shape(World) /\ Mapped(World) /\ World.tasks = tasks /\ CanHold(World, s)
      /\ \A A : Hosts(World, s, During(A, s))
  BY HerePlaced, HostsHere, WorkingAssumption, NothingAssumption DEF Tasks
<1>1. /\ tasks[x].pc = "idle" /\ latest' = latest
      /\ Become(quieted, {s}) \/ Become(started, taken)
  BY DEF StartTransform
<1>2. x \notin K /\ K \in SUBSET Transforms
  BY <1>0, <1>1 DEF HooksSpent, Spenders
<1>3. \A u : Sound(World, During(Asking(u), s), Tasks, K)
  BY StartSound, AskingMore
<1>4. w = StateFor(World, s) /\ w1 = Invalidate(w, Latest(w))
      /\ quieted = End(w1, x, "quiet") /\ started = Transform(World, x, s, latest[s])
  OBVIOUS
<1>8. {s} \in {{s}, IF w.objects[Latest(w)].directory THEN Overtaken(World, s, Latest(w), latest[s]) ELSE {}}
  OBVIOUS
<1> HIDE DEF w, w1, quieted, started, taken, K
<1>5. CASE Become(quieted, {s})
  <2> DEFINE h == During(Asking(quieted), s)
  <2>1. Sound(World, h, Tasks, K) /\ (Held(World, s) = {} => h.session = s)
    BY <1>3 DEF During
  <2> HIDE DEF h
  <2>2. Sound(w, h, Tasks, K) /\ w.tasks = World.tasks
    BY <1>0, <1>2, <1>4, <2>1, StateForSound
  <2>3. /\ Within(World, w, s, {}) /\ Latest(w) \in Objects /\ w.objects[Latest(w)].session = s
    BY <1>0, <1>4, StateForWithin
  <2>4. Sound(w1, h, Tasks, K) /\ w1.tasks = tasks
    BY <1>0, <1>2, <1>4, <2>2, InvalidateSound
  <2>5. Shape(w) /\ Mapped(w) /\ Shape(w1) /\ Mapped(w1)
    BY <2>2, <2>4 DEF Sound, Whole
  <2>6. Steady(w, w1, {s}) /\ In(w1) = In(w)
    <3>1. Renewed(w, w1, Latest(w))
      BY <1>4, <2>5, InvalidateRenewed
    <3>2. QED
      BY <2>3, <2>5, <3>1, RenewedMapped
  <2>7. Sound(quieted, h, Tasks, K)
    BY <1>0, <1>4, <2>4, SoundLess, EndSound
  <2>8. Moves(x, w1, quieted) /\ quieted.tasks[x].pc = "done"
    BY <1>0, <1>4, <2>5, EndMoves
  <2>9. quieted.objects = w1.objects /\ quieted.sessions = w1.sessions /\ quieted.disposed = w1.disposed
    BY <1>4, <2>5 DEF End, Shape
  <2>10. Steady(w1, quieted, {s}) /\ In(quieted) = In(w1)
    BY <2>5, <2>9, SameObjects, SameSteady
  <2>11. Kin(quieted, s)
    <3> DEFINE S == {} \cup {s}
               R == S \cup {s}
    <3>1. Steady(World, w1, S)
      BY <2>3, <2>6, SteadyTwice DEF Within
    <3> HIDE DEF S
    <3>2. Steady(World, quieted, R)
      BY <2>10, <3>1, SteadyTwice
    <3> HIDE DEF R
    <3>3. Held(World, s) # {} => In(quieted) \subseteq In(World)
      BY <2>3, <2>6, <2>10 DEF Within
    <3>4. QED
      BY <1>0, <3>2, <3>3, SteadyKin
  <2>12. \A t \in Tasks \ {x} : quieted.tasks[t] = tasks[t]
    BY <2>4, <2>8 DEF Moves
  <2>13. AskInv' /\ Only({x})
    <3> DEFINE touched == {s}
    <3>1. Become(quieted, touched) /\ latest' = latest
      BY <1>1, <1>5
    <3> HIDE DEF touched
    <3>2. quieted.tasks[x].pc \in Spenders /\ Sound(quieted, During(Asking(quieted), s), Tasks, HooksSpent(World))
      BY <2>7, <2>8 DEF Spenders, h, K
    <3>3. QED
      BY <2>11, <2>12, <3>1, <3>2, HookStep
  <2>14. QED
    BY <1>1, <2>13
<1>6. CASE Become(started, taken)
  <2> DEFINE h == During(Asking(started), s)
             n == latest[s]
  <2>1. Sound(World, h, Tasks, K) /\ Hosts(World, s, h)
    BY <1>0, <1>3
  <2>2. n \in h.asked[s] /\ n \in 1..h.latest[s]
    <3>1. n \in Nat \ {0} /\ n \in asked[s] /\ h.latest[s] = n /\ h.asked = Asking(started)
      BY <1>0 DEF AskInv, During
    <3>2. n \in Asking(started)[s]
      BY <1>0, <3>1, AskingMore
    <3> HIDE DEF n
    <3>3. QED
      BY <3>1, <3>2
  <2>3. Sound(World, h, Tasks \ {x}, K) /\ started = Transform(World, x, s, n)
    BY <1>4, <2>1, SoundLess
  <2> DEFINE S == {s}
  <2>11. S \in {{s}, IF w.objects[Latest(w)].directory THEN Overtaken(World, s, Latest(w), n) ELSE {}}
    BY <1>8
  <2> HIDE DEF S
  <2> HIDE DEF h, n
  <2>4. SoundNow(started, x, h, K)
    BY <1>2, <2>1, <2>2, <2>3, TransformSound
  <2>5. Moves(x, World, started)
    BY <1>0, <2>3, TransformMoves
  <2>6. Within(World, started, s, S)
    <3>1. w = StateFor(World, s)
      BY <1>4
    <3>2. QED
      BY <1>0, <2>3, <2>11, <3>1, TransformDoes
  <2>7. Kin(started, s)
    BY <1>0, <2>6, HostsHere, WithinKin
  <2>8. \A t \in Tasks \ {x} : started.tasks[t] = tasks[t]
    BY <1>0, <2>5 DEF Moves
  <2>9. AskInv' /\ Only({x})
    BY <1>1, <1>6, <2>4, <2>7, <2>8, HookStep DEF h, K
  <2>10. QED
    BY <1>1, <2>9
<1>7. QED
  BY <1>1, <1>5, <1>6

\* A hook that the host answers asks for its own message, if it asks at all.
LEMMA HostAnswersHookAsks ==
  ASSUME PluginInv, PlaceInv, AskInv, NEW x \in Transforms, HostAnswers(x)
  PROVE  AskInv' /\ Only({x}) /\ tasks[x].pc # "recording"
<1> DEFINE known == [World EXCEPT !.objects[tasks[x].object].directory = TRUE]
           v == Located(known, x)
           s == tasks[x].session
           n == tasks[x].message
           taken == Overtaken(known, s, tasks[x].object, n)
           K == HooksSpent(World)
<1>0. /\ x \in Tasks /\ Shape(World) /\ Mapped(World) /\ World.tasks = tasks /\ CanHold(World, s)
  BY HerePlaced DEF Tasks
<1>1. Become(v, taken) /\ latest' = latest /\ tasks[x].pc \in {"locating", "relocating"}
  BY DEF HostAnswers
<1>2. tasks[x].pc = "locating"
  BY <1>0, <1>1 DEF PluginInv, WorldInv, Hooked
<1>3. x \notin K /\ K \in SUBSET Transforms /\ Pending(World, x)
  BY <1>0, <1>2 DEF HooksSpent, Spenders, Pending
<1>4. known = [World EXCEPT !.objects[tasks[x].object].directory = TRUE] /\ v = Located(known, x)
  OBVIOUS
<1> HIDE DEF known, v, taken
<1>5. Same(World, known) /\ Calm(World, known)
  BY <1>0, <1>4, KnownSame
<1>6. /\ Shape(known) /\ Mapped(known) /\ known.tasks = tasks /\ CanHold(known, s)
      /\ Held(known, s) = Held(World, s)
  BY <1>0, <1>5, SameMapped DEF Calm
<1>7. s \in Sessions
  BY <1>0, <1>3, HerePlaced DEF Ready, Owned
<1>8. ASSUME NEW A, \A r \in Sessions : asked[r] \subseteq A[r], n \in A[s]
      PROVE  /\ SoundNow(v, x, During(A, s), K)
             /\ v.tasks[x].pc # "locating" /\ v.tasks[x].report # "part"
  <2> DEFINE h == During(A, s)
  <2>1. Sound(World, h, Tasks, K)
    BY <1>8, StartSound
  <2>2. h.asked = A /\ (Held(World, s) = {} => h.session = s)
    BY DEF During
  <2> HIDE DEF h
  <2>3. Sound(known, h, Tasks, K)
    BY <1>4, <2>1, KnownSound
  <2>4. Sound(known, h, Tasks \ {x}, K) /\ HookSound(known, x, h, K)
    BY <2>3, SoundLess
  <2>5. HookHolds(known, x, h) /\ known.tasks[x].receipt = Nothing
    BY <1>2, <1>6, <2>4 DEF HookSound
  <2>6. Hosts(known, s, h) /\ s = known.tasks[x].session /\ Pending(known, x)
    BY <1>0, <1>3, <1>6, <1>7, <2>2 DEF Hosts, Pending
  <2>7. known.tasks[x].message \in h.asked[s]
    BY <1>6, <1>8, <2>2
  <2> HIDE DEF s
  <2>8. /\ SoundNow(v, x, h, K) /\ v.tasks[x].pc \in {"selecting", "recalling", "recording", "done"}
        /\ v.tasks[x].report \in {"silent", "off", known.tasks[x].report}
    BY <1>3, <1>4, <2>4, <2>5, <2>6, <2>7, LocatedSound
  <2>9. tasks[x].report = "none"
    BY <1>0, <1>2, HerePlaced DEF Owned
  <2>10. QED
    BY <1>6, <2>8, <2>9 DEF h
<1>9. v.tasks[x].pc # "locating" /\ v.tasks[x].report # "part"
  <2> DEFINE A == [r \in Sessions |-> asked[r] \cup {n}]
  <2>1. (\A r \in Sessions : asked[r] \subseteq A[r]) /\ n \in A[s]
    BY <1>7
  <2> HIDE DEF A, n, s, K
  <2>2. QED
    BY <1>8, <2>1
<1>10. SoundNow(v, x, During(Asking(v), s), K)
  <2>1. n \in Asking(v)[s]
    BY <1>2, <1>7, <1>9 DEF Asking, Capturing
  <2> DEFINE A == Asking(v)
  <2>2. (\A r \in Sessions : asked[r] \subseteq A[r]) /\ n \in A[s]
    BY <2>1, AskingMore
  <2> HIDE DEF A, n, s, K
  <2>3. SoundNow(v, x, During(A, s), K)
    BY <1>8, <2>2
  <2>4. QED
    BY <2>3 DEF A
<1>11. Kin(v, s)
  <2>1. Ready(World, x)
    BY <1>0, <1>3, HerePlaced
  <2>2. Ready(known, x) /\ s = known.tasks[x].session
    BY <1>0, <1>5, <1>6, <2>1, WorldCarries, CarriesReady
  <2> DEFINE S == {s}
  <2>3. Covers(known, x, s, S)
    BY DEF Covers
  <2> HIDE DEF s, S
  <2>5. Within(known, v, s, S)
    BY <1>0, <1>4, <1>6, <2>2, <2>3, LocatedDoes
  <2>4. QED
    BY <1>0, <1>5, <2>5, WithinKin
<1>12. \A t \in Tasks \ {x} : v.tasks[t] = tasks[t]
  <2>1. Moves(x, known, v)
    BY <1>0, <1>4, <1>6, LocatedMoves
  <2>2. QED
    BY <1>6, <2>1 DEF Moves
<1>13. AskInv' /\ Only({x})
  <2> HIDE DEF s
  <2>1. QED
    BY <1>1, <1>10, <1>11, <1>12, HookStep
<1>14. QED
  BY <1>2, <1>13

LEMMA HostFailsHookAsks ==
  ASSUME PluginInv, PlaceInv, AskInv, NEW x \in Transforms, HostFails(x)
  PROVE  AskInv' /\ Only({x}) /\ tasks[x].pc # "recording"
<1> DEFINE v == Unlocated(World, x)
           s == tasks[x].session
           h == During(Asking(v), s)
           K == HooksSpent(World)
<1>0. /\ x \in Tasks /\ Shape(World) /\ Mapped(World) /\ World.tasks = tasks /\ CanHold(World, s)
  BY HerePlaced DEF Tasks
<1>1. Become(v, {}) /\ latest' = latest /\ tasks[x].pc \in {"locating", "relocating"}
  BY DEF HostFails
<1>2. Ready(World, x) /\ Pending(World, x) /\ s = World.tasks[x].session /\ s \in Sessions
  BY <1>0, <1>1, HerePlaced DEF Pending, Owned
<1>3. Moves(x, World, v) /\ v = Unlocated(World, x)
  BY <1>0, UnlocatedMoves
<1>4. Sound(World, h, Tasks, K) /\ K \in SUBSET Transforms
  BY StartSound, AskingMore DEF HooksSpent
<1>5. Hosts(World, s, h)
  BY <1>2, HostsHere
<1> HIDE DEF v, s, h, K
<1>6. Sound(World, h, Tasks \ {x}, K) /\ HookHolds(World, x, h)
  BY <1>4, SoundLess DEF HookSound
<1>7. Sound(v, h, Tasks, K) /\ v.tasks[x].pc \in Spenders
  BY <1>2, <1>3, <1>4, <1>5, <1>6, UnlocatedSound
<1>8. Within(World, v, s, {})
  BY <1>0, <1>2, <1>3, UnlocatedDoes
<1>9. Kin(v, s)
  BY <1>0, <1>8, SameObjects, WithinKin
<1>10. \A t \in Tasks \ {x} : v.tasks[t] = tasks[t]
  BY <1>0, <1>3 DEF Moves
<1>11. AskInv' /\ Only({x})
  BY <1>1, <1>7, <1>9, <1>10, HookStep DEF h, K
<1>12. QED
  BY <1>1, <1>11

LEMMA WithinAgain ==
  ASSUME NEW u, Mapped(u), NEW v, NEW w, NEW s, s # Nothing,
         NEW S, Within(u, v, s, S), NEW T, Within(v, w, s, T), NEW R, R = S \cup T
  PROVE  Within(u, w, s, R)
<1>1. Steady(u, w, R)
  BY SteadyTwice DEF Within
<1>2. ASSUME Held(u, s) # {}
      PROVE  In(w) = In(u)
  <2>1. PICK o \in Held(u, s) : TRUE
    BY <1>2
  <2>2. o \in In(u) /\ o \in Objects /\ u.objects[o].session = s
    BY InListed DEF Held, In, Mapped
  <2>3. In(v) = In(u) /\ v.objects[o].session = s
    BY <1>2, <2>2 DEF Within, Steady
  <2>4. o \in Held(v, s)
    BY <2>2, <2>3 DEF Held, In
  <2>5. QED
    BY <2>3, <2>4 DEF Within
<1>3. QED
  BY <1>1, <1>2 DEF Within

\* A step of call c.
LEMMA CallStep ==
  ASSUME AskInv, NEW c \in Calls, NEW w, Become(w, {}), latest' = latest,
         NEW s, Kin(w, s), Sound(w, During(Asking(w), s), Tasks, HooksSpent(World)),
         \A t \in Tasks \ {c} : w.tasks[t] = tasks[t]
  PROVE  AskInv' /\ Only({c})
<1> DEFINE K == HooksSpent(World)
           T == {c}
           touched == {}
<1>1. \A y \in K : y \in Tasks \ {c} /\ tasks[y].pc \in Spenders /\ y \in Transforms
  BY TasksAssumption DEF HooksSpent, World, Tasks
<1>2. K \in SUBSET Transforms /\ \A y \in K : w.tasks[y].pc \in Spenders
  BY <1>1
<1>3. /\ \A t \in Tasks \ T : w.tasks[t] = tasks[t]
      /\ Sound(w, During(Asking(w), s), Tasks, K) /\ Become(w, touched)
  OBVIOUS
<1> HIDE DEF K, T, touched
<1>4. AskInv' /\ Only(T)
  BY <1>2, <1>3, StepSound
<1>5. QED
  BY <1>4 DEF T

\* A finished command's call: what it did, and its label.
LEMMA EndedStep ==
  ASSUME AskInv, NEW c \in Calls, NEW v, NEW command, NEW s \in Sessions,
         NEW w, w = Ended(v, c, command), Become(w, {}), latest' = latest,
         NEW S, Within(World, v, s, S), v.tasks[c].session = s,
         Sound(v, During(Asking(w), s), Tasks, HooksSpent(World)),
         \A t \in Tasks \ {c} : v.tasks[t] = tasks[t]
  PROVE  AskInv' /\ Only({c})
<1> DEFINE h == During(Asking(w), s)
           K == HooksSpent(World)
<1>0. Mapped(World) /\ Shape(v) /\ Mapped(v) /\ s # Nothing
  BY NothingAssumption DEF AskInv, Sound, Whole
<1>1. K \in SUBSET Transforms /\ h.session = s /\ Sound(v, h, Tasks, K)
  BY DEF HooksSpent, During
<1>2. CanHold(v, s)
  BY DEF Within
<1> HIDE DEF h, K
<1>3. Hosts(v, s, h)
  BY <1>1, <1>2 DEF Hosts
<1>4. Sound(w, h, Tasks, K)
  BY <1>1, <1>3, EndedSound
<1>5. Within(v, w, s, {}) /\ w.tasks = v.tasks
  BY <1>0, <1>2, EndedDoes
<1> DEFINE E == {}
           T == S \cup E
<1>6. Within(v, w, s, E) /\ T = S \cup E
  BY <1>5
<1> HIDE DEF E, T
<1>7. Within(World, w, s, T)
  BY <1>0, <1>6, WithinAgain
<1>8. Kin(w, s)
  BY <1>0, <1>7, SameObjects, WithinKin
<1>9. \A t \in Tasks \ {c} : w.tasks[t] = tasks[t]
  BY <1>5
<1>10. QED
  BY <1>4, <1>8, <1>9, CallStep DEF h, K

LEMMA StartCallAsks ==
  ASSUME PluginInv, PlaceInv, AskInv, NEW c \in Calls, NEW s \in Working, NEW q \in Tools,
         StartCall(c, s, q)
  PROVE  AskInv' /\ Only({c})
<1> DEFINE v == Call(World, c, s, q)
           u == Ended(v, c, q.command)
           h == During(Asking(u), s)
           K == HooksSpent(World)
<1>0. /\ c \in Tasks /\ s \in Sessions
      /\ Shape(World) /\ Mapped(World) /\ World.tasks = tasks /\ CanHold(World, s)
  BY HerePlaced, WorkingAssumption DEF Tasks
<1>1. Become(u, {}) /\ latest' = latest /\ v = Call(World, c, s, q) /\ u = Ended(v, c, q.command)
  BY DEF StartCall
<1>2. Sound(World, h, Tasks, K) /\ K \in SUBSET Transforms /\ Hosts(World, s, h)
  BY <1>0, StartSound, AskingMore, HostsHere DEF HooksSpent
<1>3. \A t \in Tasks \ {c} : v.tasks[t] = tasks[t]
  BY <1>0, CallPlaced DEF Placed, Moves, Sends
<1> HIDE DEF v, u, h, K
<1>4. Within(World, v, s, {}) /\ v.tasks[c].session = s
  BY <1>0, <1>1, CallDoes
<1>5. Sound(World, h, Besides(c), K)
  BY <1>2, SoundLess DEF Besides
<1>6. Sound(v, h, Tasks, K)
  BY <1>1, <1>2, <1>5, BeginSound
<1> DEFINE S == {}
<1>7. Within(World, v, s, S)
  BY <1>4
<1> HIDE DEF S
<1>8. QED
  BY <1>0, <1>1, <1>3, <1>4, <1>6, <1>7, EndedStep DEF h, K

\* A call that is told something has asked for it.
LEMMA WakeCallAsks ==
  ASSUME PluginInv, PlaceInv, AskInv, NEW c \in Calls, WakeCall(c)
  PROVE  AskInv' /\ Only({c})
<1> DEFINE v == Calling(World, c)
           u == Ended(v, c, tasks[c].call.command)
           s == tasks[c].session
           h == During(Asking(u), s)
           K == HooksSpent(World)
<1>0. /\ c \in Tasks /\ Shape(World) /\ Mapped(World) /\ World.tasks = tasks /\ CanHold(World, s)
  BY HerePlaced DEF Tasks
<1>1. /\ Become(u, {}) /\ v = Calling(World, c) /\ u = Ended(v, c, tasks[c].call.command)
      /\ Pending(World, c) /\ tasks[c].slot \in Slots /\ Settled(Answer(World, c))
      /\ latest' = latest
  BY <1>0, Here DEF WakeCall, Wakes, Answer
<1>2. Ready(World, c) /\ Owned(World, c) /\ s \in Sessions
  BY <1>0, <1>1, HerePlaced DEF Owned
<1>3. Stands(World, c, writes[c], granted[c])
  BY DEF PluginInv, WorldInv
<1>4. World.tasks[c].pc \in {"resolving", "selecting", "searching", "writing", "reading",
                             "applying", "checking", "looking"}
  BY <1>0, <1>1, <1>3, SlotsAssumption
     DEF Stands, Says, Waits, Pcs, Unwritten, Writers, Pending
<1>5. Shape(v) /\ \A t \in Tasks \ {c} : v.tasks[t] = tasks[t]
  <2>1. Moves(c, World, v) \/ Sends(c, World, v)
    BY <1>0, <1>1, <1>3, Here, CallingStands
  <2> HIDE DEF v
  <2>2. QED
    BY <1>0, <2>1 DEF Moves, Sends
<1>6. Sound(World, h, Tasks, K) /\ K \in SUBSET Transforms
  BY StartSound, AskingMore DEF HooksSpent
<1>7. h.asked = Asking(u)
  BY DEF During
<1> HIDE DEF v, u, h, K
<1> DEFINE S == Announced(c, World, v)
<1>8. Within(World, v, s, S) /\ Owned(v, c) /\ v.tasks[c].session = s
  BY <1>0, <1>1, <1>2, <1>4, CallingAnnounces DEF Announces
<1>9. u.tasks = v.tasks
  BY <1>1, <1>5, EndedCalm DEF Calm
<1>10. v.tasks[c].report = "ok" => World.tasks[c].terms \in h.asked[World.tasks[c].session]
  <2> SUFFICES ASSUME v.tasks[c].report = "ok"
               PROVE  tasks[c].terms \in Asking(u)[s]
    BY <1>0, <1>7
  <2>1. v.tasks[c].pc = "done"
    BY <1>8 DEF Owned
  <2>2. c \in Told(u) /\ u.tasks[c].report = "ok"
    BY <1>0, <1>4, <1>9, <2>1 DEF Told
  <2>3. QED
    BY <1>2, <2>2 DEF Asking
<1> HIDE DEF S, s
<1>11. Sound(v, h, Tasks, K)
  BY <1>1, <1>2, <1>4, <1>6, <1>10, CallingSound
<1>12. QED
  BY <1>1, <1>2, <1>5, <1>8, <1>11, EndedStep DEF h, K

LEMMA UserAgreesAsks ==
  ASSUME PluginInv, PlaceInv, AskInv, NEW c \in Calls, UserAgrees(c)
  PROVE  AskInv' /\ Only({c})
<1> DEFINE v == Agreed(World, c)
           s == tasks[c].session
           g == IF tasks[c].call.op = "apply" THEN Database ELSE tasks[c].targets.repository
           h == During(Asking(v), s)
           K == HooksSpent(World)
<1>0. /\ c \in Tasks /\ Shape(World) /\ Mapped(World) /\ World.tasks = tasks /\ CanHold(World, s)
  BY HerePlaced DEF Tasks
<1>1. Become(v, {}) /\ latest' = latest /\ v = Agreed(World, c) /\ World.tasks[c].pc = "asking"
  BY <1>0 DEF UserAgrees
<1>2. Ready(World, c) /\ s \in Sessions /\ s = World.tasks[c].session
  BY <1>0, <1>1, HerePlaced DEF Pending, Owned
<1>3. Stands(World, c, writes[c], granted[c])
  BY DEF PluginInv, WorldInv
<1>4. Open(World.tasks[c]) /\ World.tasks[c].slot = Nothing
  <2> HIDE DEF v, g, s
  <2>1. Says(World.tasks[c], writes[c], granted[c]) /\ World.tasks[c].pc = "asking"
    BY <1>1, <1>3 DEF Stands
  <2>2. QED
    BY <2>1 DEF Says, Waits, Open
<1>5. Placed(c, World, v, g)
  BY <1>0, <1>4, AgreedPlaced
<1>6. Sound(World, h, Tasks, K) /\ K \in SUBSET Transforms /\ Hosts(World, s, h)
  BY <1>2, StartSound, AskingMore, HostsHere DEF HooksSpent
<1> HIDE DEF v, g, s, h, K
<1>7. \A t \in Tasks \ {c} : v.tasks[t] = tasks[t]
  BY <1>0, <1>5 DEF Placed, Moves, Sends
<1> DEFINE S == Announced(c, World, v)
<1>8. Within(World, v, s, S)
  BY <1>0, <1>1, <1>2, AgreedAnnounces DEF Announces
<1> HIDE DEF S
<1>9. Kin(v, s)
  BY <1>0, <1>8, SameObjects, WithinKin
<1>10. Sound(v, h, Tasks, K)
  BY <1>1, <1>2, <1>6, AgreedSound
<1>11. QED
  BY <1>1, <1>7, <1>9, <1>10, CallStep DEF h, K

\* A call that goes on and lists nothing.
LEMMA StayedAsks ==
  ASSUME PluginInv, PlaceInv, AskInv, NEW c \in Calls, NEW w, Same(World, w),
         Become(w, {}), latest' = latest, NEW s,
         Sound(w, During(Asking(w), s), Tasks, HooksSpent(World)),
         \A t \in Tasks \ {c} : w.tasks[t] = tasks[t]
  PROVE  AskInv' /\ Only({c})
<1>1. Mapped(World)
  BY HerePlaced
<1>2. In(w) = In(World) /\ Steady(World, w, {})
  BY <1>1, SameMapped
<1>3. Kin(w, s)
  BY <1>1, <1>2, SteadyKin
<1>4. QED
  BY <1>3, CallStep

LEMMA UserDeniesAsks ==
  ASSUME PluginInv, PlaceInv, AskInv, NEW c \in Calls, UserDenies(c)
  PROVE  AskInv' /\ Only({c})
<1> DEFINE v == End(World, c, "denied")
           s == tasks[c].session
           h == During(Asking(v), s)
           K == HooksSpent(World)
<1>0. c \in Tasks /\ Shape(World) /\ World.tasks = tasks
  BY HerePlaced DEF Tasks
<1>1. Become(v, {}) /\ latest' = latest /\ v = End(World, c, "denied") /\ World.tasks[c].pc = "asking"
  BY <1>0 DEF UserDenies
<1>2. Ready(World, c)
  BY <1>0, <1>1, HerePlaced DEF Pending
<1>3. Moves(c, World, v)
  BY <1>0, EndMoves
<1>4. Sound(World, h, Tasks, K)
  BY StartSound, AskingMore
<1> HIDE DEF v, h, K, s
<1>5. Stays(c, World, v)
  BY <1>0, <1>1, <1>2, EndStays
<1>6. Sound(v, h, Tasks, K)
  BY <1>0, <1>1, <1>4, SoundLess, EndSound
<1>7. \A t \in Tasks \ {c} : v.tasks[t] = tasks[t]
  BY <1>0, <1>3 DEF Moves
<1>8. QED
  BY <1>1, <1>5, <1>6, <1>7, StayedAsks DEF Stays, h, K

LEMMA UserAbortsAsks ==
  ASSUME PluginInv, PlaceInv, AskInv, NEW c \in Calls, UserAborts(c)
  PROVE  AskInv' /\ Only({c})
<1> DEFINE stopped == [World EXCEPT !.requests =
             [i \in Slots |-> IF @[i] # Nothing /\ @[i].call = c THEN Stopped(@[i]) ELSE @[i]]]
           v == [stopped EXCEPT !.tasks[c].aborted = TRUE]
           s == tasks[c].session
           h == During(Asking(v), s)
           K == HooksSpent(World)
<1>0. c \in Tasks /\ Shape(World) /\ Mapped(World) /\ World.tasks = tasks
  BY HerePlaced DEF Tasks
<1>1. Become(v, {}) /\ latest' = latest
  BY DEF UserAborts
<1>2. /\ v.objects = World.objects /\ v.sessions = World.sessions /\ v.disposed = World.disposed
      /\ DOMAIN v = DOMAIN World /\ DOMAIN v.requests = Slots /\ DOMAIN v.tasks = Tasks
      /\ v.tasks[c] = [tasks[c] EXCEPT !.aborted = TRUE]
      /\ \A t \in Tasks \ {c} : v.tasks[t] = tasks[t]
      /\ \A i \in Slots : Kept(World.requests[i], v.requests[i])
  BY <1>0 DEF Shape, Kept
<1>3. Sound(World, h, Tasks, K) /\ K \in SUBSET Transforms
  BY StartSound, AskingMore DEF HooksSpent
<1> HIDE DEF v, stopped, h, K, s
<1>4. DOMAIN tasks[c] = TaskFields
  BY <1>0 DEF Shape
<1>5. /\ DOMAIN v.tasks[c] = TaskFields
      /\ v.tasks[c].pc = tasks[c].pc /\ v.tasks[c].slot = tasks[c].slot
      /\ v.tasks[c].terms = tasks[c].terms
  BY <1>2, <1>4 DEF TaskFields
<1>6. Shape(v)
  <2>1. \A i \in Slots : v.requests[i] # Nothing => IsRequest(v.requests[i])
    BY <1>0, <1>2, StoppedShape DEF Shape
  <2>2. QED
    BY <1>0, <1>2, <1>5, <2>1 DEF Shape
<1>7. Same(World, v)
  BY <1>0, <1>2, SameObjects
<1>8. /\ v.tasks[c].pc = World.tasks[c].pc /\ v.tasks[c].slot = World.tasks[c].slot
      /\ v.tasks[c].terms = World.tasks[c].terms
      /\ \A t \in Tasks \ {c} : v.tasks[t] = World.tasks[t]
  BY <1>0, <1>2, <1>5
<1>9. Sound(v, h, Tasks, K)
  <2> DEFINE w == World
  <2>1. /\ Sound(w, h, Tasks, K) /\ K \in SUBSET Transforms
        /\ v.objects = w.objects /\ v.sessions = w.sessions /\ v.disposed = w.disposed
        /\ Shape(v) /\ \A i \in Slots : Kept(w.requests[i], v.requests[i])
        /\ \A t \in Tasks \ {c} : v.tasks[t] = w.tasks[t]
        /\ v.tasks[c].pc = w.tasks[c].pc /\ v.tasks[c].slot = w.tasks[c].slot
        /\ v.tasks[c].terms = w.tasks[c].terms
    BY <1>2, <1>3, <1>6, <1>8
  <2> HIDE DEF w
  <2>2. QED
    BY <2>1, AbortedSound
<1>10. QED
  BY <1>1, <1>2, <1>7, <1>9, StayedAsks DEF h, K

LEMMA HostAnswersCallAsks ==
  ASSUME PluginInv, PlaceInv, AskInv, NEW c \in Calls, HostAnswers(c)
  PROVE  AskInv' /\ Only({c})
<1> DEFINE known == [World EXCEPT !.objects[tasks[c].object].directory = TRUE]
           targeted == Targets(known, c)
           ended == Ended(targeted, c, tasks[c].call.command)
           work == Work(known, c)
           invalid == End(known, c, "not_started")
           s == tasks[c].session
           K == HooksSpent(World)
<1>0. /\ c \in Tasks /\ c \notin Transforms
      /\ Shape(World) /\ Mapped(World) /\ World.tasks = tasks /\ CanHold(World, s)
  BY HerePlaced, TasksAssumption DEF Tasks
<1>1. /\ tasks[c].pc \in {"locating", "relocating"} /\ latest' = latest
      /\ Become(ended, {}) \/ Become(work, {}) \/ Become(invalid, {})
  BY <1>0 DEF HostAnswers, Invalid, Refuse
<1>2. Pending(World, c) /\ Ready(World, c)
  BY <1>0, <1>1, HerePlaced DEF Pending
<1>3. Stands(World, c, writes[c], granted[c])
  BY DEF PluginInv, WorldInv
<1>4. /\ known = [World EXCEPT !.objects[tasks[c].object].directory = TRUE]
      /\ targeted = Targets(known, c) /\ work = Work(known, c)
      /\ invalid = End(known, c, "not_started")
      /\ ended = Ended(targeted, c, tasks[c].call.command)
  OBVIOUS
<1> HIDE DEF known, targeted, work, invalid, ended
<1>5. Same(World, known) /\ Calm(World, known)
  BY <1>0, <1>4, KnownSame
<1>6. Shape(known) /\ Mapped(known) /\ known.tasks = tasks
  BY <1>0, <1>5, SameMapped DEF Calm
<1>7. Carries(c, World, known) /\ Ready(known, c)
  BY <1>0, <1>2, <1>5, <1>6, WorldCarries, CarriesReady
<1>8. s \in Sessions
  BY <1>0, <1>2 DEF Ready, Owned
<1>9. Open(known.tasks[c])
  <2>1. Says(tasks[c], writes[c], granted[c])
    BY <1>0, <1>3 DEF Stands
  <2>2. QED
    BY <1>1, <1>6, <2>1 DEF Says, Open
<1>10. ASSUME NEW v
       PROVE  LET h == During(Asking(v), s) IN
              /\ Sound(known, h, Tasks, K) /\ Sound(known, h, Besides(c), K)
              /\ K \in SUBSET Transforms
  <2> DEFINE h == During(Asking(v), s)
  <2>1. Sound(World, h, Tasks, K) /\ K \in SUBSET Transforms
    BY StartSound, AskingMore DEF HooksSpent
  <2> HIDE DEF h, K
  <2>2. Sound(known, h, Tasks, K)
    BY <1>4, <2>1, KnownSound
  <2>3. Sound(known, h, Besides(c), K)
    BY <2>2, SoundLess DEF Besides
  <2>4. QED
    BY <2>1, <2>2, <2>3 DEF h
<1>11. CASE Become(work, {})
  <2> DEFINE h == During(Asking(work), s)
  <2>1. Stays(c, known, work)
    BY <1>0, <1>4, <1>7, WorkStays
  <2>2. Placed(c, known, work, IF known.tasks[c].call.op = "remember" THEN known.tasks[c].targets.repository ELSE Nothing)
    BY <1>4, <1>6, <1>9, WorkPlaced
  <2>3. \A t \in Tasks \ {c} : work.tasks[t] = known.tasks[t]
    BY <2>2 DEF Placed, Moves, Sends
  <2>4. Same(World, work)
    BY <1>5, <2>1, SameTwice DEF Stays
  <2>5. Sound(known, h, Besides(c), K) /\ K \in SUBSET Transforms
    BY <1>10
  <2> HIDE DEF h, K, s
  <2>6. Sound(work, h, Tasks, K)
    BY <1>4, <2>5, WorkSound
  <2>7. QED
    BY <1>1, <1>6, <1>11, <2>3, <2>4, <2>6, StayedAsks DEF h, K
<1>12. CASE Become(invalid, {})
  <2> DEFINE h == During(Asking(invalid), s)
  <2>1. Stays(c, known, invalid)
    BY <1>0, <1>4, <1>7, EndStays
  <2>2. Moves(c, known, invalid)
    BY <1>0, <1>4, <1>6, EndMoves
  <2>3. \A t \in Tasks \ {c} : invalid.tasks[t] = known.tasks[t]
    BY <2>2 DEF Moves
  <2>4. Same(World, invalid)
    BY <1>5, <2>1, SameTwice DEF Stays
  <2>5. Sound(known, h, Tasks \ {c}, K)
    BY <1>10 DEF Besides
  <2> HIDE DEF h, K, s
  <2>6. Sound(invalid, h, Tasks, K)
    BY <1>0, <1>4, <2>5, EndSound
  <2>7. QED
    BY <1>1, <1>6, <1>12, <2>3, <2>4, <2>6, StayedAsks DEF h, K
<1>13. CASE Become(ended, {})
  <2> DEFINE h == During(Asking(ended), s)
             S == {}
  <2>1. Stays(c, known, targeted)
    BY <1>0, <1>4, <1>7, TargetsStays
  <2>2. Placed(c, known, targeted, Nothing)
    BY <1>4, <1>6, <1>9, TargetsPlaced
  <2>3. \A t \in Tasks \ {c} : targeted.tasks[t] = tasks[t]
    BY <1>6, <2>2 DEF Placed, Moves, Sends
  <2>4. Same(World, targeted) /\ targeted.tasks[c].session = s
    BY <1>5, <1>6, <2>1, SameTwice DEF Stays
  <2>5. Sound(known, h, Besides(c), K) /\ K \in SUBSET Transforms
    BY <1>10
  <2>6. Within(World, World, s, S)
    BY <1>0 DEF Within, Steady
  <2> HIDE DEF h, K, s, S
  <2>7. Sound(targeted, h, Tasks, K)
    BY <1>4, <2>5, TargetsSound
  <2>8. Within(World, targeted, s, S)
    BY <2>4, <2>6, WithinSame
  <2>9. QED
    BY <1>1, <1>4, <1>8, <1>13, <2>3, <2>4, <2>7, <2>8, EndedStep DEF h, K
<1>14. QED
  BY <1>1, <1>11, <1>12, <1>13

LEMMA HostFailsCallAsks ==
  ASSUME PluginInv, PlaceInv, AskInv, NEW c \in Calls, HostFails(c)
  PROVE  AskInv' /\ Only({c})
<1> DEFINE v == End(World, c, "not_started")
           w == Ended(v, c, tasks[c].call.command)
           s == tasks[c].session
           h == During(Asking(w), s)
           K == HooksSpent(World)
           S == {}
<1>0. /\ c \in Tasks /\ c \notin Transforms
      /\ Shape(World) /\ Mapped(World) /\ World.tasks = tasks /\ CanHold(World, s)
  BY HerePlaced, TasksAssumption DEF Tasks
<1>1. tasks[c].pc \in {"locating", "relocating"} /\ Become(w, {}) /\ latest' = latest
  BY <1>0 DEF HostFails, Invalid, Refuse
<1>2. Ready(World, c) /\ s \in Sessions
  BY <1>0, <1>1, HerePlaced DEF Pending, Owned
<1>3. Moves(c, World, v)
  BY <1>0, EndMoves
<1>4. v = End(World, c, "not_started") /\ w = Ended(v, c, tasks[c].call.command)
  OBVIOUS
<1>5. Sound(World, h, Tasks, K)
  BY StartSound, AskingMore
<1>6. Within(World, World, s, S)
  BY <1>0 DEF Within, Steady
<1> HIDE DEF v, w, h, K, S
<1>7. Stays(c, World, v)
  BY <1>0, <1>2, <1>4, EndStays
<1>8. v.tasks[c].session = s /\ Within(World, v, s, S)
  BY <1>0, <1>6, <1>7, WithinSame DEF Stays
<1>9. \A t \in Tasks \ {c} : v.tasks[t] = tasks[t]
  BY <1>0, <1>3 DEF Moves
<1>10. Sound(v, h, Tasks, K)
  BY <1>0, <1>4, <1>5, SoundLess, EndSound
<1> HIDE DEF s
<1>11. QED
  BY <1>1, <1>2, <1>4, <1>8, <1>9, <1>10, EndedStep DEF h, K

\* A step that no task takes.
LEMMA CalmStep ==
  ASSUME AskInv, NEW w, w.tasks = tasks, NEW touched, Become(w, touched), latest' = latest,
         NEW s, Kin(w, s), Sound(w, During(Asking(w), s), Tasks, HooksSpent(World))
  PROVE  AskInv' /\ Only({})
<1> DEFINE K == HooksSpent(World)
           T == {}
<1>1. K \in SUBSET Transforms /\ \A x \in K : w.tasks[x].pc \in Spenders
  BY DEF HooksSpent, World
<1>2. \A t \in Tasks \ T : w.tasks[t] = tasks[t]
  OBVIOUS
<1> HIDE DEF K, T
<1>3. AskInv' /\ Only(T)
  BY <1>1, <1>2, StepSound DEF K
<1>4. QED
  BY <1>3 DEF T

LEMMA QuietCommandAsks ==
  ASSUME PluginInv, PlaceInv, AskInv, NEW s \in Sessions, QuietCommand(s)
  PROVE  AskInv' /\ Only({})
<1> DEFINE v == CaptureQuiet(World, s)
           S == {s}
           h == During(Asking(v), s)
           K == HooksSpent(World)
<1>0. /\ s # Nothing /\ Shape(World) /\ Mapped(World) /\ CanHold(World, s)
      /\ World.tasks = tasks
  BY HerePlaced, NothingAssumption
<1>1. Become(v, S) /\ latest' = latest /\ v = CaptureQuiet(World, s)
  BY DEF QuietCommand
<1>2. Within(World, v, s, S)
  BY <1>0, CaptureQuietWithin
<1>3. Sound(World, h, Tasks, K) /\ K \in SUBSET Transforms /\ h.session = s
  BY StartSound, AskingMore DEF HooksSpent, During
<1> HIDE DEF v, S, h, K
<1>4. Kin(v, s)
  BY <1>0, <1>2, SameObjects, WithinKin
<1>5. Sound(v, h, Tasks, K) /\ v.tasks = tasks
  BY <1>0, <1>1, <1>3, CaptureQuietSound
<1>6. QED
  BY <1>1, <1>4, <1>5, CalmStep DEF h, K

LEMMA InspectCommandAsks ==
  ASSUME PluginInv, PlaceInv, AskInv, NEW s \in Sessions, InspectCommand(s)
  PROVE  AskInv' /\ Only({})
<1> DEFINE w == StateFor(World, s)
           v == [w EXCEPT !.objects[Latest(w)].message = Label]
           h == During(Asking(v), s)
           K == HooksSpent(World)
           E == {}
<1>0. /\ s # Nothing /\ Shape(World) /\ Mapped(World) /\ CanHold(World, s)
      /\ World.tasks = tasks
  BY HerePlaced, NothingAssumption
<1>1. Become(v, E) /\ latest' = latest /\ w = StateFor(World, s)
  BY DEF InspectCommand
<1>2. v = [w EXCEPT !.objects[Latest(w)].message = Label]
  OBVIOUS
<1>3. Sound(World, h, Tasks, K) /\ K \in SUBSET Transforms /\ h.session = s
  BY StartSound, AskingMore DEF HooksSpent, During
<1> HIDE DEF w, v, h, K, E
<1>4. Within(World, w, s, E)
  BY <1>0, <1>1, StateForWithin DEF E
<1>5. Sound(w, h, Tasks, K) /\ w.tasks = tasks
  BY <1>0, <1>1, <1>3, StateForSound
<1>6. Shape(w) /\ Mapped(w)
  BY <1>5 DEF Sound, Whole
<1>7. Same(w, v) /\ Calm(w, v)
  BY <1>2, <1>6, LabelSame
<1>8. Within(World, v, s, E)
  BY <1>4, <1>7, WithinSame
<1>9. Kin(v, s)
  BY <1>0, <1>8, SameObjects, WithinKin
<1>10. Sound(v, h, Tasks, K)
  BY <1>2, <1>5, LabelSound, ZenonT(30)
<1>11. v.tasks = tasks
  BY <1>5, <1>7 DEF Calm
<1>12. QED
  BY <1>1, <1>9, <1>10, <1>11, CalmStep DEF h, K

LEMMA CompactAsks ==
  ASSUME PluginInv, PlaceInv, AskInv, NEW s \in Sessions, Compact(s)
  PROVE  AskInv' /\ Only({})
<1> DEFINE v == Clear(World, s)
           h == During(Asking(v), s)
           K == HooksSpent(World)
           E == {}
<1>0. Shape(World) /\ Mapped(World) /\ World.tasks = tasks
  BY HerePlaced
<1>1. Become(v, E) /\ latest' = latest /\ v = Clear(World, s)
  BY DEF Compact
<1>2. Sound(World, h, Tasks, K) /\ K \in SUBSET Transforms
  BY StartSound, AskingMore DEF HooksSpent
<1> HIDE DEF v, h, K, E
<1>3. /\ Sound(v, h, Tasks, K) /\ In(v) = In(World) \ Held(World, s) /\ Calm(World, v)
  BY <1>1, <1>2, ClearSound
<1>4. /\ v.disposed = World.disposed
      /\ \A o \in Objects : /\ v.objects[o].session = World.objects[o].session
                            /\ v.objects[o].generation = World.objects[o].generation
  BY <1>0, <1>1, ClearMapped DEF Mapped
<1>5. Steady(World, v, E)
  BY <1>3, <1>4 DEF Steady
<1>6. Kin(v, s)
  BY <1>0, <1>3, <1>5, SteadyKin
<1>7. v.tasks = tasks
  BY <1>0, <1>3 DEF Calm
<1>8. QED
  BY <1>1, <1>3, <1>6, <1>7, CalmStep DEF h, K

LEMMA DisposeAsks ==
  ASSUME PluginInv, PlaceInv, AskInv, Dispose
  PROVE  AskInv' /\ Only({})
<1> DEFINE v == ClearAll(World)
           s == Nothing
           h == During(Asking(v), s)
           K == HooksSpent(World)
           E == {}
<1>0. Shape(World) /\ Mapped(World) /\ World.tasks = tasks
  BY HerePlaced
<1>1. Become(v, E) /\ latest' = latest /\ v = ClearAll(World)
  BY DEF Dispose
<1>2. Sound(World, h, Tasks, K) /\ K \in SUBSET Transforms
  BY StartSound, AskingMore DEF HooksSpent
<1>3. Calm(World, v) /\ Steady(World, v, E)
  BY <1>0, ClearAllCalm, ClearAllMapped
<1>4. In(v) = {}
  <2>1. v.sessions = <<>>
    BY <1>0 DEF ClearAll, Abort, Shape
  <2>2. QED
    BY <2>1 DEF In, ToSet
<1> HIDE DEF v, h, K, E, s
<1>5. Sound(v, h, Tasks, K)
  BY <1>1, <1>2, ClearAllSound
<1>6. Kin(v, s)
  BY <1>0, <1>3, <1>4, SteadyKin
<1>7. v.tasks = tasks
  BY <1>0, <1>3 DEF Calm
<1>8. QED
  BY <1>1, <1>5, <1>6, <1>7, CalmStep DEF h, K

\* A message that a session's object does not know gives it a new generation.
LEMMA CaptureRenews ==
  ASSUME NEW w, Whole(w), NEW s \in Sessions, CanHold(w, s), NEW n, n # Undefined,
         \A p \in In(w) : w.objects[p].session = s => w.objects[p].message # n,
         NEW v, v = Capture(w, s, n), NEW p \in In(v), v.objects[p].session = s
  PROVE  /\ v.objects[p].terms = n /\ v.objects[p].message = n /\ v.objects[p].cache = Nothing
         /\ w.objects[p].session = s => v.objects[p].generation = w.objects[p].generation + 1
<1> DEFINE w1 == StateFor(w, s)
           o == Latest(w1)
           w2 == Invalidate(w1, o)
<1>0. /\ s # Nothing /\ Shape(w) /\ Mapped(w) /\ w1 = StateFor(w, s) /\ w2 = Invalidate(w1, o)
  BY NothingAssumption DEF Whole
<1>1. v = [IF w1.objects[o].message # n THEN w2 ELSE w1 EXCEPT
             !.objects[o].message = n, !.objects[o].terms = n]
  BY DEF Capture
<1> HIDE DEF w1, w2
<1>2. /\ Within(w, w1, s, {}) /\ Calm(w, w1)
      /\ o \in In(w1) /\ o \in Objects /\ w1.objects[o].session = s
  BY <1>0, StateForWithin
<1>3. Shape(w1) /\ Mapped(w1)
  BY <1>2 DEF Calm, Within
<1>4. /\ Held(w, s) # {} => \A f \in ObjectFields \ {"aborted"} : w1.objects[o][f] = w.objects[o][f]
      /\ Held(w, s) = {} =>
           /\ w.objects[o].session = Nothing
           /\ \A f \in ObjectFields \ {"aborted"} : w1.objects[o][f] = NewObject(s)[f]
  BY <1>0, StateForDoes
<1>5. /\ w1.objects[o].message # n
      /\ w.objects[o].session = s => w1.objects[o].generation = w.objects[o].generation
  <2>1. CASE Held(w, s) # {}
    <3>1. /\ w1.objects[o].message = w.objects[o].message /\ w1.objects[o].session = w.objects[o].session
          /\ w1.objects[o].generation = w.objects[o].generation
      BY <1>4, <2>1 DEF ObjectFields
    <3>2. o \in In(w)
      BY <1>2, <2>1 DEF Within
    <3>3. QED
      BY <1>2, <3>1, <3>2
  <2>2. CASE Held(w, s) = {}
    BY <1>0, <1>4, <2>2 DEF ObjectFields, NewObject
  <2>3. QED
    BY <2>1, <2>2
<1>6. Whole(w1)
  <2>1. \A q \in Objects : w1.objects[q].generation \in Nat \ {0}
    <3>1. ASSUME NEW q \in Objects
          PROVE  w1.objects[q].generation \in Nat \ {0}
      <4>1. w.objects[q].generation \in Nat \ {0}
        BY DEF Whole
      <4>2. /\ \A r \in Objects \ {o} : \A f \in ObjectFields \ {"aborted"} : w1.objects[r][f] = w.objects[r][f]
        BY <1>0, StateForDoes
      <4>3. CASE q # o
        BY <4>1, <4>2, <4>3 DEF ObjectFields
      <4>4. CASE q = o
        BY <1>4, <4>1, <4>4 DEF ObjectFields, NewObject
      <4>5. QED
        BY <4>3, <4>4
    <3>2. QED
      BY <3>1
  <2>2. QED
    BY <1>3, <2>1 DEF Whole
<1>7. /\ w2.sessions = w1.sessions /\ Calm(w1, w2)
      /\ DOMAIN w2.objects = Objects
      /\ \A q \in Objects : q # o => w2.objects[q] = w1.objects[q]
      /\ DOMAIN w2.objects[o] = ObjectFields
      /\ w2.objects[o].session = s /\ w2.objects[o].cache = Nothing
      /\ w2.objects[o].generation = w1.objects[o].generation + 1
  BY <1>0, <1>2, <1>6, InvalidateDoes DEF ObjectFields
<1>8. DOMAIN w2 = {"objects", "sessions", "approvals", "disposed", "tasks", "requests"}
  BY <1>7 DEF Calm, Shape
<1> DEFINE e == w2.objects[o]
           b == [e EXCEPT !.message = n, !.terms = n]
<1>9. v.sessions = w1.sessions /\ v.objects = [w2.objects EXCEPT ![o] = b]
  <2> DEFINE w3 == [w2 EXCEPT !.objects[o].message = n]
             c == [e EXCEPT !.message = n]
  <2>1. /\ w3.objects = [w2.objects EXCEPT ![o] = c] /\ w3.sessions = w1.sessions
        /\ DOMAIN w3 = {"objects", "sessions", "approvals", "disposed", "tasks", "requests"}
    BY <1>7, <1>8
  <2>2. v = [w3 EXCEPT !.objects[o].terms = n]
    BY <1>1, <1>5
  <2>3. w3.objects[o] = c /\ b = [c EXCEPT !.terms = n]
    BY <1>2, <1>7, <2>1
  <2> HIDE DEF w3, b, c
  <2>4. v.objects = [w3.objects EXCEPT ![o] = b] /\ v.sessions = w3.sessions
    BY <2>1, <2>2, <2>3
  <2>5. QED
    BY <2>1, <2>4
<1>10. /\ b.terms = n /\ b.message = n /\ b.cache = Nothing /\ b.session = s
       /\ b.generation = w1.objects[o].generation + 1
  BY <1>7 DEF ObjectFields
<1> HIDE DEF e, b
<1>11. v.objects[o] = b /\ \A q \in Objects : q # o => v.objects[q] = w1.objects[q]
  BY <1>2, <1>7, <1>9
<1>12. p = o
  <2>1. p \in In(w1) /\ p \in Objects
    BY <1>3, <1>9, InListed DEF In, Mapped
  <2>2. w1.objects[p].session = s
    BY <1>2, <1>11, <2>1
  <2>3. QED
    BY <1>2, <1>3, <2>1, <2>2, InListed DEF Mapped
<1>13. QED
  BY <1>5, <1>10, <1>11, <1>12

LEMMA NewMessageAsks ==
  ASSUME PluginInv, PlaceInv, AskInv, NEW s \in Sessions, NewMessage(s)
  PROVE  AskInv' /\ Only({})
<1> DEFINE n == latest'[s]
           v == Capture(World, s, n)
           S == {s}
           K == HooksSpent(World)
           h == [asked |-> [r \in Sessions |-> IF r = s THEN asked[r] \cup {n} ELSE asked[r]],
                 latest |-> latest', listed |-> In(World), session |-> s]
           g == Then
           R == Dropped(v) \cup {s}
           T == {}
<1>0. /\ s # Nothing /\ Shape(World) /\ Mapped(World) /\ CanHold(World, s)
      /\ World.tasks = tasks /\ World.objects = objects
  BY HerePlaced, NothingAssumption
<1>1. Become(v, S) /\ v = Capture(World, s, n) /\ latest[s] < MaxMessages
      /\ latest' = [latest EXCEPT ![s] = @ + 1]
  BY DEF NewMessage
<1>2. latest \in [Sessions -> Nat \ {0}] /\ \A r \in Sessions : latest[r] \in asked[r]
  BY DEF AskInv
<1>3. /\ latest' \in [Sessions -> Nat \ {0}] /\ n = latest[s] + 1
      /\ \A r \in Sessions \ {s} : latest'[r] = latest[r]
  BY <1>1, <1>2
<1>4. n # Undefined /\ n # Label /\ n \notin 1..latest[s] /\ n \in 1..n /\ latest'[s] = n
  BY <1>1, <1>2, <1>3, MessagesAssumption DEF Undefined, Label
<1>5. K \in SUBSET Transforms /\ Sound(World, Present, Tasks, K)
  BY DEF AskInv, HooksSpent
<1>6. Within(World, v, s, S)
  BY <1>0, CaptureWithin
<1>7. /\ h.session = s /\ h.latest = latest' /\ h.listed = In(World)
      /\ \A r \in Sessions : asked[r] \subseteq h.asked[r]
      /\ \A r \in Sessions \ {s} : h.asked[r] = asked[r]
      /\ n \in h.asked[s] /\ n \in 1..h.latest[s]
  BY <1>4
<1>8. \A r \in Sessions : 1..latest[r] \subseteq 1..latest'[r]
  BY <1>2, <1>3
<1>9. v = Capture(World, s, n) /\ R = Dropped(v) \cup {s} /\ T = {} /\ S = {s} /\ g = Then
  OBVIOUS
<1> HIDE DEF n, v, S, K, h, R, T, g
<1>10. Sound(World, h, Tasks, K)
  <2> DEFINE Q == {}
             p == Present
             w == World
  <2>1. /\ \A r \in Sessions \ Q : p.asked[r] \subseteq h.asked[r]
        /\ \A r \in Sessions : 1..p.latest[r] \subseteq 1..h.latest[r]
        /\ \A o \in In(w) : o \in h.listed \/ w.objects[o].session = h.session
        /\ \A o \in In(w) : w.objects[o].session \in Q => ObjectSound(w, o, h, K)
        /\ \A x \in Transforms : Pending(w, x) /\ w.tasks[x].session \in Q => ~Fresh(w, x)
        /\ Sound(w, p, Tasks, K)
    BY <1>5, <1>7, <1>8 DEF Present
  <2> HIDE DEF Q, p, w
  <2>2. Sound(w, h, Tasks, K)
    BY <2>1, HistorySound
  <2>3. QED
    BY <2>2 DEF w
<1>11. Sound(v, h, Tasks, K) /\ v.tasks = tasks
  BY <1>0, <1>5, <1>7, <1>9, <1>10, CaptureSound
<1>12. Kin(v, s) /\ Mapped(v)
  BY <1>0, <1>6, SameObjects, WithinKin DEF Within
<1>13. \A r \in Sessions : asked'[r] = IF r \in Dropped(v) \/ latest'[r] # latest[r]
                                       THEN {latest'[r]} ELSE asked[r]
  <2>1. Told(v) = {} /\ Capturing(v) = {}
    BY <1>11 DEF Told, Capturing
  <2> DEFINE found(r) == {c \in Told(v) : tasks[c].session = r /\ v.tasks[c].report = "ok"}
             late(r) == {x \in Capturing(v) : tasks[x].session = r}
  <2>2. \A r : /\ {tasks[c].terms : c \in found(r)} = {}
               /\ {tasks[x].message : x \in late(r)} = {}
    BY <2>1
  <2>3. \A r \in Sessions : asked'[r] =
          IF r \in Dropped(v) \/ latest'[r] # latest[r] THEN {latest'[r]}
          ELSE asked[r] \cup {tasks[c].terms : c \in found(r)} \cup {tasks[x].message : x \in late(r)}
    BY <1>1 DEF Become
  <2> HIDE DEF found, late
  <2>4. QED
    BY <2>2, <2>3
<1>14. asked'[s] = {n} /\ g.asked = asked' /\ g.latest = latest' /\ g.listed = Objects
  <2>1. latest[s] \in Nat /\ latest'[s] # latest[s]
    BY <1>2, <1>3, <1>4
  <2>2. asked'[s] = {n}
    BY <1>4, <1>13, <2>1
  <2>3. g.asked = asked' /\ g.latest = latest' /\ g.listed = Objects
    BY <1>9 DEF Then
  <2>4. QED
    BY <2>2, <2>3
<1>15. ASSUME NEW o \in In(v)
       PROVE  /\ o \in Objects /\ v.objects[o].session \notin Dropped(v)
              /\ ObjectSound(v, o, h, K)
  <2>1. ObjectSound(v, o, h, K)
    BY <1>11 DEF Sound
  <2>2. o \in In(World) \/ v.objects[o].session = s
    BY <1>7, <2>1 DEF ObjectSound
  <2>3. o \in Objects
    BY <1>12, InListed DEF Mapped
  <2>4. QED
    BY <1>0, <1>12, <2>1, <2>2, <2>3, DroppedGone
<1>16. ASSUME NEW o \in In(v), v.objects[o].session = s
       PROVE  /\ v.objects[o].terms = n /\ v.objects[o].message = n /\ v.objects[o].cache = Nothing
              /\ objects[o].session = s => v.objects[o].generation = objects[o].generation + 1
  <2>1. \A p \in In(World) : World.objects[p].session = s => World.objects[p].message # n
    <3>1. ASSUME NEW p \in In(World), World.objects[p].session = s
          PROVE  World.objects[p].message # n
      <4>1. ObjectSound(World, p, Present, K)
        BY <1>5 DEF Sound
      <4>2. World.objects[p].message \in (1..latest[s]) \cup {Undefined, Label}
        BY <3>1, <4>1 DEF ObjectSound, Present
      <4>3. QED
        BY <1>4, <4>2
    <3>2. QED
      BY <3>1
  <2>2. Whole(World)
    BY <1>5 DEF Sound
  <2>3. QED
    BY <1>0, <1>4, <1>9, <1>16, <2>1, <2>2, CaptureRenews
<1>17. ASSUME NEW o \in In(v), v.objects[o].session \in R
       PROVE  ObjectSound(v, o, g, K)
  <2>1. v.objects[o].session = s
    BY <1>9, <1>15, <1>17
  <2>2. QED
    BY <1>4, <1>14, <1>15, <1>16, <2>1 DEF ObjectSound, CacheSound
<1>18. ASSUME NEW x \in Transforms, Pending(v, x), v.tasks[x].session \in R
       PROVE  ~Fresh(v, x)
  <2> DEFINE o == v.tasks[x].object
  <2>1. HookHolds(v, x, h) /\ HookHolds(World, x, Present)
    BY <1>5, <1>11 DEF Sound, HookSound, Tasks
  <2>2. v.objects[o].session = v.tasks[x].session
    BY <1>18, <2>1 DEF HookHolds
  <2>3. /\ o \in Objects /\ objects[o].session = v.tasks[x].session
        /\ v.tasks[x].generation <= objects[o].generation
        /\ v.tasks[x].generation \in Nat /\ objects[o].generation \in Nat
    <3>1. Pending(World, x) /\ World.tasks[x] = v.tasks[x]
      BY <1>0, <1>11, <1>18 DEF Pending
    <3>2. QED
      BY <1>0, <1>5, <2>1, <3>1 DEF HookHolds, Sound, Whole
  <2> HIDE DEF o
  <2>4. ASSUME Fresh(v, x)
        PROVE  FALSE
    <3>1. o \in In(v) /\ v.tasks[x].generation = v.objects[o].generation
      BY <2>4 DEF Fresh, o
    <3>2. v.objects[o].session = s
      BY <1>9, <1>15, <1>18, <2>2, <3>1
    <3>3. v.objects[o].generation = objects[o].generation + 1
      BY <1>16, <2>2, <2>3, <3>1, <3>2
    <3>4. QED
      BY <2>3, <3>1, <3>3
  <2>5. QED
    BY <2>4
<1>19. Sound(v, g, Tasks, K)
  <2>1. \A r \in Sessions \ R : h.asked[r] \subseteq g.asked[r]
    BY <1>3, <1>7, <1>9, <1>13, <1>14
  <2>2. /\ \A r \in Sessions : 1..h.latest[r] \subseteq 1..g.latest[r]
        /\ \A o \in In(v) : o \in g.listed \/ v.objects[o].session = g.session
    BY <1>7, <1>14, <1>15
  <2>3. QED
    BY <1>11, <1>17, <1>18, <2>1, <2>2, HistorySound
<1>20. Sound(World', Then, Tasks, HooksSpent(World')) /\ Only(T)
  <2>1. \A x \in K : v.tasks[x].pc \in Spenders
    BY <1>0, <1>11 DEF K, HooksSpent
  <2>2. \A t \in Tasks \ T : v.tasks[t] = tasks[t]
    BY <1>11
  <2>3. QED
    BY <1>1, <1>5, <1>9, <1>19, <2>1, <2>2, BecomeSound
<1>21. \A r \in Sessions : latest'[r] \in asked'[r]
  BY <1>2, <1>13
<1>22. QED
  BY <1>3, <1>9, <1>20, <1>21 DEF AskInv, Present, Then

\* What a request asks for stays.
LEMMA BridgeTerms ==
  ASSUME NEW i \in Slots, DOMAIN requests = Slots, IsRequest(requests[i]), Bridge(i)
  PROVE  \A j \in Slots : requests'[j].terms = requests[j].terms
<1> USE DEF Update, Settle, IsRequest, RequestFields
<1>1. \A j \in Slots \ {i} : requests'[j] = requests[j]
  BY BridgeDoes
<1>2. requests'[i].terms = requests[i].terms
  <2>1. CASE Deadline(i)
    BY <2>1 DEF Deadline, Stopped
  <2>2. CASE Handshake(i) \/ Commits(i)
    BY <2>2 DEF Handshake, Commits
  <2>3. CASE Unlaunched(i) \/ Succeeds(i) \/ Rejects(i) \/ Crashes(i) \/ Closes(i)
    BY <2>3 DEF Unlaunched, Succeeds, Rejects, Crashes, Closes
  <2>4. QED
    BY <2>1, <2>2, <2>3 DEF Bridge
<1>3. QED
  BY <1>1, <1>2

LEMMA BridgeAsks ==
  ASSUME PluginInv, PlaceInv, AskInv, NEW i \in Slots, BridgeStep(i)
  PROVE  AskInv' /\ Only({})
<1> DEFINE w == World
           v == World'
           h == Present
           K == HooksSpent(w)
<1>1. /\ v.objects = w.objects /\ v.sessions = w.sessions /\ v.disposed = w.disposed
      /\ v.tasks = w.tasks /\ w.requests = requests /\ v.requests = requests'
      /\ w.tasks = tasks /\ tasks' = tasks /\ asked' = asked /\ latest' = latest
  BY DEF BridgeStep, others, World
<1>2. Shape(w) /\ Shape(v)
  BY BridgeKeeps DEF PluginInv, WorldInv
<1>3. Mapped(w) /\ Sound(w, h, Tasks, K) /\ K \in SUBSET Transforms
  BY HerePlaced DEF AskInv, HooksSpent
<1>4. \A j \in Slots : v.requests[j].terms = w.requests[j].terms
  <2>1. DOMAIN requests = Slots /\ \A j \in Slots : requests[j] # Nothing => IsRequest(requests[j])
    BY <1>1, <1>2 DEF Shape
  <2>2. Bridge(i) /\ requests[i] # Nothing
    BY DEF BridgeStep, Bridge, Handshake, Unlaunched, Commits, Succeeds, Rejects, Crashes,
           Deadline, Closes, Live, Running
  <2>3. \A j \in Slots : requests'[j].terms = requests[j].terms
    BY <2>1, <2>2, BridgeTerms
  <2>4. QED
    BY <1>1, <2>3
<1>5. HooksSpent(v) = K
  BY <1>1 DEF HooksSpent
<1>6. h' = h
  BY <1>1 DEF Present
<1> HIDE DEF w, v, h, K
<1>7. Same(w, v)
  BY <1>1, <1>3, SameObjects
<1>8. Mapped(v) /\ In(v) = In(w)
  BY <1>3, <1>7, SameMapped
<1>9. Whole(v) /\ Later(w, v)
  <2>1. \A o \in Objects : w.objects[o].generation \in Nat \ {0}
    BY <1>3 DEF Sound, Whole
  <2>2. QED
    BY <1>1, <1>2, <1>8, <2>1 DEF Whole, Later
<1>10. AsksOn(w, v, Tasks, K)
  <2>1. Spent(K) \cup {<<c, "own">> : c \in Calls \cap Tasks} \subseteq Slots
    BY <1>3, SlotsAssumption DEF Spent, Tasks
  <2>2. QED
    BY <1>4, <2>1 DEF AsksOn
<1>11. Sound(v, h, Tasks, K)
  BY <1>1, <1>3, <1>8, <1>9, <1>10, Framed
<1>12. latest' \in [Sessions -> Nat \ {0}] /\ \A s \in Sessions : latest'[s] \in asked'[s]
  BY <1>1 DEF AskInv
<1>13. Sound(World', Present', Tasks, HooksSpent(World'))
  BY <1>5, <1>6, <1>11 DEF v, h
<1>14. QED
  BY <1>1, <1>12, <1>13 DEF AskInv, Only

LEMMA AskInit ==
  ASSUME PluginInit
  PROVE  AskInv
<1>1. /\ World.objects = [o \in Objects |-> Blank] /\ World.sessions = <<>>
      /\ World.tasks = [t \in Tasks |-> Idle]
      /\ latest = [s \in Sessions |-> 1] /\ asked = [s \in Sessions |-> {1}]
  BY DEF World, PluginInit
<1>2. Shape(World) /\ Mapped(World)
  BY PluginInitInv, PlaceInit DEF PluginInv, WorldInv, PlaceInv, Places
<1>3. Whole(World)
  BY <1>1, <1>2 DEF Whole, Blank, NewObject
<1>4. In(World) = {}
  BY <1>1 DEF In, ToSet
<1>5. \A t \in Tasks : World.tasks[t].pc = "idle" /\ World.tasks[t].receipt = Nothing
  BY <1>1 DEF Idle
<1>6. \A x \in Transforms : HookSound(World, x, Present, HooksSpent(World))
  BY <1>5 DEF HookSound, HookHolds, Pending, Tasks
<1>7. \A c \in Calls : CallSound(World, c)
  BY <1>5 DEF CallSound, Tasks
<1>8. Sound(World, Present, Tasks, HooksSpent(World))
  BY <1>3, <1>4, <1>6, <1>7 DEF Sound
<1>9. QED
  BY <1>1, <1>8 DEF AskInv

\* Hook x adds only what was asked for.
Adds(x) ==
  tasks[x].receipt # Nothing /\ tasks'[x].report = "part" =>
    ~disposed /\ tasks[x].receipt.terms \in asked[tasks[x].session]

\* A hook adds what it was given as it records it, and at no other step.
LEMMA NoneAdded ==
  ASSUME PluginInv, PlaceInv, AskInv, NEW T, Only(T), NEW x \in Transforms,
         x \in T => tasks[x].pc # "recording"
  PROVE  Adds(x)
<1>1. x \in Tasks /\ World.tasks = tasks /\ Owned(World, x)
  BY HerePlaced DEF Tasks
<1>2. HookSound(World, x, Present, HooksSpent(World))
  BY <1>1 DEF AskInv, Sound
<1>3. tasks[x].receipt # Nothing => tasks[x].pc = "recording"
  BY <1>1, <1>2 DEF HookSound
<1>4. tasks[x].pc = "recording" => tasks[x].report = "none"
  BY <1>1 DEF Owned
<1>5. x \notin T => tasks'[x].report = tasks[x].report
  BY <1>1 DEF Only
<1>6. QED
  BY <1>3, <1>4, <1>5 DEF Adds

LEMMA AskNext ==
  ASSUME PluginInv, PlaceInv, AskInv, PluginNext
  PROVE  AskInv' /\ \A x \in Transforms : Adds(x)
<1>1. ASSUME NEW y \in Transforms,
             WakeTransform(y) \/ \E s \in Working : StartTransform(y, s)
      PROVE  AskInv' /\ \A x \in Transforms : Adds(x)
  <2>1. AskInv' /\ Only({y}) /\ tasks[y].pc # "recording"
    BY <1>1, WakeTransformAsks, StartTransformAsks
  <2>2. QED
    BY <2>1, NoneAdded
<1>2. ASSUME NEW y \in Transforms, Recorded(y)
      PROVE  AskInv' /\ \A x \in Transforms : Adds(x)
  <2>1. AskInv' /\ Only({y}) /\ Adds(y)
    BY <1>2, RecordedAsks DEF Adds
  <2>2. \A x \in Transforms \ {y} : Adds(x)
    BY <2>1, NoneAdded
  <2>3. QED
    BY <2>1, <2>2
<1>3. ASSUME NEW c \in Calls,
             \/ WakeCall(c) \/ UserAgrees(c) \/ UserDenies(c) \/ UserAborts(c)
             \/ \E s \in Working, q \in Tools : StartCall(c, s, q)
      PROVE  AskInv' /\ \A x \in Transforms : Adds(x)
  <2>1. AskInv' /\ Only({c})
    BY <1>3, WakeCallAsks, UserAgreesAsks, UserDeniesAsks, UserAbortsAsks, StartCallAsks
  <2>2. \A x \in Transforms : x \notin {c}
    BY TasksAssumption
  <2>3. QED
    BY <2>1, <2>2, NoneAdded
<1>4. ASSUME NEW t \in Tasks, HostAnswers(t) \/ HostFails(t)
      PROVE  AskInv' /\ \A x \in Transforms : Adds(x)
  <2>1. CASE t \in Transforms
    <3>1. AskInv' /\ Only({t}) /\ tasks[t].pc # "recording"
      BY <1>4, <2>1, HostAnswersHookAsks, HostFailsHookAsks
    <3>2. QED
      BY <3>1, NoneAdded
  <2>2. CASE t \in Calls
    <3>1. AskInv' /\ Only({t})
      BY <1>4, <2>2, HostAnswersCallAsks, HostFailsCallAsks
    <3>2. \A x \in Transforms : x \notin {t}
      BY <2>2, TasksAssumption
    <3>3. QED
      BY <3>1, <3>2, NoneAdded
  <2>3. QED
    BY <2>1, <2>2 DEF Tasks
<1>5. ASSUME \/ \E s \in Sessions : NewMessage(s) \/ QuietCommand(s) \/ InspectCommand(s) \/ Compact(s)
             \/ \E i \in Slots : BridgeStep(i)
             \/ Dispose
      PROVE  AskInv' /\ \A x \in Transforms : Adds(x)
  <2>1. AskInv' /\ Only({})
    BY <1>5, NewMessageAsks, QuietCommandAsks, InspectCommandAsks, CompactAsks, BridgeAsks, DisposeAsks
  <2>2. QED
    BY <2>1, NoneAdded
<1>6. QED
  BY <1>1, <1>2, <1>3, <1>4, <1>5 DEF PluginNext

LEMMA AskStutters ==
  ASSUME AskInv, UNCHANGED pluginVars
  PROVE  AskInv'
<1>1. World' = World /\ Present' = Present /\ latest' = latest /\ asked' = asked
  BY DEF pluginVars, memory, host, World, Present
<1>2. Sound(World', Present', Tasks, HooksSpent(World'))
  BY <1>1 DEF AskInv
<1>3. QED
  BY <1>1, <1>2 DEF AskInv

\* A reference added to a message (src/plugin/recall.js:128) was recalled for
\* terms that its session has asked for since its last message came, by a
\* tool or by a hook, and never after the plugin was disposed of.
THEOREM InjectedAsked ==
  PluginSpec =>
    [][\A x \in Transforms :
         tasks[x].receipt # Nothing /\ tasks'[x].report = "part" =>
           ~disposed /\ tasks[x].receipt.terms \in asked[tasks[x].session]]_pluginVars
<1> DEFINE A == \A x \in Transforms :
                  tasks[x].receipt # Nothing /\ tasks'[x].report = "part" =>
                    ~disposed /\ tasks[x].receipt.terms \in asked[tasks[x].session]
<1>1. PluginInit => PlaceInv /\ AskInv
  BY PlaceInit, AskInit
<1>2. PluginInv /\ PlaceInv /\ AskInv /\ [PluginNext]_pluginVars =>
        PlaceInv' /\ AskInv' /\ [A]_pluginVars
  <2>1. ASSUME PluginInv, PlaceInv, AskInv, PluginNext
        PROVE  PlaceInv' /\ AskInv' /\ A
    BY <2>1, PlaceNext, AskNext DEF Adds
  <2>2. ASSUME PlaceInv, AskInv, UNCHANGED pluginVars
        PROVE  PlaceInv' /\ AskInv'
    BY <2>2, ElsewherePlaces, AskStutters DEF pluginVars, memory, host
  <2> HIDE DEF A
  <2>3. QED
    BY <2>1, <2>2
<1>3. QED
  BY <1>1, <1>2, PluginInvariant, PTL DEF PluginSpec
===============================================================================
