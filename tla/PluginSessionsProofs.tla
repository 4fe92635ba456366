------------------------ MODULE PluginSessionsProofs -------------------------
(***************************************************************************)
(* What the plugin commits was granted, what it reports is true, and no    *)
(* hook falls silent without a reason.                                     *)
(*                                                                         *)
(* A step of the plugin is a composition of operators on a World.  Most of *)
(* them leave the calls alone and do no more to a request than stop it:    *)
(* the first part says so of each.  The second part says, of a call, where *)
(* it stands with its one write, and that every step keeps it there        *)
(* (PluginInv).  The third says of each operator what it does to the map   *)
(* of sessions and their objects, and from that where every object, task   *)
(* and hook is (PlaceInv).                                                 *)
(***************************************************************************)
EXTENDS PluginSessions, TLAPS, SequenceTheorems, FiniteSetTheorems
LOCAL INSTANCE SequencesExt
LOCAL INSTANCE FiniteSetsExt

-----------------------------------------------------------------------------
(* Worlds.                                                                 *)

TaskFields == {"pc", "call", "session", "message", "object", "generation", "slot",
               "targets", "terms", "aborted", "receipt", "report"}
RequestFields == {"op", "targets", "terms", "object", "generation", "call",
                  "phase", "committed", "outcome"}

Outcomes == {"ok", "not_started", "rejected", "outcome_unknown"}

IsRequest(r) == DOMAIN r = RequestFields /\ r.outcome \in Outcomes

\* The fields that the operators update are there.
Shape(w) ==
  /\ DOMAIN w = {"objects", "sessions", "approvals", "disposed", "tasks", "requests"}
  /\ DOMAIN w.tasks = Tasks
  /\ DOMAIN w.requests = Slots
  /\ \A t \in Tasks : DOMAIN w.tasks[t] = TaskFields
  /\ \A i \in Slots : w.requests[i] # Nothing => IsRequest(w.requests[i])

Kept(r, q) == q = r \/ q = Stopped(r)

\* Between w and v requests were at most stopped, and no task moved.
Calm(w, v) ==
  /\ Shape(v)
  /\ v.tasks = w.tasks
  /\ \A i \in Slots : Kept(w.requests[i], v.requests[i])

Own(t) == {<<t, "shared">>, <<t, "own">>}

\* Only task t moved, and it sent nothing that writes.
Moves(t, w, v) ==
  /\ Shape(v)
  /\ \A s \in Tasks \ {t} : v.tasks[s] = w.tasks[s]
  /\ \A i \in Slots :
       \/ Kept(w.requests[i], v.requests[i])
       \/ i \in Own(t) /\ v.requests[i].op \notin Writing

\* Stopping a request twice is stopping it once.
LEMMA StoppedTwice ==
  ASSUME NEW r, NEW q, NEW p, r # Nothing => IsRequest(r), Kept(r, q), Kept(q, p)
  PROVE  Kept(r, p)
  BY DEF Kept, Stopped, Live, Running, IsRequest, RequestFields, Outcomes

LEMMA StoppedShape ==
  ASSUME NEW r, NEW q, r # Nothing => IsRequest(r), Kept(r, q)
  PROVE  /\ q # Nothing => IsRequest(q)
         /\ q.op = r.op
  BY DEF Kept, Stopped, Live, Running, IsRequest, RequestFields, Outcomes

LEMMA CalmTwice ==
  ASSUME NEW u, NEW v, NEW w, Shape(u), Calm(u, v), Calm(v, w)
  PROVE  Calm(u, w)
  BY StoppedTwice DEF Calm, Shape

LEMMA CalmMoves ==
  ASSUME NEW t \in Tasks, NEW v, NEW w, Calm(v, w)
  PROVE  Moves(t, v, w)
  BY DEF Calm, Moves

LEMMA StillShaped ==
  ASSUME NEW t, NEW v, NEW w, Calm(v, w) \/ Moves(t, v, w)
  PROVE  Shape(w)
  BY DEF Calm, Moves

LEMMA MovesTwice ==
  ASSUME NEW t \in Tasks, NEW u, NEW v, NEW w, Shape(u), Moves(t, u, v), Moves(t, v, w)
  PROVE  Moves(t, u, w)
<1>1. ASSUME NEW i \in Slots
      PROVE  \/ Kept(u.requests[i], w.requests[i])
             \/ i \in Own(t) /\ w.requests[i].op \notin Writing
  <2>1. CASE i \in Own(t) /\ w.requests[i].op \notin Writing
    BY <2>1
  <2>2. CASE Kept(v.requests[i], w.requests[i]) /\ Kept(u.requests[i], v.requests[i])
    BY <2>2, StoppedTwice DEF Shape
  <2>3. CASE Kept(v.requests[i], w.requests[i]) /\ i \in Own(t) /\ v.requests[i].op \notin Writing
    BY <2>3, StoppedShape DEF Shape, Moves
  <2>4. QED
    BY <2>1, <2>2, <2>3 DEF Moves
<1>2. QED
  BY <1>1 DEF Moves

\* A call that has not reported yet, and the task of the same call later.
Open(t) == t.call \in Tools /\ t.report = "none"
SameCall(t, x) == x.call = t.call /\ x.report = t.report
USE DEF Open, SameCall

-----------------------------------------------------------------------------
(* What the operators on sessions do.                                      *)

LEMMA AbortCalm ==
  ASSUME NEW w, Shape(w), NEW O
  PROVE  Calm(w, Abort(w, O))
<1> DEFINE v == Abort(w, O)
<1>1. \A i \in Slots : Kept(w.requests[i], v.requests[i])
  BY DEF Abort, Shape, Kept
<1>2. v.tasks = w.tasks /\ DOMAIN v = DOMAIN w /\ DOMAIN v.requests = Slots
  BY DEF Abort, Shape
<1>3. \A i \in Slots : v.requests[i] # Nothing => IsRequest(v.requests[i])
  BY <1>1, StoppedShape DEF Shape
<1>4. QED
  BY <1>1, <1>2, <1>3 DEF Calm, Shape

\* Other parts of a world may be anything.
LEMMA OthersCalm ==
  ASSUME NEW w, Shape(w), NEW v, DOMAIN v = DOMAIN w,
         v.tasks = w.tasks, v.requests = w.requests
  PROVE  Calm(w, v)
  BY DEF Calm, Shape, Kept

LEMMA ClearCalm ==
  ASSUME NEW w, Shape(w), NEW s
  PROVE  Calm(w, Clear(w, s))
<1>1. CASE Held(w, s) = {}
  BY <1>1, OthersCalm DEF Clear
<1>2. CASE Held(w, s) # {}
  <2> DEFINE o == CHOOSE o \in Held(w, s) : TRUE
             v == Abort(w, {o})
  <2>1. Calm(w, v)
    BY AbortCalm
  <2> HIDE DEF v
  <2>2. Calm(v, Clear(w, s))
    BY <2>1, <1>2, OthersCalm DEF Calm, Shape, Clear, v
  <2>3. QED
    BY <2>1, <2>2, CalmTwice
<1>3. QED
  BY <1>1, <1>2

LEMMA StateForCalm ==
  ASSUME NEW w, Shape(w), NEW s
  PROVE  Calm(w, StateFor(w, s))
<1> DEFINE found == Held(w, s)
           o == IF found = {} THEN Unused(w) ELSE CHOOSE x \in found : TRUE
           moved == [w EXCEPT !.sessions = Append(RemoveFirst(@, o), o),
                              !.objects[o] = IF found = {} THEN NewObject(s) ELSE @]
<1>1. StateFor(w, s) = IF Len(moved.sessions) > MaxSessions
                       THEN Clear(moved, moved.objects[Head(moved.sessions)].session) ELSE moved
  BY DEF StateFor
<1>2. Calm(w, moved)
  <2> DEFINE list == Append(RemoveFirst(w.sessions, o), o)
             object == IF found = {} THEN NewObject(s) ELSE w.objects[o]
  <2>1. moved = [w EXCEPT !.sessions = list, !.objects[o] = object]
    OBVIOUS
  <2> HIDE DEF moved, list, object, o
  <2>2. moved.tasks = w.tasks /\ moved.requests = w.requests /\ DOMAIN moved = DOMAIN w
    BY <2>1 DEF Shape
  <2>3. QED
    BY <2>2, OthersCalm
<1> HIDE DEF moved
<1>3. Calm(moved, Clear(moved, moved.objects[Head(moved.sessions)].session))
  BY <1>2, ClearCalm DEF Calm
<1>4. QED
  BY <1>1, <1>2, <1>3, CalmTwice

LEMMA InvalidateCalm ==
  ASSUME NEW w, Shape(w), NEW o
  PROVE  Calm(w, Invalidate(w, o))
<1> DEFINE v == Abort(w, {o})
<1>1. Calm(w, v)
  BY AbortCalm
<1>2. Invalidate(w, o) = [v EXCEPT !.objects[o] = Renewal(@)]
  BY DEF Invalidate
<1> HIDE DEF v
<1>3. Calm(v, Invalidate(w, o))
  BY <1>1, <1>2, OthersCalm DEF Calm, Shape
<1>4. QED
  BY <1>1, <1>3, CalmTwice

\* A message or terms of an object, its directory or its targets.
LEMMA ObjectsCalm ==
  ASSUME NEW w, Shape(w), NEW x
  PROVE  Calm(w, [w EXCEPT !.objects = x])
  BY OthersCalm DEF Shape

LEMMA CaptureCalm ==
  ASSUME NEW w, Shape(w), NEW s, NEW n
  PROVE  Calm(w, Capture(w, s, n))
<1> DEFINE w1 == StateFor(w, s)
           o == Latest(w1)
           w2 == IF w1.objects[o].message # n THEN Invalidate(w1, o) ELSE w1
<1>1. Calm(w, w1)
  BY StateForCalm
<1>2. Calm(w1, w2)
  BY <1>1, InvalidateCalm, OthersCalm DEF Calm
<1>3. Capture(w, s, n) = [w2 EXCEPT !.objects[o].message = n, !.objects[o].terms = n]
  BY DEF Capture
<1> HIDE DEF w1, w2
<1>4. Calm(w2, Capture(w, s, n))
  BY <1>2, <1>3, OthersCalm DEF Calm, Shape
<1>5. QED
  BY <1>1, <1>2, <1>4, CalmTwice

LEMMA CaptureQuietCalm ==
  ASSUME NEW w, Shape(w), NEW s
  PROVE  Calm(w, CaptureQuiet(w, s))
<1> DEFINE w1 == StateFor(w, s)
           o == Latest(w1)
           w2 == Invalidate(w1, o)
<1>1. Calm(w, w1)
  BY StateForCalm
<1>2. Calm(w1, w2)
  BY <1>1, InvalidateCalm DEF Calm
<1>3. CaptureQuiet(w, s) = [w2 EXCEPT !.objects[o].message = Label]
  BY DEF CaptureQuiet
<1> HIDE DEF w1, w2
<1>4. Calm(w2, CaptureQuiet(w, s))
  BY <1>2, <1>3, OthersCalm DEF Calm, Shape
<1>5. QED
  BY <1>1, <1>2, <1>4, CalmTwice

LEMMA SeedCalm ==
  ASSUME NEW w, Shape(w), NEW o, NEW terms, NEW receipt
  PROVE  Calm(w, Seed(w, o, terms, receipt))
<1> DEFINE w1 == [w EXCEPT !.objects[o].terms = terms]
           cache == [key |-> Key(w1, o), slot |-> Nothing, receipt |-> receipt]
<1>1. Calm(w, w1)
  BY OthersCalm DEF Shape
<1>2. Seed(w, o, terms, receipt) = [w1 EXCEPT !.objects[o].cache = cache]
  BY DEF Seed
<1> HIDE DEF w1, cache
<1>3. Calm(w1, Seed(w, o, terms, receipt))
  BY <1>1, <1>2, OthersCalm DEF Calm, Shape
<1>4. QED
  BY <1>1, <1>3, CalmTwice

LEMMA SelectedCalm ==
  ASSUME NEW w, Shape(w), NEW t
  PROVE  Calm(w, Selected(w, t))
<1> DEFINE o == w.tasks[t].object
           targets == IF Answer(w, t).outcome = "ok" THEN Answer(w, t).targets ELSE w.objects[o].targets
           w1 == [w EXCEPT !.objects[o].resolving = Nothing]
           v == Selected(w, t)
<1>1. v.tasks = w.tasks /\ v.requests = w.requests /\ DOMAIN v = DOMAIN w
  BY DEF Selected, Shape
<1>2. QED
  BY <1>1, OthersCalm

-----------------------------------------------------------------------------
(* What the operators on tasks do.                                         *)

LEMMA EndMoves ==
  ASSUME NEW w, Shape(w), NEW t \in Tasks, NEW report
  PROVE  /\ Moves(t, w, End(w, t, report))
         /\ End(w, t, report).tasks[t].pc = "done"
         /\ End(w, t, report).tasks[t].report = report
  BY DEF End, Moves, Shape, Kept, Idle, TaskFields

LEMMA GotoMoves ==
  ASSUME NEW w, Shape(w), NEW t \in Tasks, NEW pc
  PROVE  /\ Moves(t, w, Goto(w, t, pc))
         /\ Goto(w, t, pc).tasks[t] = [w.tasks[t] EXCEPT !.pc = pc]
         /\ Goto(w, t, pc).requests = w.requests
  BY DEF Goto, Moves, Shape, Kept, TaskFields

LEMMA SendDoes ==
  ASSUME NEW w, Shape(w), NEW t \in Tasks, NEW op, NEW targets, NEW terms, NEW o, NEW c, NEW v,
         v = Send(w, t, op, targets, terms, o, c)
  PROVE  /\ Shape(v)
         /\ SlotOf(t, op) \in Slots /\ SlotOf(t, op) \in Own(t)
         /\ \A s \in Tasks \ {t} : v.tasks[s] = w.tasks[s]
         /\ v.tasks[t] = [w.tasks[t] EXCEPT !.slot = SlotOf(t, op)]
         /\ \A j \in Slots \ {SlotOf(t, op)} : v.requests[j] = w.requests[j]
         /\ \E g, aborted : v.requests[SlotOf(t, op)] = Request(op, targets, terms, o, g, c, aborted)
<1> DEFINE i == SlotOf(t, op)
           g == IF o = Nothing THEN 0 ELSE w.objects[o].generation
           r == Request(op, targets, terms, o, g, c, Aborted(w, o, g, c))
<1>1. i \in Slots /\ i \in Own(t)
  BY SlotsAssumption DEF SlotOf, Own
<1>2. IsRequest(r)
  BY DEF Request, IsRequest, RequestFields, Outcomes
<1>3. v = [w EXCEPT !.requests[i] = r, !.tasks[t].slot = i]
  BY DEF Send
<1>4. \E h, aborted : r = Request(op, targets, terms, o, h, c, aborted)
  OBVIOUS
<1> HIDE DEF i, r
<1>5. /\ \A s \in Tasks \ {t} : v.tasks[s] = w.tasks[s]
      /\ v.tasks[t] = [w.tasks[t] EXCEPT !.slot = i]
      /\ \A j \in Slots \ {i} : v.requests[j] = w.requests[j]
      /\ v.requests[i] = r
      /\ DOMAIN v = DOMAIN w /\ DOMAIN v.tasks = Tasks /\ DOMAIN v.requests = Slots
  BY <1>1, <1>3 DEF Shape
<1>6. Shape(v)
  BY <1>1, <1>2, <1>5 DEF Shape
<1>7. QED
  BY <1>1, <1>4, <1>5, <1>6 DEF i

LEMMA SendMoves ==
  ASSUME NEW w, Shape(w), NEW t \in Tasks, NEW op, NEW targets, NEW terms, NEW o, NEW c,
         op \notin Writing
  PROVE  /\ Moves(t, w, Send(w, t, op, targets, terms, o, c))
         /\ Send(w, t, op, targets, terms, o, c).tasks[t] = [w.tasks[t] EXCEPT !.slot = SlotOf(t, op)]
<1> DEFINE v == Send(w, t, op, targets, terms, o, c)
           i == SlotOf(t, op)
<1>0. v = Send(w, t, op, targets, terms, o, c) /\ i = SlotOf(t, op)
  OBVIOUS
<1> HIDE DEF v, i
<1>1. /\ Shape(v) /\ i \in Own(t)
      /\ \A s \in Tasks \ {t} : v.tasks[s] = w.tasks[s]
      /\ v.tasks[t] = [w.tasks[t] EXCEPT !.slot = i]
      /\ \A j \in Slots \ {i} : v.requests[j] = w.requests[j]
      /\ \E g, aborted : v.requests[i] = Request(op, targets, terms, o, g, c, aborted)
  BY <1>0, SendDoes
<1>2. v.requests[i].op = op
  BY <1>1 DEF Request
<1>3. Moves(t, w, v)
  BY <1>1, <1>2 DEF Moves, Kept
<1>4. QED
  BY <1>1, <1>3 DEF v, i

LEMMA TaskMoves ==
  ASSUME NEW w, Shape(w), NEW t \in Tasks, NEW v,
         DOMAIN v = DOMAIN w, v.requests = w.requests, DOMAIN v.tasks = Tasks,
         \A s \in Tasks \ {t} : v.tasks[s] = w.tasks[s],
         DOMAIN v.tasks[t] = TaskFields
  PROVE  Moves(t, w, v)
  BY DEF Moves, Shape, Kept

LEMMA SelectMoves ==
  ASSUME NEW w, Shape(w), NEW t \in Tasks, NEW c
  PROVE  /\ Moves(t, w, Select(w, t, c))
         /\ SameCall(w.tasks[t], Select(w, t, c).tasks[t])
<1> DEFINE o == w.tasks[t].object
           array == [repository |-> Home[w.objects[o].session], id |-> o]
           w1 == Send(w, t, "select", array, Undefined, o, c)
           v == Select(w, t, c)
<1>1. CASE w.objects[o].resolving # Nothing
  <2>1. v = [w EXCEPT !.tasks[t].slot = w.objects[o].resolving]
    BY <1>1 DEF Select
  <2> HIDE DEF v, o
  <2>2. /\ DOMAIN v = DOMAIN w /\ v.requests = w.requests /\ DOMAIN v.tasks = Tasks
        /\ \A s \in Tasks \ {t} : v.tasks[s] = w.tasks[s]
        /\ SameCall(w.tasks[t], v.tasks[t])
        /\ DOMAIN v.tasks[t] = TaskFields
    BY <2>1 DEF Shape, TaskFields
  <2>3. QED
    BY <2>2, TaskMoves DEF v
<1>2. CASE w.objects[o].resolving = Nothing
  <2>1. /\ Moves(t, w, w1)
        /\ SameCall(w.tasks[t], w1.tasks[t])
    <3>1. "select" \notin Writing
      BY DEF Writing
    <3>2. DOMAIN w.tasks[t] = TaskFields
      BY DEF Shape
    <3> HIDE DEF array, o
    <3>3. /\ Moves(t, w, w1)
          /\ w1.tasks[t] = [w.tasks[t] EXCEPT !.slot = SlotOf(t, "select")]
      BY <3>1, SendMoves
    <3> HIDE DEF w1
    <3>4. QED
      BY <3>2, <3>3 DEF TaskFields
  <2>2. v = [w1 EXCEPT !.objects[o].resolving = w1.tasks[t].slot]
    BY <1>2 DEF Select
  <2> HIDE DEF v, w1, o
  <2>3. v.tasks = w1.tasks /\ v.requests = w1.requests /\ DOMAIN v = DOMAIN w1
    BY <2>1, <2>2 DEF Moves, Shape
  <2>4. Calm(w1, v)
    BY <2>1, <2>3, OthersCalm DEF Moves
  <2>5. Moves(t, w, v)
    BY <2>1, <2>4, CalmMoves, MovesTwice
  <2>6. QED
    BY <2>1, <2>3, <2>5 DEF v
<1>3. QED
  BY <1>1, <1>2

-----------------------------------------------------------------------------
(* What the hooks do.                                                      *)

\* Only what waits for a request has one to wait for.
Waits(t) ==
  t.pc \in {"idle", "locating", "asking", "relocating", "recording", "done"} => t.slot = Nothing

Hooked(t) ==
  /\ t.pc \in {"idle", "locating", "selecting", "recalling", "recording", "done"}
  /\ Waits(t)

LEMMA EndHooked ==
  ASSUME NEW w, Shape(w), NEW x \in Tasks, NEW report
  PROVE  Moves(x, w, End(w, x, report)) /\ Hooked(End(w, x, report).tasks[x])
<1>1. Moves(x, w, End(w, x, report))
  BY EndMoves
<1>2. Hooked(End(w, x, report).tasks[x])
  BY DEF End, Shape, Idle, Hooked, Waits
<1>3. QED
  BY <1>1, <1>2

LEMMA GotoHooked ==
  ASSUME NEW w, Shape(w), NEW x \in Tasks, NEW pc,
         \/ pc \in {"selecting", "recalling"}
         \/ pc = "recording" /\ w.tasks[x].slot = Nothing
  PROVE  Moves(x, w, Goto(w, x, pc)) /\ Hooked(Goto(w, x, pc).tasks[x])
<1>1. Moves(x, w, Goto(w, x, pc)) /\ Goto(w, x, pc).tasks[x] = [w.tasks[x] EXCEPT !.pc = pc]
  BY GotoMoves
<1>2. DOMAIN w.tasks[x] = TaskFields
  BY DEF Shape
<1>3. Hooked([w.tasks[x] EXCEPT !.pc = pc])
  BY <1>2 DEF Hooked, Waits, TaskFields
<1>4. QED
  BY <1>1, <1>3

LEMMA InjectMoves ==
  ASSUME NEW w, Shape(w), NEW x \in Tasks, NEW receipt
  PROVE  Moves(x, w, Inject(w, x, receipt)) /\ Hooked(Inject(w, x, receipt).tasks[x])
<1> DEFINE w1 == [w EXCEPT !.tasks[x].receipt = receipt]
           w2 == [w1 EXCEPT !.tasks[x].slot = Nothing]
<1>1. Moves(x, w, End(w, x, "silent")) /\ Hooked(End(w, x, "silent").tasks[x])
  BY EndHooked
<1>2. Moves(x, w, w1)
  BY TaskMoves DEF Shape, TaskFields
<1>3. Moves(x, w1, w2)
  <2> HIDE DEF w1
  <2>1. QED
    BY <1>2, TaskMoves DEF Moves, Shape, TaskFields
<1>4. Inject(w, x, receipt) \in {End(w, x, "silent"), Goto(w2, x, "recording")}
  BY DEF Inject
<1> HIDE DEF w1, w2
<1>5. w2.tasks[x].slot = Nothing
  BY <1>2, <1>3 DEF w2, Moves, Shape, TaskFields
<1>6. /\ Moves(x, w2, Goto(w2, x, "recording"))
      /\ Hooked(Goto(w2, x, "recording").tasks[x])
  BY <1>3, <1>5, StillShaped, GotoHooked
<1>7. QED
  BY <1>1, <1>2, <1>3, <1>4, <1>6, StillShaped, MovesTwice

LEMMA InjectedMoves ==
  ASSUME NEW w, Shape(w), NEW x \in Tasks
  PROVE  Moves(x, w, Injected(w, x)) /\ Hooked(Injected(w, x).tasks[x])
  BY EndHooked DEF Injected

LEMMA FailedMoves ==
  ASSUME NEW w, Shape(w), NEW x \in Tasks
  PROVE  Moves(x, w, Failed(w, x)) /\ Hooked(Failed(w, x).tasks[x])
<1> DEFINE t == w.tasks[x]
           v == [w EXCEPT !.objects[t.object].message = t.message]
<1>1. Calm(w, v)
  BY OthersCalm DEF Shape
<1>2. Failed(w, x) \in {End(w, x, "silent"), End(v, x, "part")}
  BY DEF Failed
<1> HIDE DEF v
<1>3. QED
  BY <1>1, <1>2, EndHooked, CalmMoves, StillShaped, MovesTwice

LEMMA AutomaticMoves ==
  ASSUME NEW w, Shape(w), NEW x \in Tasks
  PROVE  Moves(x, w, Automatic(w, x)) /\ Hooked(Automatic(w, x).tasks[x])
<1> DEFINE o == w.tasks[x].object
           key == Key(w, o)
           cache == w.objects[o].cache
           sent == IF key.terms = Undefined THEN w
                   ELSE Send(w, x, "recall", w.objects[o].targets, key.terms, o, Nothing)
           slot == IF key.terms = Undefined THEN Nothing ELSE sent.tasks[x].slot
           cacheHit == cache # Nothing /\ cache.key = key
           entry == IF cacheHit THEN cache ELSE [key |-> key, slot |-> slot, receipt |-> Nothing]
           w1 == IF cacheHit THEN w ELSE [sent EXCEPT !.objects[o].cache = entry]
           w2 == [w1 EXCEPT !.tasks[x].slot = entry.slot]
<1>1. Moves(x, w, w)
  BY DEF Moves, Kept
<1>2. Moves(x, w, sent)
  <2> HIDE DEF key, o
  <2>1. QED
    BY <1>1, SendMoves DEF Writing
<1>3. Moves(x, w, w1)
  <2> HIDE DEF sent, entry, o
  <2> DEFINE u == [sent EXCEPT !.objects[o].cache = entry]
  <2>1. Calm(sent, u)
    BY <1>2, OthersCalm DEF Moves, Shape
  <2> HIDE DEF u
  <2>2. Moves(x, w, u)
    BY <1>2, <2>1, CalmMoves, MovesTwice
  <2>3. QED
    BY <1>1, <2>2 DEF u
<1>4. Automatic(w, x) = IF entry.slot = Nothing THEN Inject(w1, x, entry.receipt)
                        ELSE Goto(w2, x, "recalling")
  BY DEF Automatic
<1> HIDE DEF w1, entry
<1>5. Moves(x, w1, w2)
  BY <1>3, TaskMoves DEF Moves, Shape, TaskFields
<1> HIDE DEF w2
<1>6. /\ Moves(x, w2, Goto(w2, x, "recalling"))
      /\ Hooked(Goto(w2, x, "recalling").tasks[x])
  BY <1>5, StillShaped, GotoHooked
<1>7. /\ Moves(x, w1, Inject(w1, x, entry.receipt))
      /\ Hooked(Inject(w1, x, entry.receipt).tasks[x])
  BY <1>3, StillShaped, InjectMoves
<1>8. QED
  BY <1>3, <1>4, <1>5, <1>6, <1>7, StillShaped, MovesTwice

LEMMA RecalledMoves ==
  ASSUME NEW w, Shape(w), NEW x \in Tasks
  PROVE  Moves(x, w, Recalled(w, x)) /\ Hooked(Recalled(w, x).tasks[x])
  BY InjectMoves DEF Recalled

LEMMA LocatedMoves ==
  ASSUME NEW w, Shape(w), NEW x \in Tasks
  PROVE  Moves(x, w, Located(w, x)) /\ Hooked(Located(w, x).tasks[x])
<1> DEFINE t == w.tasks[x]
           o == t.object
           w1 == IF w.objects[o].message # t.message THEN Capture(w, t.session, t.message) ELSE w
           w2 == [w1 EXCEPT !.tasks[x].generation = w1.objects[o].generation]
           w3 == Select(w2, x, Nothing)
<1>1. Calm(w, w1)
  BY CaptureCalm, OthersCalm
<1>2. Located(w, x) = IF ~automatic /\ w1.objects[o].cache = Nothing THEN End(w1, x, "off")
                      ELSE IF w2.objects[o].targets = NoTargets THEN Goto(w3, x, "selecting")
                      ELSE Automatic(w2, x)
  BY DEF Located
<1> HIDE DEF w1, o
<1>0. Moves(x, w, End(w1, x, "off")) /\ Hooked(End(w1, x, "off").tasks[x])
  <2>1. Moves(x, w1, End(w1, x, "off")) /\ Hooked(End(w1, x, "off").tasks[x])
    BY <1>1, EndHooked DEF Calm
  <2>2. QED
    BY <1>1, <2>1, CalmMoves, MovesTwice
<1>3. Moves(x, w1, w2)
  BY <1>1, TaskMoves DEF Calm, Shape, TaskFields
<1> HIDE DEF w2
<1>4. Moves(x, w2, w3)
  BY <1>3, SelectMoves, StillShaped
<1> HIDE DEF w3
<1>5. /\ Moves(x, w3, Goto(w3, x, "selecting"))
      /\ Hooked(Goto(w3, x, "selecting").tasks[x])
  BY <1>4, StillShaped, GotoHooked
<1>6. Moves(x, w2, Automatic(w2, x)) /\ Hooked(Automatic(w2, x).tasks[x])
  BY <1>3, StillShaped, AutomaticMoves
<1>7. Moves(x, w, w2)
  BY <1>1, <1>3, CalmMoves, MovesTwice
<1>8. QED
  BY <1>0, <1>2, <1>4, <1>5, <1>6, <1>7, StillShaped, MovesTwice

LEMMA TransformMoves ==
  ASSUME NEW w, Shape(w), NEW x \in Tasks, NEW s, NEW n
  PROVE  Moves(x, w, Transform(w, x, s, n)) /\ Hooked(Transform(w, x, s, n).tasks[x])
<1> DEFINE w1 == StateFor(w, s)
           task == [Idle EXCEPT !.pc = "locating", !.session = s, !.message = n, !.object = Latest(w1)]
           w2 == [w1 EXCEPT !.tasks[x] = task]
<1>1. Calm(w, w1)
  BY StateForCalm
<1>2. DOMAIN task = TaskFields /\ Hooked(task)
  BY DEF Idle, TaskFields, Hooked, Waits
<1>3. Transform(w, x, s, n) \in {Located(w2, x), w2}
  BY DEF Transform
<1> HIDE DEF w1, task
<1>4. Moves(x, w1, w2) /\ Hooked(w2.tasks[x])
  BY <1>1, <1>2, TaskMoves DEF Calm, Shape
<1> HIDE DEF w2
<1>5. Moves(x, w, w2)
  BY <1>1, <1>4, CalmMoves, MovesTwice
<1>6. QED
  <2>1. Moves(x, w2, Located(w2, x)) /\ Hooked(Located(w2, x).tasks[x])
    BY <1>5, LocatedMoves, StillShaped
  <2>2. QED
    BY <1>3, <1>4, <1>5, <2>1, MovesTwice

LEMMA UnlocatedMoves ==
  ASSUME NEW w, Shape(w), NEW x \in Tasks
  PROVE  Moves(x, w, Unlocated(w, x)) /\ Hooked(Unlocated(w, x).tasks[x])
<1> DEFINE t == w.tasks[x]
           w1 == StateFor(w, t.session)
           w2 == [w1 EXCEPT !.objects[Latest(w1)].message = t.message]
<1>1. Calm(w, w1)
  BY StateForCalm
<1>2. Unlocated(w, x) \in {End(w, x, "silent"), End(w2, x, "part")}
  BY DEF Unlocated
<1> HIDE DEF w1
<1>3. Calm(w1, w2)
  BY <1>1, OthersCalm DEF Calm, Shape
<1> HIDE DEF w2
<1>4. Calm(w, w2)
  BY <1>1, <1>3, CalmTwice
<1>5. QED
  BY <1>2, <1>4, EndHooked, CalmMoves, StillShaped, MovesTwice

LEMMA TransformingMoves ==
  ASSUME NEW w, Shape(w), NEW x \in Tasks, w.tasks[x].pc \in {"selecting", "recalling"}
  PROVE  Moves(x, w, Transforming(w, x)) /\ Hooked(Transforming(w, x).tasks[x])
<1>1. Moves(x, w, Selected(w, x)) /\ Shape(Selected(w, x))
  BY SelectedCalm, CalmMoves DEF Calm
<1>2. Transforming(w, x) \in {Automatic(Selected(w, x), x), Failed(Selected(w, x), x), Recalled(w, x)}
  BY DEF Transforming
<1>3. QED
  BY <1>1, <1>2, AutomaticMoves, FailedMoves, RecalledMoves, MovesTwice

-----------------------------------------------------------------------------
(* Where a call stands.                                                    *)

\* The request of a call c that writes, when what c committed so far is wr
\* and the user granted g.
WriteStands(r, c, wr, g) ==
  /\ r.op \in Writing /\ r.call = c /\ r.targets.repository = g
  /\ wr = IF r.committed THEN <<g>> ELSE <<>>
  /\ r.phase \in {"handshake", "command", "settled"}
  /\ r.phase = "handshake" => ~r.committed
  /\ r.outcome \in {"not_started", "rejected"} => ~r.committed /\ r.phase # "command"
  /\ r.phase = "settled" /\ r.outcome = "ok" => r.committed

Writers == {"writing", "applying"}
Unwritten == {"idle", "locating", "resolving", "selecting", "asking", "relocating", "searching"}
Pcs == Unwritten \cup Writers \cup {"reading", "checking", "looking", "done"}

\* What the state of a task t says of the call's write.
Says(t, wr, g) ==
  /\ t.pc \in Pcs /\ Waits(t)
  /\ t.pc \notin {"idle", "done"} => t.call \in Tools
  /\ t.pc # "done" => t.report = "none"
  /\ t.pc \in Unwritten => wr = <<>>
  /\ t.pc = "relocating" => g = t.targets.repository
  /\ t.pc \in {"reading", "checking"} => wr = <<g>>
  /\ t.pc = "looking" => wr \in {<<>>, <<g>>}
  /\ t.pc = "done" =>
       /\ wr \in {<<>>, <<g>>}
       /\ t.report \in {"not_started", "denied", "rejected"} => wr = <<>>
       /\ t.report \in {"inserted", "committed"} => wr = <<g>>

Stands(w, c, wr, g) ==
  /\ Says(w.tasks[c], wr, g)
  /\ w.tasks[c].pc \in Writers =>
       w.tasks[c].slot = <<c, "own">> /\ WriteStands(w.requests[<<c, "own">>], c, wr, g)

\* Whatever may still commit belongs to a call that waits for it.
WritersWait(w) ==
  \A i \in Slots :
    w.requests[i] # Nothing /\ w.requests[i].op \in Writing =>
      \/ w.requests[i].phase = "settled"
      \/ \E c \in Calls : i = <<c, "own">> /\ w.tasks[c].pc \in Writers

WorldInv(w, wrs, gs) ==
  /\ Shape(w)
  /\ \A x \in Transforms : Hooked(w.tasks[x])
  /\ \A c \in Calls : Stands(w, c, wrs[c], gs[c])
  /\ WritersWait(w)

\* Call c sends what it is to write.
Sends(c, w, v) ==
  /\ Shape(v)
  /\ \A s \in Tasks \ {c} : v.tasks[s] = w.tasks[s]
  /\ v.tasks[c].pc \in Writers
  /\ \A i \in Slots \ {<<c, "own">>} :
       \/ Kept(w.requests[i], v.requests[i])
       \/ i \in Own(c) /\ v.requests[i].op \notin Writing

\* A step of call c that has not written before leaves it standing.
Placed(c, w, v, g) == (Moves(c, w, v) \/ Sends(c, w, v)) /\ Stands(v, c, <<>>, g)

LEMMA WriteKept ==
  ASSUME NEW r, NEW q, NEW c, NEW wr, NEW g, r # Nothing => IsRequest(r),
         Kept(r, q), WriteStands(r, c, wr, g)
  PROVE  WriteStands(q, c, wr, g)
<1>1. CASE q = r
  BY <1>1
<1>2. CASE q # r
  <2>1. /\ r # Nothing /\ Live(r) /\ q = Stopped(r)
        /\ q = [r EXCEPT !.outcome = IF r.phase = "command" THEN "outcome_unknown" ELSE "not_started"]
    BY <1>2 DEF Kept, Stopped, Live, Running
  <2>2. /\ q.op = r.op /\ q.call = r.call /\ q.targets = r.targets
        /\ q.committed = r.committed /\ q.phase = r.phase
        /\ q.outcome = IF r.phase = "command" THEN "outcome_unknown" ELSE "not_started"
        /\ r.outcome = "ok" /\ r.phase # "settled"
    BY <2>1 DEF IsRequest, RequestFields, Live, Running
  <2>3. r.phase # "command" => ~r.committed
    BY <2>2 DEF WriteStands
  <2>4. QED
    BY <2>2, <2>3 DEF WriteStands
<1>3. QED
  BY <1>1, <1>2

\* A step of one task keeps the invariant if the task keeps its part of it
\* and does not leave a write alone.
LEMMA StepKeeps ==
  ASSUME NEW w, NEW v, NEW wrs, NEW gs, NEW hs, WorldInv(w, wrs, gs), NEW t \in Tasks,
         Moves(t, w, v) \/ (t \in Calls /\ Sends(t, w, v)),
         \A c \in Calls \ {t} : hs[c] = gs[c],
         t \in Transforms => Hooked(v.tasks[t]),
         t \in Calls => Stands(v, t, wrs[t], hs[t]),
         \/ w.tasks[t].pc \notin Writers
         \/ v.tasks[t].pc \in Writers
         \/ Settled(w.requests[<<t, "own">>])
  PROVE  WorldInv(v, wrs, hs)
<1>1. Shape(w) /\ Shape(v) /\ \A s \in Tasks \ {t} : v.tasks[s] = w.tasks[s]
  BY DEF WorldInv, Moves, Sends
<1>2. \A x \in Transforms : Hooked(v.tasks[x])
  BY <1>1 DEF WorldInv, Tasks
<1>3. ASSUME NEW c \in Calls, c # t
      PROVE  Stands(v, c, wrs[c], hs[c])
  <2> DEFINE i == <<c, "own">>
  <2>1. i \in Slots /\ i \notin Own(t)
    BY <1>3, SlotsAssumption DEF Own, Tasks
  <2> HIDE DEF i
  <2>2. Kept(w.requests[i], v.requests[i])
    <3>1. CASE Moves(t, w, v)
      BY <2>1, <3>1 DEF Moves
    <3>2. CASE Sends(t, w, v)
      <4>1. i # <<t, "own">>
        BY <2>1 DEF Own
      <4>2. QED
        BY <2>1, <3>2, <4>1 DEF Sends
    <3>3. QED
      BY <3>1, <3>2
  <2>3. v.tasks[c] = w.tasks[c] /\ Stands(w, c, wrs[c], hs[c])
    BY <1>1, <1>3 DEF WorldInv, Tasks
  <2>4. w.requests[i] # Nothing => IsRequest(w.requests[i])
    BY <1>1, <2>1 DEF Shape
  <2>5. QED
    BY <2>2, <2>3, <2>4, WriteKept DEF Stands, i
<1>4. ASSUME NEW i \in Slots, v.requests[i] # Nothing, v.requests[i].op \in Writing,
             v.requests[i].phase # "settled"
      PROVE  \E c \in Calls : i = <<c, "own">> /\ v.tasks[c].pc \in Writers
  <2>1. CASE Kept(w.requests[i], v.requests[i])
    <3>1. /\ w.requests[i] # Nothing /\ w.requests[i].op \in Writing
          /\ w.requests[i].phase # "settled"
      BY <1>1, <1>4, <2>1 DEF Kept, Stopped, Live, Running, Shape, IsRequest, RequestFields
    <3>2. PICK c \in Calls : i = <<c, "own">> /\ w.tasks[c].pc \in Writers
      BY <1>4, <3>1 DEF WorldInv, WritersWait
    <3>3. v.tasks[c].pc \in Writers
      BY <1>1, <3>1, <3>2 DEF Tasks, Settled
    <3>4. QED
      BY <3>2, <3>3
  <2>2. CASE ~Kept(w.requests[i], v.requests[i])
    BY <1>4, <2>2 DEF Moves, Sends
  <2>3. QED
    BY <2>1, <2>2
<1>5. \A c \in Calls : Stands(v, c, wrs[c], hs[c])
  BY <1>3
<1>6. QED
  BY <1>1, <1>2, <1>4, <1>5 DEF WorldInv, WritersWait

LEMMA CalmKeeps ==
  ASSUME NEW w, NEW v, NEW wrs, NEW gs, WorldInv(w, wrs, gs), Calm(w, v)
  PROVE  WorldInv(v, wrs, gs)
<1>1. Shape(w) /\ Shape(v) /\ v.tasks = w.tasks
  BY DEF WorldInv, Calm
<1>2. ASSUME NEW c \in Calls
      PROVE  Stands(v, c, wrs[c], gs[c])
  <2> DEFINE i == <<c, "own">>
  <2>1. i \in Slots
    BY SlotsAssumption DEF Tasks
  <2> HIDE DEF i
  <2>2. /\ Kept(w.requests[i], v.requests[i])
        /\ w.requests[i] # Nothing => IsRequest(w.requests[i])
    BY <1>1, <2>1 DEF Calm, Shape
  <2>3. Stands(w, c, wrs[c], gs[c])
    BY DEF WorldInv
  <2>4. QED
    BY <1>1, <2>2, <2>3, WriteKept DEF Stands, i
<1>3. ASSUME NEW i \in Slots, v.requests[i] # Nothing
      PROVE  /\ w.requests[i] # Nothing /\ v.requests[i].op = w.requests[i].op
             /\ v.requests[i].phase = w.requests[i].phase
  BY <1>1, <1>3 DEF Calm, Kept, Stopped, Live, Running, Shape, IsRequest, RequestFields
<1>4. WritersWait(v)
  BY <1>1, <1>3 DEF WorldInv, WritersWait
<1>5. QED
  BY <1>1, <1>2, <1>4 DEF WorldInv

-----------------------------------------------------------------------------
(* What the calls do.                                                      *)

LEMMA MovesSends ==
  ASSUME NEW c \in Tasks, NEW u, NEW v, NEW w, Shape(u), Moves(c, u, v), Sends(c, v, w)
  PROVE  Sends(c, u, w)
<1>1. ASSUME NEW i \in Slots, i # <<c, "own">>
      PROVE  \/ Kept(u.requests[i], w.requests[i])
             \/ i \in Own(c) /\ w.requests[i].op \notin Writing
  <2>1. CASE i \in Own(c) /\ w.requests[i].op \notin Writing
    BY <2>1
  <2>2. CASE Kept(v.requests[i], w.requests[i]) /\ Kept(u.requests[i], v.requests[i])
    BY <2>2, StoppedTwice DEF Shape
  <2>3. CASE Kept(v.requests[i], w.requests[i]) /\ i \in Own(c) /\ v.requests[i].op \notin Writing
    BY <2>3, StoppedShape DEF Shape, Moves
  <2>4. QED
    BY <1>1, <2>1, <2>2, <2>3 DEF Moves, Sends
<1>2. QED
  BY <1>1 DEF Moves, Sends

\* A write begins with nothing written.
LEMMA WriteBegins ==
  ASSUME NEW w, Shape(w), NEW c \in Calls, Open(w.tasks[c]),
         NEW op \in Writing, NEW pc \in Writers, NEW targets, NEW terms, NEW o
  PROVE  /\ Sends(c, w, Goto(Send(w, c, op, targets, terms, o, c), c, pc))
         /\ Stands(Goto(Send(w, c, op, targets, terms, o, c), c, pc), c, <<>>, targets.repository)
<1> DEFINE v == Send(w, c, op, targets, terms, o, c)
           u == Goto(v, c, pc)
           i == <<c, "own">>
<1>0. c \in Tasks /\ SlotOf(c, op) = i
  BY DEF Tasks, SlotOf, Writing
<1> HIDE DEF v, i
<1>1. /\ Shape(v) /\ i \in Slots
      /\ \A s \in Tasks \ {c} : v.tasks[s] = w.tasks[s]
      /\ v.tasks[c] = [w.tasks[c] EXCEPT !.slot = i]
      /\ \A j \in Slots \ {i} : v.requests[j] = w.requests[j]
      /\ \E g, aborted : v.requests[i] = Request(op, targets, terms, o, g, c, aborted)
  BY <1>0, SendDoes DEF v
<1> HIDE DEF u
<1>2. /\ Moves(c, v, u) /\ u.tasks[c] = [v.tasks[c] EXCEPT !.pc = pc]
      /\ u.requests = v.requests
  <2>1. c \in Tasks /\ Shape(v) /\ u = Goto(v, c, pc)
    BY <1>0, <1>1 DEF u
  <2>2. QED
    BY <2>1, GotoMoves
<1>3. DOMAIN w.tasks[c] = TaskFields
  BY <1>0 DEF Shape
<1>4. u.tasks[c].pc = pc /\ u.tasks[c].slot = i /\ SameCall(w.tasks[c], u.tasks[c])
  BY <1>1, <1>2, <1>3 DEF TaskFields
<1>5. Sends(c, w, u)
  BY <1>0, <1>1, <1>2, <1>4 DEF Sends, Moves, Kept, i
<1>6. WriteStands(u.requests[i], c, <<>>, targets.repository)
  BY <1>1, <1>2 DEF WriteStands, Request, Writing
<1>7. Says(u.tasks[c], <<>>, targets.repository)
  BY <1>4 DEF Says, Waits, Writers, Pcs, Unwritten
<1>8. QED
  BY <1>4, <1>5, <1>6, <1>7 DEF Stands, u, v, i

LEMMA ThenPlaced ==
  ASSUME NEW c \in Calls, NEW u, NEW v, NEW w, NEW g, Shape(u),
         Calm(u, v) \/ Moves(c, u, v), Placed(c, v, w, g)
  PROVE  Placed(c, u, w, g)
  BY CalmMoves, MovesTwice, MovesSends DEF Placed, Tasks

LEMMA EndPlaced ==
  ASSUME NEW w, Shape(w), NEW c \in Calls, NEW report, NEW g,
         report \notin {"inserted", "committed"}
  PROVE  Placed(c, w, End(w, c, report), g)
<1> DEFINE v == End(w, c, report)
<1>1. Moves(c, w, v) /\ v.tasks[c].pc = "done" /\ v.tasks[c].report = report
  BY EndMoves DEF Tasks
<1>2. v.tasks[c].slot = Nothing
  BY DEF End, Shape, Idle, Tasks
<1> HIDE DEF v
<1>3. Stands(v, c, <<>>, g)
  BY <1>1, <1>2 DEF Stands, Says, Waits, Pcs, Unwritten, Writers
<1>4. QED
  BY <1>1, <1>3 DEF Placed, v

LEMMA GotoPlaced ==
  ASSUME NEW w, Shape(w), NEW c \in Calls, NEW pc \in Unwritten \ {"idle"}, NEW g,
         Open(w.tasks[c]),
         pc \in {"locating", "asking", "relocating"} => w.tasks[c].slot = Nothing,
         pc = "relocating" => g = w.tasks[c].targets.repository
  PROVE  Placed(c, w, Goto(w, c, pc), g)
<1> DEFINE v == Goto(w, c, pc)
<1>1. Moves(c, w, v) /\ v.tasks[c] = [w.tasks[c] EXCEPT !.pc = pc]
  BY GotoMoves DEF Tasks
<1>2. DOMAIN w.tasks[c] = TaskFields
  BY DEF Shape, Tasks
<1> HIDE DEF v
<1>3. /\ v.tasks[c].pc = pc /\ v.tasks[c].slot = w.tasks[c].slot
      /\ SameCall(w.tasks[c], v.tasks[c]) /\ v.tasks[c].targets = w.tasks[c].targets
  BY <1>1, <1>2 DEF TaskFields
<1>4. Stands(v, c, <<>>, g)
  BY <1>3 DEF Stands, Says, Waits, Pcs, Unwritten, Writers
<1>5. QED
  BY <1>1, <1>4 DEF Placed, v

LEMMA WorkPlaced ==
  ASSUME NEW w, Shape(w), NEW c \in Calls, Open(w.tasks[c]), NEW g,
         w.tasks[c].call.op = "remember" => g = w.tasks[c].targets.repository
  PROVE  Placed(c, w, Work(w, c), g)
<1> DEFINE t == w.tasks[c]
           w1 == [w EXCEPT !.tasks[c].generation = w.objects[t.object].generation,
                           !.tasks[c].terms = Terms(w, c)]
           w2 == Send(w1, c, "recall", t.targets, Terms(w, c), t.object, c)
           w3 == Goto(Send(w1, c, "remember", t.targets, Undefined, t.object, c), c, "writing")
<1>1. c \in Tasks
  BY DEF Tasks
<1>2. w1.tasks[c] = [w.tasks[c] EXCEPT !.generation = w.objects[t.object].generation,
                                       !.terms = Terms(w, c)]
  BY <1>1 DEF Shape
<1>3. DOMAIN w.tasks[c] = TaskFields
  BY <1>1 DEF Shape
<1>4. DOMAIN w1.tasks[c] = TaskFields /\ SameCall(w.tasks[c], w1.tasks[c])
  <2> HIDE DEF w1
  <2>1. QED
    BY <1>2, <1>3 DEF TaskFields
<1>5. Moves(c, w, w1)
  BY <1>1, <1>4, TaskMoves DEF Shape
<1>6. Work(w, c) = IF t.call.op = "remember" THEN w3 ELSE Goto(w2, c, "searching")
  BY DEF Work, CallOf
<1> HIDE DEF w1, w2, w3
<1>7. ASSUME t.call.op = "remember"
      PROVE  Placed(c, w1, w3, g)
  <2> "remember" \in Writing /\ "writing" \in Writers
    BY DEF Writing, Writers
  <2>1. Sends(c, w1, w3) /\ Stands(w3, c, <<>>, t.targets.repository)
    BY <1>4, <1>5, WriteBegins, StillShaped DEF w3
  <2>2. QED
    BY <1>7, <2>1 DEF Placed
<1>8. Moves(c, w1, w2) /\ w2.tasks[c] = [w1.tasks[c] EXCEPT !.slot = SlotOf(c, "recall")]
  <2> "recall" \notin Writing
    BY DEF Writing
  <2>1. QED
    BY <1>1, <1>5, StillShaped, SendMoves DEF w2
<1>9. Open(w2.tasks[c])
  BY <1>4, <1>8 DEF TaskFields
<1>10. Placed(c, w2, Goto(w2, c, "searching"), g)
  BY <1>8, <1>9, StillShaped, GotoPlaced DEF Unwritten
<1>11. QED
  BY <1>5, <1>6, <1>7, <1>8, <1>10, ThenPlaced, StillShaped

\* One field of a call's task changes, and perhaps what no task or request is.
LEMMA FieldMoves ==
  ASSUME NEW w, Shape(w), NEW c \in Calls, NEW v, DOMAIN v = DOMAIN w, v.requests = w.requests,
         NEW f \in TaskFields, NEW e, v.tasks = [w.tasks EXCEPT ![c] = [@ EXCEPT ![f] = e]]
  PROVE  /\ Moves(c, w, v)
         /\ v.tasks[c][f] = e
         /\ \A g \in TaskFields \ {f} : v.tasks[c][g] = w.tasks[c][g]
<1>1. c \in Tasks /\ DOMAIN w.tasks = Tasks /\ DOMAIN w.tasks[c] = TaskFields
  BY DEF Tasks, Shape
<1>2. /\ DOMAIN v.tasks = Tasks /\ v.tasks[c] = [w.tasks[c] EXCEPT ![f] = e]
      /\ \A s \in Tasks \ {c} : v.tasks[s] = w.tasks[s]
  BY <1>1
<1>3. DOMAIN v.tasks[c] = TaskFields
  BY <1>1, <1>2
<1>4. QED
  BY <1>1, <1>2, <1>3, TaskMoves

LEMMA TargetedPlaced ==
  ASSUME NEW w, Shape(w), NEW c \in Calls, Open(w.tasks[c]), NEW targets, NEW g
  PROVE  Placed(c, w, Targeted(w, c, targets), g)
<1> DEFINE t == w.tasks[c]
           w1 == [w EXCEPT !.tasks[c].targets = targets]
           approval == [object |-> t.object, generation |-> t.generation, call |-> c]
           noted == [w1 EXCEPT !.approvals[targets.id] = approval]
           asked1 == [noted EXCEPT !.tasks[c].slot = Nothing]
           worked == IF t.call.op = "scope" THEN noted ELSE w1
<1>1. Moves(c, w, w1) /\ SameCall(t, w1.tasks[c])
  <2>1. /\ w1.tasks = [w.tasks EXCEPT ![c] = [@ EXCEPT !["targets"] = targets]]
        /\ DOMAIN w1 = DOMAIN w /\ w1.requests = w.requests
    BY DEF Shape
  <2> HIDE DEF w1
  <2>2. QED
    BY <2>1, FieldMoves DEF TaskFields
<1>2. Targeted(w, c, targets) =
        IF SignalAborted(w, c) THEN End(w, c, "not_started")
        ELSE IF ~t.call.command THEN Goto(asked1, c, "asking")
        ELSE Work(worked, c)
  BY DEF Targeted, Invalid, Refuse, CallOf
<1> HIDE DEF w1, approval
<1>3. Calm(w1, noted) /\ noted.tasks = w1.tasks
  BY <1>1, OthersCalm, StillShaped DEF Shape
<1> HIDE DEF noted
<1>4. Moves(c, noted, asked1) /\ asked1.tasks[c].slot = Nothing
      /\ SameCall(t, asked1.tasks[c])
  <2>1. Shape(noted)
    BY <1>3, StillShaped
  <2>2. /\ asked1.tasks = [noted.tasks EXCEPT ![c] = [@ EXCEPT !["slot"] = Nothing]]
        /\ DOMAIN asked1 = DOMAIN noted /\ asked1.requests = noted.requests
    BY <2>1 DEF Shape
  <2> HIDE DEF asked1
  <2>3. SameCall(t, noted.tasks[c])
    BY <1>1, <1>3
  <2>4. /\ Moves(c, noted, asked1) /\ asked1.tasks[c]["slot"] = Nothing
        /\ \A f \in TaskFields \ {"slot"} : asked1.tasks[c][f] = noted.tasks[c][f]
    <3>1. "slot" \in TaskFields
      BY DEF TaskFields
    <3>2. QED
      BY <2>1, <2>2, <3>1, FieldMoves
  <2>5. QED
    BY <2>3, <2>4 DEF TaskFields
<1> HIDE DEF asked1
<1>5. Placed(c, asked1, Goto(asked1, c, "asking"), g)
  BY <1>4, StillShaped, GotoPlaced DEF Unwritten
<1>6. Placed(c, w, Goto(asked1, c, "asking"), g)
  BY <1>1, <1>3, <1>4, <1>5, StillShaped, ThenPlaced
<1>7. ASSUME t.call.command
      PROVE  Placed(c, w, Work(worked, c), g)
  <2>1. t.call.op # "remember"
    BY <1>7, ToolsAssumption
  <2>2. /\ Shape(worked) /\ SameCall(t, worked.tasks[c])
        /\ Calm(w1, worked)
    BY <1>1, <1>3, OthersCalm, StillShaped
  <2> HIDE DEF worked
  <2>3. Placed(c, worked, Work(worked, c), g)
    BY <2>1, <2>2, WorkPlaced
  <2>4. QED
    BY <1>1, <2>2, <2>3, StillShaped, ThenPlaced
<1>8. Placed(c, w, End(w, c, "not_started"), g)
  BY EndPlaced
<1>9. QED
  BY <1>2, <1>6, <1>7, <1>8

LEMMA TargetsPlaced ==
  ASSUME NEW w, Shape(w), NEW c \in Calls, Open(w.tasks[c]), NEW g
  PROVE  Placed(c, w, Targets(w, c), g)
<1> DEFINE t == w.tasks[c]
           o == t.object
           message == IF w.objects[o].message = Undefined THEN Label ELSE w.objects[o].message
           w1 == [w EXCEPT !.objects[o].message = message,
                           !.tasks[c].generation = w.objects[o].generation]
           array == [repository |-> t.call.repository, id |-> c]
           sent == Send(w1, c, "resolve", array, Undefined, o, c)
           chosen1 == Select(w1, c, c)
<1>1. Moves(c, w, w1) /\ SameCall(t, w1.tasks[c])
  <2> DEFINE generation == w.objects[o].generation
  <2>1. w1.tasks = [w.tasks EXCEPT ![c] = [@ EXCEPT !["generation"] = generation]]
    BY DEF Shape
  <2>2. DOMAIN w1 = DOMAIN w /\ w1.requests = w.requests
    BY DEF Shape
  <2> HIDE DEF w1, generation, o
  <2>3. QED
    BY <2>1, <2>2, FieldMoves DEF TaskFields
<1>2. Targets(w, c) \in {Goto(sent, c, "resolving"), Targeted(w1, c, w.objects[o].targets),
                         Goto(chosen1, c, "selecting")}
  BY DEF Targets, CallOf
<1> HIDE DEF w1, array, o
<1>3. Moves(c, w1, sent) /\ SameCall(t, sent.tasks[c])
  <2>1. /\ Moves(c, w1, sent)
        /\ sent.tasks[c] = [w1.tasks[c] EXCEPT !.slot = SlotOf(c, "resolve")]
    <3>1. "resolve" \notin Writing /\ c \in Tasks
      BY DEF Writing, Tasks
    <3>2. QED
      BY <1>1, <3>1, StillShaped, SendMoves
  <2>2. DOMAIN w1.tasks[c] = TaskFields
    BY <1>1 DEF Moves, Shape, Tasks
  <2> HIDE DEF sent
  <2>3. QED
    BY <1>1, <2>1, <2>2 DEF TaskFields
<1>4. Moves(c, w1, chosen1) /\ SameCall(t, chosen1.tasks[c])
  BY <1>1, StillShaped, SelectMoves DEF Tasks
<1> HIDE DEF sent, chosen1
<1>5. /\ Placed(c, sent, Goto(sent, c, "resolving"), g)
      /\ Placed(c, chosen1, Goto(chosen1, c, "selecting"), g)
  BY <1>3, <1>4, StillShaped, GotoPlaced DEF Unwritten
<1>6. Placed(c, w1, Targeted(w1, c, w.objects[o].targets), g)
  BY <1>1, StillShaped, TargetedPlaced
<1>7. /\ Placed(c, w1, Goto(sent, c, "resolving"), g)
      /\ Placed(c, w1, Goto(chosen1, c, "selecting"), g)
  BY <1>1, <1>3, <1>4, <1>5, StillShaped, ThenPlaced
<1>8. QED
  BY <1>1, <1>2, <1>6, <1>7, ThenPlaced

LEMMA TaskPlaced ==
  ASSUME NEW w, Shape(w), NEW c \in Calls, NEW x, DOMAIN x = TaskFields,
         x.pc \in {"locating", "asking"}, x.slot = Nothing, Open(x), NEW g
  PROVE  /\ Placed(c, w, [w EXCEPT !.tasks[c] = x], g)
         /\ Moves(c, w, [w EXCEPT !.tasks[c] = x])
         /\ [w EXCEPT !.tasks[c] = x].tasks[c] = x
<1> DEFINE v == [w EXCEPT !.tasks[c] = x]
<1>1. /\ DOMAIN v = DOMAIN w /\ v.requests = w.requests /\ DOMAIN v.tasks = Tasks
      /\ v.tasks[c] = x /\ \A s \in Tasks \ {c} : v.tasks[s] = w.tasks[s]
  BY DEF Shape, Tasks
<1> HIDE DEF v
<1>2. Moves(c, w, v)
  BY <1>1, TaskMoves DEF Tasks
<1>3. Stands(v, c, <<>>, g)
  BY <1>1 DEF Stands, Says, Waits, Pcs, Unwritten, Writers
<1>4. QED
  BY <1>1, <1>2, <1>3 DEF Placed, v

LEMMA CallPlaced ==
  ASSUME NEW w, Shape(w), NEW c \in Calls, NEW s, NEW q \in Tools, NEW g
  PROVE  Placed(c, w, Call(w, c, s, q), g)
<1> DEFINE w1 == StateFor(w, s)
           start == [Idle EXCEPT !.call = q, !.session = s]
           asking == [start EXCEPT !.pc = "asking"]
           locating == [start EXCEPT !.pc = "locating", !.object = Latest(w1)]
           w2 == [w1 EXCEPT !.tasks[c] = locating]
<1>1. Calm(w, w1)
  BY StateForCalm
<1>2. /\ DOMAIN asking = TaskFields /\ asking.pc = "asking"
      /\ asking.slot = Nothing /\ asking.call = q /\ Open(asking)
  BY DEF Idle, TaskFields
<1>3. /\ DOMAIN locating = TaskFields /\ locating.pc = "locating"
      /\ locating.slot = Nothing /\ locating.call = q /\ Open(locating)
  BY DEF Idle, TaskFields
<1>4. Call(w, c, s, q) \in {[w EXCEPT !.tasks[c] = asking], Targets(w2, c), w2}
  BY DEF Call
<1> HIDE DEF asking, locating, w1
<1>5. Placed(c, w, [w EXCEPT !.tasks[c] = asking], g)
  BY <1>2, TaskPlaced
<1>6. Shape(w1)
  BY <1>1, StillShaped
<1>7. Placed(c, w1, w2, g) /\ Moves(c, w1, w2) /\ Open(w2.tasks[c])
  BY <1>3, <1>6, TaskPlaced
<1> HIDE DEF w2
<1>8. Placed(c, w2, Targets(w2, c), g)
  BY <1>7, StillShaped, TargetsPlaced
<1>9. Placed(c, w1, Targets(w2, c), g)
  BY <1>6, <1>7, <1>8, ThenPlaced
<1>10. QED
  BY <1>1, <1>4, <1>5, <1>7, <1>9, ThenPlaced

LEMMA AgreedPlaced ==
  ASSUME NEW w, Shape(w), NEW c \in Calls, Open(w.tasks[c]), w.tasks[c].slot = Nothing,
         NEW g, g = IF w.tasks[c].call.op = "apply" THEN Database ELSE w.tasks[c].targets.repository
  PROVE  Placed(c, w, Agreed(w, c), g)
<1> DEFINE t == w.tasks[c]
           w1 == StateFor(w, t.session)
           o == Latest(w1)
           w2 == [w1 EXCEPT !.tasks[c].object = o]
           w3 == Invalidate(w1, o)
           database == [repository |-> Database, id |-> Nothing]
           apply == Goto(Send(w3, c, "apply", database, Undefined, Nothing, c), c, "applying")
<1>1. Calm(w, w1) /\ w1.tasks = w.tasks
  BY StateForCalm DEF Calm
<1>2. Agreed(w, c) = IF t.call.op = "apply" THEN apply
                     ELSE IF ~w1.objects[o].directory THEN Goto(w2, c, "relocating")
                     ELSE IF ~Approved(w2, c) THEN End(w2, c, "not_started") ELSE Work(w2, c)
  BY DEF Agreed, CallOf, Invalid, Refuse
<1> HIDE DEF w1, o
<1>3. Calm(w1, w3) /\ w3.tasks = w.tasks
  BY <1>1, StillShaped, InvalidateCalm DEF Calm
<1>4. /\ Moves(c, w1, w2) /\ SameCall(t, w2.tasks[c])
      /\ w2.tasks[c].slot = Nothing /\ w2.tasks[c].targets = t.targets
  <2>1. Shape(w1)
    BY <1>1, StillShaped
  <2>2. /\ w2.tasks = [w1.tasks EXCEPT ![c] = [@ EXCEPT !["object"] = o]]
        /\ DOMAIN w2 = DOMAIN w1 /\ w2.requests = w1.requests
    BY <2>1 DEF Shape
  <2> HIDE DEF w2
  <2>3. QED
    BY <1>1, <2>1, <2>2, FieldMoves DEF TaskFields
<1> HIDE DEF w2, w3
<1>5. ASSUME t.call.op = "apply"
      PROVE  Placed(c, w, apply, g)
  <2>1. "apply" \in Writing /\ "applying" \in Writers /\ database.repository = g
    BY <1>5 DEF Writing, Writers
  <2> HIDE DEF database
  <2>2. Sends(c, w3, apply) /\ Stands(apply, c, <<>>, g)
    BY <1>3, <2>1, StillShaped, WriteBegins
  <2> HIDE DEF apply
  <2>3. Placed(c, w3, apply, g)
    BY <2>2 DEF Placed
  <2>4. QED
    BY <1>1, <1>3, <2>3, StillShaped, ThenPlaced
<1>6. ASSUME t.call.op # "apply"
      PROVE  /\ Placed(c, w, Goto(w2, c, "relocating"), g)
             /\ Placed(c, w, End(w2, c, "not_started"), g)
             /\ Placed(c, w, Work(w2, c), g)
  <2>1. Shape(w2) /\ g = w2.tasks[c].targets.repository
    BY <1>4, <1>6, StillShaped
  <2>2. Placed(c, w2, Goto(w2, c, "relocating"), g)
    BY <1>4, <2>1, GotoPlaced DEF Unwritten
  <2>3. Placed(c, w2, End(w2, c, "not_started"), g)
    BY <2>1, EndPlaced
  <2>4. Placed(c, w2, Work(w2, c), g)
    BY <1>4, <2>1, WorkPlaced
  <2>5. ASSUME NEW u, Placed(c, w2, u, g)
        PROVE  Placed(c, w, u, g)
    BY <1>1, <1>4, <2>5, StillShaped, ThenPlaced
  <2>6. QED
    BY <2>2, <2>3, <2>4, <2>5
<1>7. QED
  BY <1>2, <1>5, <1>6

LEMMA SearchedPlaced ==
  ASSUME NEW w, Shape(w), NEW c \in Calls, Answer(w, c).outcome \in Outcomes, NEW g
  PROVE  Placed(c, w, Searched(w, c), g)
<1> DEFINE t == w.tasks[c]
           r == Answer(w, c)
           w1 == Invalidate(w, t.object)
           w2 == IF t.call.op = "scope" THEN [w1 EXCEPT !.objects[t.object].targets = t.targets] ELSE w1
           w3 == Seed(w2, t.object, t.terms, Receipt(r.targets, r.terms))
<1>1. Calm(w, w1)
  BY InvalidateCalm
<1>2. Searched(w, c) \in {End(w, c, "not_started"), End(w3, c, "ok")}
                         \cup {End(w, c, outcome) : outcome \in Outcomes}
  BY DEF Searched, Refuse, Invalid, CallOf
<1> HIDE DEF w1
<1>3. Calm(w1, w2)
  <2>1. Shape(w1)
    BY <1>1, StillShaped
  <2>2. /\ w2.tasks = w1.tasks /\ w2.requests = w1.requests
        /\ DOMAIN w2 = DOMAIN w1
    BY <2>1 DEF Shape
  <2>3. QED
    BY <2>1, <2>2, OthersCalm
<1> HIDE DEF w2
<1>4. Calm(w2, w3)
  BY <1>3, StillShaped, SeedCalm
<1> HIDE DEF w3
<1>5. Calm(w, w3)
  BY <1>1, <1>3, <1>4, CalmTwice, StillShaped
<1>6. Placed(c, w3, End(w3, c, "ok"), g)
  BY <1>5, EndPlaced, StillShaped
<1>7. Placed(c, w, End(w3, c, "ok"), g)
  BY <1>5, <1>6, ThenPlaced
<1>8. \A outcome \in Outcomes : Placed(c, w, End(w, c, outcome), g)
  BY EndPlaced DEF Outcomes
<1>9. QED
  BY <1>2, <1>7, <1>8 DEF Outcomes

\* A call that may have written ends with a report that says so.
LEMMA EndStands ==
  ASSUME NEW w, Shape(w), NEW c \in Calls, NEW report, NEW g, NEW wr \in {<<>>, <<g>>},
         report \in {"not_started", "denied", "rejected"} => wr = <<>>,
         report \in {"inserted", "committed"} => wr = <<g>>
  PROVE  /\ Moves(c, w, End(w, c, report))
         /\ Stands(End(w, c, report), c, wr, g)
<1> DEFINE v == End(w, c, report)
<1>1. Moves(c, w, v) /\ v.tasks[c].pc = "done" /\ v.tasks[c].report = report
  BY EndMoves DEF Tasks
<1>2. v.tasks[c].slot = Nothing
  BY DEF End, Shape, Idle, Tasks
<1> HIDE DEF v
<1>3. Stands(v, c, wr, g)
  BY <1>1, <1>2 DEF Stands, Says, Waits, Pcs, Unwritten, Writers
<1>4. QED
  BY <1>1, <1>3 DEF v

\* After its write a call reads.
LEMMA ReadStands ==
  ASSUME NEW w, Shape(w), NEW c \in Calls, Open(w.tasks[c]), NEW op \in {"list", "read"},
         NEW targets, NEW terms, NEW o, NEW pc \in {"reading", "checking", "looking"},
         NEW g, NEW wr \in {<<>>, <<g>>}, pc # "looking" => wr = <<g>>
  PROVE  /\ Moves(c, w, Goto(Send(w, c, op, targets, terms, o, c), c, pc))
         /\ Stands(Goto(Send(w, c, op, targets, terms, o, c), c, pc), c, wr, g)
<1> DEFINE v == Send(w, c, op, targets, terms, o, c)
           u == Goto(v, c, pc)
<1>0. c \in Tasks /\ op \notin Writing
  BY DEF Tasks, Writing
<1>1. Moves(c, w, v) /\ v.tasks[c] = [w.tasks[c] EXCEPT !.slot = SlotOf(c, op)]
  BY <1>0, SendMoves
<1> HIDE DEF v
<1>2. Moves(c, v, u) /\ u.tasks[c] = [v.tasks[c] EXCEPT !.pc = pc]
  <2>1. Shape(v)
    BY <1>1, StillShaped
  <2>2. QED
    BY <1>0, <2>1, GotoMoves
<1> HIDE DEF u
<1>3. DOMAIN w.tasks[c] = TaskFields
  BY <1>0 DEF Shape
<1>4. u.tasks[c].pc = pc /\ SameCall(w.tasks[c], u.tasks[c])
  BY <1>1, <1>2, <1>3 DEF TaskFields
<1>5. Stands(u, c, wr, g)
  BY <1>4 DEF Stands, Says, Waits, Pcs, Unwritten, Writers
<1>6. Moves(c, w, u)
  BY <1>0, <1>1, <1>2, MovesTwice
<1>7. QED
  BY <1>5, <1>6 DEF u, v

\* What a settled write lets its call say.
LEMMA WriteSettled ==
  ASSUME NEW w, NEW c \in Calls, NEW wr, NEW g, Stands(w, c, wr, g),
         w.tasks[c].pc \in Writers, Settled(Answer(w, c)), Shape(w)
  PROVE  /\ wr \in {<<>>, <<g>>}
         /\ Answer(w, c).outcome \in {"not_started", "rejected"} => wr = <<>>
         /\ Answer(w, c).outcome = "ok" => wr = <<g>>
  BY DEF Stands, WriteStands, Answer, Settled

LEMMA WrittenStands ==
  ASSUME NEW w, Shape(w), NEW c \in Calls, NEW wr, NEW g, Stands(w, c, wr, g),
         w.tasks[c].pc = "writing", Settled(Answer(w, c)), Answer(w, c).outcome \in Outcomes
  PROVE  Moves(c, w, Written(w, c)) /\ Stands(Written(w, c), c, wr, g)
<1> DEFINE t == w.tasks[c]
           w1 == Invalidate(w, t.object)
           outcome == Answer(w, c).outcome
           v == Goto(Send(w1, c, "list", t.targets, Undefined, t.object, c), c, "reading")
<1>1. /\ wr \in {<<>>, <<g>>}
      /\ outcome \in {"not_started", "rejected"} => wr = <<>>
      /\ outcome = "ok" => wr = <<g>>
  BY WriteSettled DEF Writers
<1>2. Calm(w, w1) /\ Shape(w1) /\ w1.tasks = w.tasks
  BY InvalidateCalm DEF Calm
<1>3. Written(w, c) = IF outcome # "ok" THEN End(w, c, outcome) ELSE v
  BY DEF Written, Refuse
<1>4. Open(t)
  BY DEF Stands, Says
<1> HIDE DEF w1, v
<1>5. CASE outcome = "ok"
  <2>1. Moves(c, w1, v) /\ Stands(v, c, wr, g)
    BY <1>1, <1>2, <1>4, <1>5, ReadStands DEF v
  <2>2. QED
    BY <1>2, <1>3, <1>5, <2>1, CalmMoves, MovesTwice DEF Tasks
<1>6. CASE outcome # "ok"
  <2>1. outcome \notin {"inserted", "committed", "denied"}
    BY DEF Outcomes
  <2>2. QED
    BY <1>1, <1>3, <1>6, <2>1, EndStands
<1>7. QED
  BY <1>5, <1>6

LEMMA AppliedStands ==
  ASSUME NEW w, Shape(w), NEW c \in Calls, NEW wr, NEW g, Stands(w, c, wr, g),
         w.tasks[c].pc = "applying", Settled(Answer(w, c))
  PROVE  Moves(c, w, Applied(w, c)) /\ Stands(Applied(w, c), c, wr, g)
<1> DEFINE r == Answer(w, c)
           pc == IF r.outcome = "ok" THEN "checking" ELSE "looking"
           v == Goto(Send(w, c, "read", r.targets, Undefined, Nothing, c), c, pc)
<1>1. /\ wr \in {<<>>, <<g>>}
      /\ r.outcome \in {"not_started", "rejected"} => wr = <<>>
      /\ r.outcome = "ok" => wr = <<g>>
  BY WriteSettled DEF Writers
<1>2. Applied(w, c) = IF r.outcome \in {"not_started", "rejected"} THEN End(w, c, r.outcome) ELSE v
  BY DEF Applied, Refuse
<1>3. Open(w.tasks[c])
  BY DEF Stands, Says
<1>4. pc \in {"reading", "checking", "looking"} /\ (pc # "looking" => wr = <<g>>)
  BY <1>1
<1>5. Moves(c, w, v) /\ Stands(v, c, wr, g)
  <2> HIDE DEF pc, r
  <2>1. QED
    BY <1>1, <1>3, <1>4, ReadStands
<1>6. r.outcome \in {"not_started", "rejected"} =>
        /\ Moves(c, w, End(w, c, r.outcome))
        /\ Stands(End(w, c, r.outcome), c, wr, g)
  BY <1>1, EndStands
<1>7. QED
  BY <1>2, <1>5, <1>6

\* What a settled request continues in a call.
LEMMA CallingStands ==
  ASSUME NEW w, Shape(w), NEW c \in Calls, NEW wr, NEW g, Stands(w, c, wr, g),
         w.tasks[c].slot \in Slots, Settled(Answer(w, c))
  PROVE  /\ Moves(c, w, Calling(w, c)) \/ Sends(c, w, Calling(w, c))
         /\ Stands(Calling(w, c), c, wr, g)
<1> DEFINE outcome == Answer(w, c).outcome
           v == Calling(w, c)
<1>1. outcome \in Outcomes
  BY DEF Answer, Settled, Shape, IsRequest
<1>2. w.tasks[c].pc \in {"resolving", "selecting", "searching", "writing", "reading",
                         "applying", "checking", "looking"}
  BY SlotsAssumption DEF Stands, Says, Waits, Pcs, Unwritten, Writers
<1>3. Open(w.tasks[c])
  BY <1>2 DEF Stands, Says
<1>4. CASE w.tasks[c].pc \in {"resolving", "selecting", "searching"}
  <2>1. wr = <<>>
    BY <1>4 DEF Stands, Says, Unwritten
  <2>2. \A o \in Outcomes : o \notin {"inserted", "committed"}
    BY DEF Outcomes
  <2>3. /\ Calm(w, Selected(w, c)) /\ Shape(Selected(w, c))
        /\ Open(Selected(w, c).tasks[c])
    BY <1>3, SelectedCalm DEF Calm
  <2>4. CASE w.tasks[c].pc = "resolving"
    <3>1. v \in {Targeted(w, c, Answer(w, c).targets), End(w, c, outcome)}
      BY <2>4 DEF Calling, Refuse
    <3>2. Placed(c, w, v, g)
      BY <1>1, <1>3, <2>2, <3>1, TargetedPlaced, EndPlaced
    <3>3. QED
      BY <2>1, <3>2 DEF Placed
  <2>5. CASE w.tasks[c].pc = "selecting"
    <3> DEFINE u == Selected(w, c)
    <3>1. v \in {Targeted(u, c, Answer(w, c).targets), End(u, c, outcome)}
      BY <2>5 DEF Calling, Refuse
    <3> HIDE DEF u, v
    <3>2. Placed(c, u, v, g)
      BY <1>1, <2>2, <2>3, <3>1, TargetedPlaced, EndPlaced DEF u
    <3>3. Placed(c, w, v, g)
      BY <2>3, <3>2, ThenPlaced DEF u
    <3>4. QED
      BY <2>1, <3>3 DEF Placed, v
  <2>6. CASE w.tasks[c].pc = "searching"
    <3>1. v = Searched(w, c)
      BY <2>6 DEF Calling
    <3>2. QED
      BY <1>1, <2>1, <3>1, SearchedPlaced DEF Placed
  <2>7. QED
    BY <1>4, <2>4, <2>5, <2>6
<1>5. CASE w.tasks[c].pc = "writing"
  BY <1>1, <1>5, WrittenStands DEF Calling
<1>6. CASE w.tasks[c].pc = "applying"
  BY <1>6, AppliedStands DEF Calling
<1>7. CASE w.tasks[c].pc \in {"reading", "checking", "looking"}
  <2>1. /\ wr \in {<<>>, <<g>>}
        /\ w.tasks[c].pc # "looking" => wr = <<g>>
    BY <1>7 DEF Stands, Says
  <2> DEFINE report == IF w.tasks[c].pc = "reading" THEN "inserted"
                       ELSE IF w.tasks[c].pc = "checking" /\ outcome = "ok" THEN "committed"
                       ELSE "outcome_unknown"
  <2>2. v = End(w, c, report)
    BY <1>7 DEF Calling
  <2>3. /\ report \notin {"not_started", "denied", "rejected"}
        /\ report \in {"inserted", "committed"} => wr = <<g>>
    BY <2>1
  <2> HIDE DEF report, v
  <2>4. Moves(c, w, v) /\ Stands(v, c, wr, g)
    BY <2>1, <2>2, <2>3, EndStands
  <2>5. QED
    BY <2>4 DEF v
<1>8. QED
  BY <1>2, <1>4, <1>5, <1>6, <1>7

-----------------------------------------------------------------------------
(* Every step keeps the calls where they stand.                            *)

LEMMA EndedCalm ==
  ASSUME NEW w, Shape(w), NEW c, NEW command
  PROVE  Calm(w, Ended(w, c, command))
<1> DEFINE w1 == StateFor(w, w.tasks[c].session)
           w2 == [w1 EXCEPT !.objects[Latest(w1)].message = Label]
<1>1. Calm(w, w1)
  BY StateForCalm
<1>2. Ended(w, c, command) \in {w2, w}
  BY DEF Ended
<1> HIDE DEF w1
<1>3. Calm(w1, w2)
  BY <1>1, OthersCalm DEF Calm, Shape
<1>4. QED
  BY <1>1, <1>2, <1>3, CalmTwice, OthersCalm

LEMMA ClearAllCalm ==
  ASSUME NEW w, Shape(w)
  PROVE  Calm(w, ClearAll(w))
<1> DEFINE all == {w.sessions[k] : k \in DOMAIN w.sessions}
           v == ClearAll(w)
<1>1. \A O : Calm(w, Abort(w, O))
  BY AbortCalm
<1>2. \E O : /\ v.tasks = Abort(w, O).tasks /\ v.requests = Abort(w, O).requests
             /\ DOMAIN v = DOMAIN Abort(w, O)
  BY <1>1 DEF ClearAll, Calm, Shape
<1> HIDE DEF v
<1>3. QED
  BY <1>1, <1>2, OthersCalm, CalmTwice DEF Calm, v

\* Garbage is collected around a waiting call.
LEMMA SweptKeeps ==
  ASSUME NEW w, NEW wrs, NEW gs, WorldInv(w, wrs, gs)
  PROVE  WorldInv(Swept(w), wrs, gs)
<1> DEFINE v == Swept(w)
           reached == {t \in Tasks : Pending(w, t)}
           awaited == {w.tasks[t].slot : t \in reached}
<1>0. Shape(w)
  BY DEF WorldInv
<1>1. /\ DOMAIN v = DOMAIN w /\ DOMAIN v.tasks = Tasks /\ DOMAIN v.requests = Slots
      /\ \A t \in Tasks : \/ v.tasks[t] = w.tasks[t]
                          \/ \E n : v.tasks[t] = [w.tasks[t] EXCEPT !.generation = n]
      /\ \A i \in Slots : \/ v.requests[i] = w.requests[i]
                          \/ \E n : v.requests[i] = [w.requests[i] EXCEPT !.generation = n]
                          \/ v.requests[i] = Nothing /\ i \notin awaited
      /\ \A i \in Slots : w.requests[i] = Nothing => v.requests[i] = Nothing
  BY <1>0 DEF Swept, Shape
<1> HIDE DEF v
<1>2. ASSUME NEW t \in Tasks
      PROVE  /\ DOMAIN v.tasks[t] = TaskFields
             /\ \A f \in TaskFields \ {"generation"} : v.tasks[t][f] = w.tasks[t][f]
  BY <1>0, <1>1 DEF Shape
<1>3. ASSUME NEW i \in Slots, v.requests[i] # Nothing
      PROVE  /\ w.requests[i] # Nothing
             /\ IsRequest(v.requests[i])
             /\ \A f \in RequestFields \ {"generation"} : v.requests[i][f] = w.requests[i][f]
  <2>1. w.requests[i] # Nothing /\ IsRequest(w.requests[i])
    BY <1>0, <1>1, <1>3 DEF Shape
  <2>2. v.requests[i] = w.requests[i] \/ \E n : v.requests[i] = [w.requests[i] EXCEPT !.generation = n]
    BY <1>1, <1>3
  <2>3. DOMAIN v.requests[i] = RequestFields
    BY <2>1, <2>2 DEF IsRequest
  <2>4. \A f \in RequestFields \ {"generation"} : v.requests[i][f] = w.requests[i][f]
    BY <2>1, <2>2 DEF IsRequest
  <2>5. QED
    BY <2>1, <2>3, <2>4 DEF IsRequest, RequestFields
<1>4. Shape(v)
  BY <1>0, <1>1, <1>2, <1>3 DEF Shape
<1>5. \A x \in Transforms : Hooked(v.tasks[x])
  BY <1>2 DEF WorldInv, Hooked, Waits, TaskFields, Tasks
<1>6. ASSUME NEW c \in Calls
      PROVE  Stands(v, c, wrs[c], gs[c])
  <2>1. Stands(w, c, wrs[c], gs[c]) /\ c \in Tasks
    BY DEF WorldInv, Tasks
  <2>2. Says(v.tasks[c], wrs[c], gs[c])
    <3>1. /\ v.tasks[c].pc = w.tasks[c].pc /\ v.tasks[c].slot = w.tasks[c].slot
          /\ v.tasks[c].call = w.tasks[c].call /\ v.tasks[c].targets = w.tasks[c].targets
          /\ v.tasks[c].report = w.tasks[c].report
      BY <1>2, <2>1 DEF TaskFields
    <3>2. QED
      BY <2>1, <3>1 DEF Stands, Says, Waits
  <2>3. ASSUME v.tasks[c].pc \in Writers
        PROVE  v.tasks[c].slot = <<c, "own">> /\ WriteStands(v.requests[<<c, "own">>], c, wrs[c], gs[c])
    <3> DEFINE i == <<c, "own">>
    <3>1. i \in Slots
      BY <2>1, SlotsAssumption
    <3>2. w.tasks[c].pc \in Writers /\ v.tasks[c].slot = w.tasks[c].slot
      BY <1>2, <2>1, <2>3 DEF TaskFields
    <3>3. w.tasks[c].slot = i /\ WriteStands(w.requests[i], c, wrs[c], gs[c])
      BY <2>1, <3>2 DEF Stands
    <3>4. i \in awaited
      BY <2>1, <3>2, <3>3 DEF Pending, Writers
    <3> HIDE DEF i
    <3>5. v.requests[i] = w.requests[i] \/ \E n : v.requests[i] = [w.requests[i] EXCEPT !.generation = n]
      BY <1>1, <3>1, <3>4
    <3>6. WriteStands(v.requests[i], c, wrs[c], gs[c])
      <4>1. CASE v.requests[i] = w.requests[i]
        BY <3>3, <4>1
      <4>2. CASE v.requests[i] # w.requests[i]
        <5>1. w.requests[i] # Nothing
          BY <1>1, <3>1, <4>2
        <5>2. DOMAIN w.requests[i] = RequestFields
          BY <1>0, <3>1, <5>1 DEF Shape, IsRequest
        <5>3. \A f \in RequestFields \ {"generation"} : v.requests[i][f] = w.requests[i][f]
          BY <3>5, <5>2
        <5>4. QED
          BY <3>3, <5>3 DEF WriteStands, RequestFields
      <4>3. QED
        BY <4>1, <4>2
    <3>7. QED
      BY <3>2, <3>3, <3>6 DEF i
  <2>4. QED
    BY <2>2, <2>3 DEF Stands
<1>7. WritersWait(v)
  <2> SUFFICES ASSUME NEW i \in Slots, v.requests[i] # Nothing, v.requests[i].op \in Writing,
                      v.requests[i].phase # "settled"
               PROVE  \E c \in Calls : i = <<c, "own">> /\ v.tasks[c].pc \in Writers
    BY DEF WritersWait
  <2>1. /\ w.requests[i] # Nothing /\ w.requests[i].op \in Writing
        /\ w.requests[i].phase # "settled"
    BY <1>3 DEF RequestFields
  <2>2. PICK c \in Calls : i = <<c, "own">> /\ w.tasks[c].pc \in Writers
    BY <2>1 DEF WorldInv, WritersWait
  <2>3. v.tasks[c].pc = w.tasks[c].pc
    BY <1>2 DEF TaskFields, Tasks
  <2>4. QED
    BY <2>2, <2>3
<1>8. QED
  BY <1>4, <1>5, <1>6, <1>7 DEF WorldInv, v

\* A step that becomes a world in which the calls stand.
LEMMA BecomeKeeps ==
  ASSUME NEW w, NEW touched, WorldInv(w, writes, granted'), Become(w, touched)
  PROVE  WorldInv(World', writes', granted')
<1> DEFINE v == Swept(w)
<1>1. WorldInv(v, writes, granted')
  BY SweptKeeps
<1>2. /\ World'.tasks = v.tasks /\ World'.requests = v.requests
      /\ DOMAIN World' = {"objects", "sessions", "approvals", "disposed", "tasks", "requests"}
      /\ writes' = writes
  BY DEF Become, World
<1> HIDE DEF v
<1>3. Calm(v, World')
  BY <1>1, <1>2, OthersCalm DEF WorldInv, Shape
<1>4. QED
  BY <1>1, <1>2, <1>3, CalmKeeps

-----------------------------------------------------------------------------
(* The bridge.                                                             *)

\* What a step of the bridge may make of a request r.
Commit(r, q) ==
  /\ r.phase = "command" /\ r.op \in Writing /\ ~r.committed
  /\ q.phase = r.phase /\ q.outcome = r.outcome /\ q.committed

Progress(r, q) ==
  /\ q.committed = r.committed
  /\ \/ r.phase = "handshake" /\ q.phase = "command" /\ q.outcome = "ok"
     \/ r.phase = "handshake" /\ q.phase = "settled" /\ q.outcome = "not_started"
     \/ q.phase = "settled" /\ q.outcome = "ok" /\ (r.op \in Writing => r.committed)
     \/ q.phase = "settled" /\ q.outcome = "rejected" /\ ~r.committed
     \/ q.phase = "settled" /\ q.outcome = "outcome_unknown"
     \/ r.phase = "command" /\ q.phase = r.phase /\ q.outcome = "outcome_unknown"
     \/ r.phase # "command" /\ q.phase = r.phase /\ q.outcome = "not_started"
     \/ q.phase = "settled" /\ q.outcome = r.outcome /\ r.outcome # "ok"

LEMMA BridgeDoes ==
  ASSUME NEW i \in Slots, DOMAIN requests = Slots, IsRequest(requests[i]), Bridge(i)
  PROVE  /\ DOMAIN requests' = Slots
         /\ \A j \in Slots \ {i} : requests'[j] = requests[j]
         /\ requests[i].phase # "settled"
         /\ IsRequest(requests'[i])
         /\ \A f \in {"op", "call", "targets"} : requests'[i][f] = requests[i][f]
         /\ \/ /\ Commit(requests[i], requests'[i])
               /\ writes' = [writes EXCEPT ![requests[i].call] = Append(@, requests[i].targets.repository)]
            \/ Progress(requests[i], requests'[i]) /\ writes' = writes
<1> DEFINE r == requests[i]
           q == requests'[i]
           Does == /\ DOMAIN requests' = Slots
                   /\ \A j \in Slots \ {i} : requests'[j] = requests[j]
                   /\ r.phase # "settled"
                   /\ IsRequest(q)
                   /\ \A f \in {"op", "call", "targets"} : q[f] = r[f]
<1> USE DEF Live, Running, Update, Settle, IsRequest, RequestFields, Outcomes, Progress
<1>1. CASE Handshake(i)
  <2>1. Does /\ Progress(r, q) /\ writes' = writes
    BY <1>1 DEF Handshake
  <2>2. QED
    BY <2>1
<1>2. CASE Unlaunched(i)
  <2>1. Does /\ Progress(r, q) /\ writes' = writes
    BY <1>2 DEF Unlaunched
  <2>2. QED
    BY <2>1
<1>3. CASE Commits(i)
  <2>1. Does
    BY <1>3 DEF Commits
  <2>2. Commit(r, q)
    BY <1>3 DEF Commits, Commit
  <2>3. QED
    BY <1>3, <2>1, <2>2 DEF Commits
<1>4. CASE Succeeds(i)
  <2>1. Does /\ Progress(r, q) /\ writes' = writes
    BY <1>4 DEF Succeeds
  <2>2. QED
    BY <2>1
<1>5. CASE Rejects(i)
  <2>1. Does /\ Progress(r, q) /\ writes' = writes
    BY <1>5 DEF Rejects
  <2>2. QED
    BY <2>1
<1>6. CASE Crashes(i)
  <2>1. Does /\ Progress(r, q) /\ writes' = writes
    BY <1>6 DEF Crashes
  <2>2. QED
    BY <2>1
<1>7. CASE Deadline(i)
  <2>1. Does /\ Progress(r, q) /\ writes' = writes
    BY <1>7 DEF Deadline, Stopped
  <2>2. QED
    BY <2>1
<1>8. CASE Closes(i)
  <2>1. Does /\ Progress(r, q) /\ writes' = writes
    BY <1>8 DEF Closes
  <2>2. QED
    BY <2>1
<1>9. QED
  BY <1>1, <1>2, <1>3, <1>4, <1>5, <1>6, <1>7, <1>8 DEF Bridge

\* A write that stands still stands after it.
LEMMA BridgeStands ==
  ASSUME NEW i \in Slots, DOMAIN requests = Slots, IsRequest(requests[i]), Bridge(i),
         DOMAIN writes = Calls, NEW c \in Calls, NEW g, WriteStands(requests[i], c, writes[c], g)
  PROVE  WriteStands(requests'[i], c, writes'[c], g)
<1> DEFINE r == requests[i]
           q == requests'[i]
<1>1. q.op = r.op /\ q.call = r.call /\ q.targets = r.targets /\ r.phase # "settled"
  BY BridgeDoes
<1>2. CASE /\ Commit(r, q)
           /\ writes' = [writes EXCEPT ![r.call] = Append(@, r.targets.repository)]
  <2>1. writes[c] = <<>> /\ r.call = c /\ r.targets.repository = g
    BY <1>2 DEF WriteStands, Commit
  <2>2. writes'[c] = Append(<<>>, g)
    BY <1>2, <2>1
  <2>3. writes'[c] = <<g>>
    BY <2>2
  <2>4. QED
    BY <1>1, <1>2, <2>3 DEF WriteStands, Commit
<1>3. CASE Progress(r, q) /\ writes' = writes
  BY <1>1, <1>3 DEF WriteStands, Progress
<1>4. QED
  BY <1>2, <1>3, BridgeDoes

LEMMA BridgeKeeps ==
  ASSUME NEW i \in Slots, BridgeStep(i), WorldInv(World, writes, granted), DOMAIN writes = Calls
  PROVE  WorldInv(World', writes', granted')
<1>1. /\ Shape(World) /\ World.tasks = tasks /\ World.requests = requests
      /\ World'.tasks = tasks' /\ World'.requests = requests'
      /\ tasks' = tasks /\ granted' = granted
      /\ DOMAIN World' = {"objects", "sessions", "approvals", "disposed", "tasks", "requests"}
  BY DEF BridgeStep, others, World, WorldInv
<1>2. DOMAIN requests = Slots /\ \A j \in Slots : requests[j] # Nothing => IsRequest(requests[j])
  BY <1>1 DEF Shape
<1>3. Bridge(i) /\ requests[i] # Nothing /\ IsRequest(requests[i])
  BY <1>2 DEF BridgeStep, Bridge, Handshake, Unlaunched, Commits, Succeeds, Rejects, Crashes,
              Deadline, Closes, Live, Running
<1>4. /\ DOMAIN requests' = Slots
      /\ \A j \in Slots \ {i} : requests'[j] = requests[j]
  BY <1>2, <1>3, BridgeDoes
<1>5. IsRequest(requests'[i]) /\ requests'[i].op = requests[i].op
  BY <1>2, <1>3, BridgeDoes
<1>6. requests[i].phase # "settled"
  BY <1>2, <1>3, BridgeDoes
<1>7. \A j \in Slots : requests'[j] # Nothing => IsRequest(requests'[j])
  BY <1>2, <1>4, <1>5
<1>8. Shape(World')
  BY <1>1, <1>4, <1>7 DEF Shape
<1>9. ASSUME NEW c \in Calls
      PROVE  Stands(World', c, writes'[c], granted'[c])
  <2>1. Stands(World, c, writes[c], granted[c])
    BY DEF WorldInv
  <2>2. CASE tasks[c].pc \in Writers /\ i = <<c, "own">>
    <3>1. WriteStands(requests[i], c, writes[c], granted[c])
      BY <1>1, <2>1, <2>2 DEF Stands
    <3>2. WriteStands(requests'[i], c, writes'[c], granted[c])
      BY <1>2, <1>3, <3>1, BridgeStands
    <3>3. Says(tasks[c], writes'[c], granted[c])
      BY <1>1, <2>1, <2>2 DEF Stands, Says, Writers, Unwritten
    <3>4. QED
      BY <1>1, <2>1, <2>2, <3>2, <3>3 DEF Stands
  <2>3. CASE ~(tasks[c].pc \in Writers /\ i = <<c, "own">>)
    <3>1. writes'[c] = writes[c]
      <4>1. CASE ~Commits(i)
        BY <1>3, <4>1 DEF Bridge, Handshake, Unlaunched, Succeeds, Rejects, Crashes, Deadline, Closes
      <4>2. CASE Commits(i)
        <5>1. requests[i].op \in Writing
          BY <4>2 DEF Commits
        <5>2. PICK d \in Calls : i = <<d, "own">> /\ tasks[d].pc \in Writers
          BY <1>1, <1>3, <1>6, <5>1 DEF WorldInv, WritersWait
        <5>3. requests[i].call = d
          BY <1>1, <5>2 DEF WorldInv, Stands, WriteStands
        <5>4. d # c
          BY <2>3, <5>2
        <5>5. QED
          BY <4>2, <5>3, <5>4 DEF Commits
      <4>3. QED
        BY <4>1, <4>2
    <3>2. tasks[c].pc \in Writers => requests'[<<c, "own">>] = requests[<<c, "own">>]
      <4>1. <<c, "own">> \in Slots
        BY SlotsAssumption DEF Tasks
      <4>2. QED
        BY <1>4, <2>3, <4>1
    <3>3. QED
      BY <1>1, <2>1, <3>1, <3>2 DEF Stands
  <2>4. QED
    BY <2>2, <2>3
<1>10. WritersWait(World')
  <2> SUFFICES ASSUME NEW j \in Slots, requests'[j] # Nothing, requests'[j].op \in Writing,
                      requests'[j].phase # "settled"
               PROVE  \E c \in Calls : j = <<c, "own">> /\ tasks[c].pc \in Writers
    BY <1>1 DEF WritersWait
  <2>1. requests[j] # Nothing /\ requests[j].op \in Writing /\ requests[j].phase # "settled"
    BY <1>3, <1>4, <1>5, <1>6
  <2>2. QED
    BY <1>1, <2>1 DEF WorldInv, WritersWait
<1>11. QED
  BY <1>1, <1>8, <1>9, <1>10 DEF WorldInv

-----------------------------------------------------------------------------
(* The invariant.                                                          *)

\* Where every call stands with its one write.
PluginInv ==
  /\ WorldInv(World, writes, granted)
  /\ DOMAIN writes = Calls
  /\ DOMAIN granted = Calls

LEMMA PluginInitInv ==
  ASSUME PluginInit
  PROVE  PluginInv
<1>1. World.tasks = tasks /\ World.requests = requests
  BY DEF World
<1>2. Shape(World)
  BY DEF PluginInit, World, Shape, Idle, TaskFields
<1>3. \A t \in Tasks : tasks[t].pc = "idle" /\ tasks[t].slot = Nothing /\ tasks[t].report = "none"
  BY DEF PluginInit, Idle
<1>4. \A c \in Calls : Stands(World, c, <<>>, Nothing)
  BY <1>1, <1>3 DEF Stands, Says, Waits, Pcs, Unwritten, Writers, Tasks
<1>5. \A x \in Transforms : Hooked(World.tasks[x])
  BY <1>1, <1>3 DEF Hooked, Waits, Tasks
<1>6. WritersWait(World)
  BY <1>1 DEF WritersWait, PluginInit
<1>7. /\ DOMAIN writes = Calls /\ DOMAIN granted = Calls
      /\ \A c \in Calls : writes[c] = <<>> /\ granted[c] = Nothing
  BY DEF PluginInit
<1>8. QED
  BY <1>2, <1>4, <1>5, <1>6, <1>7 DEF PluginInv, WorldInv

\* The two kinds of step: of a hook, and of a call that did not write.
LEMMA HookKeeps ==
  ASSUME NEW w, NEW v, NEW wrs, NEW gs, WorldInv(w, wrs, gs), NEW x \in Transforms,
         Moves(x, w, v), Hooked(v.tasks[x])
  PROVE  WorldInv(v, wrs, gs)
<1>1. x \in Tasks /\ x \notin Calls /\ w.tasks[x].pc \notin Writers
  BY TasksAssumption DEF Tasks, WorldInv, Hooked, Writers
<1>2. QED
  BY <1>1, StepKeeps

LEMMA CallKeeps ==
  ASSUME NEW w, NEW v, NEW wrs, NEW gs, NEW hs, WorldInv(w, wrs, gs), NEW c \in Calls,
         \A d \in Calls \ {c} : hs[d] = gs[d],
         w.tasks[c].pc \in Unwritten, Placed(c, w, v, hs[c])
  PROVE  WorldInv(v, wrs, hs)
<1>1. c \in Tasks /\ c \notin Transforms /\ w.tasks[c].pc \notin Writers
  BY TasksAssumption DEF Tasks, Unwritten, Writers
<1>2. wrs[c] = <<>>
  BY DEF WorldInv, Stands, Says
<1>3. QED
  BY <1>1, <1>2, StepKeeps DEF Placed

LEMMA EndedKeeps ==
  ASSUME NEW w, NEW wrs, NEW gs, WorldInv(w, wrs, gs), NEW c, NEW command
  PROVE  WorldInv(Ended(w, c, command), wrs, gs)
  BY EndedCalm, CalmKeeps DEF WorldInv

\* What a step of the plugin starts from.
LEMMA Here ==
  ASSUME PluginInv
  PROVE  /\ Shape(World) /\ World.tasks = tasks /\ World.requests = requests
         /\ DOMAIN tasks = Tasks
  BY DEF PluginInv, WorldInv, World, Shape

LEMMA WakeTransformKeeps ==
  ASSUME PluginInv, NEW x \in Transforms, WakeTransform(x)
  PROVE  WorldInv(World', writes', granted')
<1> DEFINE v == Transforming(World, x)
<1>1. Become(v, {}) /\ granted' = granted
  BY DEF WakeTransform
<1>2. WorldInv(World, writes, granted) /\ x \in Tasks
  BY DEF PluginInv, Tasks
<1>3. World.tasks[x].pc \in {"selecting", "recalling"}
  BY <1>2, Here, SlotsAssumption DEF WakeTransform, Wakes, WorldInv, Hooked, Waits
<1>4. Moves(x, World, v) /\ Hooked(v.tasks[x])
  BY <1>2, <1>3, Here, TransformingMoves
<1> HIDE DEF v
<1>5. WorldInv(v, writes, granted')
  BY <1>1, <1>2, <1>4, HookKeeps
<1>6. QED
  BY <1>1, <1>5, BecomeKeeps

LEMMA WakeCallKeeps ==
  ASSUME PluginInv, NEW c \in Calls, WakeCall(c)
  PROVE  WorldInv(World', writes', granted')
<1> DEFINE v == Calling(World, c)
           u == Ended(v, c, tasks[c].call.command)
<1>1. Become(u, {}) /\ granted' = granted
  BY DEF WakeCall
<1>2. /\ WorldInv(World, writes, granted) /\ c \in Tasks
      /\ Stands(World, c, writes[c], granted[c])
  BY DEF PluginInv, WorldInv, Tasks
<1>3. World.tasks[c].slot \in Slots /\ Settled(Answer(World, c))
  BY Here DEF WakeCall, Wakes, Answer
<1>4. /\ Moves(c, World, v) \/ Sends(c, World, v)
      /\ Stands(v, c, writes[c], granted[c])
  BY <1>2, <1>3, Here, CallingStands
<1>5. World.tasks[c].pc \in Writers => Settled(World.requests[<<c, "own">>])
  BY <1>2, <1>3 DEF Stands, Answer
<1> HIDE DEF v
<1>6. WorldInv(v, writes, granted)
  BY <1>2, <1>4, <1>5, TasksAssumption, StepKeeps
<1>7. WorldInv(u, writes, granted')
  BY <1>1, <1>6, EndedKeeps
<1> HIDE DEF u
<1>8. QED
  BY <1>1, <1>7, BecomeKeeps

LEMMA StartTransformKeeps ==
  ASSUME PluginInv, NEW x \in Transforms, NEW s \in Working, StartTransform(x, s)
  PROVE  WorldInv(World', writes', granted')
<1> DEFINE w == StateFor(World, s)
           w1 == Invalidate(w, Latest(w))
           quieted == End(w1, x, "quiet")
           started == Transform(World, x, s, latest[s])
           taken == IF w.objects[Latest(w)].directory THEN Overtaken(World, s, Latest(w), latest[s]) ELSE {}
<1>1. /\ Become(quieted, {s}) \/ Become(started, taken)
      /\ granted' = granted
  BY DEF StartTransform
<1>2. WorldInv(World, writes, granted) /\ x \in Tasks
  BY DEF PluginInv, Tasks
<1>3. Calm(World, w) /\ Shape(w)
  BY Here, StateForCalm DEF Calm
<1>4. Calm(w, w1) /\ Shape(w1)
  BY <1>3, InvalidateCalm DEF Calm
<1>5. WorldInv(w1, writes, granted)
  <2> HIDE DEF w, w1
  <2>1. QED
    BY <1>2, <1>3, <1>4, CalmKeeps
<1>6. WorldInv(quieted, writes, granted')
  <2>1. Moves(x, w1, quieted) /\ Hooked(quieted.tasks[x])
    BY <1>2, <1>4, EndHooked
  <2> HIDE DEF w1, quieted
  <2>2. QED
    BY <1>1, <1>5, <2>1, HookKeeps
<1>7. WorldInv(started, writes, granted')
  <2>1. Moves(x, World, started) /\ Hooked(started.tasks[x])
    BY <1>2, Here, TransformMoves
  <2> HIDE DEF started
  <2>2. QED
    BY <1>1, <1>2, <2>1, HookKeeps
<1> HIDE DEF quieted, started, taken
<1>8. QED
  BY <1>1, <1>6, <1>7, BecomeKeeps

LEMMA StartCallKeeps ==
  ASSUME PluginInv, NEW c \in Calls, NEW s \in Working, NEW q \in Tools, StartCall(c, s, q)
  PROVE  WorldInv(World', writes', granted')
<1> DEFINE v == Call(World, c, s, q)
           u == Ended(v, c, q.command)
<1>1. Become(u, {}) /\ granted' = granted /\ tasks[c].pc = "idle"
  BY DEF StartCall
<1>2. WorldInv(World, writes, granted)
  BY DEF PluginInv
<1>3. Placed(c, World, v, granted[c])
  BY Here, CallPlaced
<1>4. World.tasks[c].pc \in Unwritten
  BY <1>1, Here DEF Unwritten
<1> HIDE DEF v
<1>5. WorldInv(v, writes, granted)
  BY <1>2, <1>3, <1>4, CallKeeps
<1>6. WorldInv(u, writes, granted')
  BY <1>1, <1>5, EndedKeeps
<1> HIDE DEF u
<1>7. QED
  BY <1>1, <1>6, BecomeKeeps

LEMMA HostAnswersKeeps ==
  ASSUME PluginInv, NEW t \in Tasks, HostAnswers(t)
  PROVE  WorldInv(World', writes', granted')
<1> DEFINE known == [World EXCEPT !.objects[tasks[t].object].directory = TRUE]
           targeted == Ended(Targets(known, t), t, tasks[t].call.command)
           taken == Overtaken(known, tasks[t].session, tasks[t].object, tasks[t].message)
<1>1. /\ tasks[t].pc \in {"locating", "relocating"} /\ granted' = granted
      /\ \/ t \in Transforms /\ Become(Located(known, t), taken)
         \/ t \notin Transforms /\ tasks[t].pc = "locating" /\ Become(targeted, {})
         \/ t \notin Transforms /\ tasks[t].pc = "relocating" /\ Become(Work(known, t), {})
         \/ t \notin Transforms /\ tasks[t].pc = "relocating" /\ Become(Invalid(known, t), {})
  BY DEF HostAnswers
<1>2. WorldInv(World, writes, granted)
  BY DEF PluginInv
<1>3. Calm(World, known) /\ Shape(known) /\ known.tasks = tasks
  BY Here, OthersCalm DEF Calm, Shape
<1> HIDE DEF known, taken
<1>4. WorldInv(known, writes, granted)
  BY <1>2, <1>3, CalmKeeps
<1>5. CASE t \in Transforms
  <2>1. Moves(t, known, Located(known, t)) /\ Hooked(Located(known, t).tasks[t])
    BY <1>3, LocatedMoves
  <2>2. WorldInv(Located(known, t), writes, granted')
    BY <1>1, <1>4, <1>5, <2>1, HookKeeps
  <2>3. QED
    BY <1>1, <1>5, <2>2, BecomeKeeps
<1>6. CASE t \notin Transforms
  <2>1. /\ t \in Calls /\ Stands(known, t, writes[t], granted[t])
        /\ Open(known.tasks[t])
    BY <1>1, <1>3, <1>4, <1>6 DEF WorldInv, Tasks, Stands, Says
  <2>2. known.tasks[t].pc \in Unwritten
    BY <1>1, <1>3 DEF Unwritten
  <2>3. \A d \in Calls \ {t} : granted'[d] = granted[d]
    BY <1>1
  <2>4. WorldInv(targeted, writes, granted')
    <3>1. Placed(t, known, Targets(known, t), granted[t])
      BY <1>3, <2>1, TargetsPlaced
    <3>2. WorldInv(Targets(known, t), writes, granted)
      BY <1>4, <2>1, <2>2, <3>1, CallKeeps
    <3>3. QED
      BY <1>1, <3>2, EndedKeeps
  <2>5. ASSUME tasks[t].pc = "relocating"
        PROVE  WorldInv(Work(known, t), writes, granted')
    <3>1. granted[t] = known.tasks[t].targets.repository
      BY <1>3, <2>1, <2>5 DEF Stands, Says
    <3>2. Placed(t, known, Work(known, t), granted[t])
      BY <1>3, <2>1, <3>1, WorkPlaced
    <3>3. QED
      BY <1>1, <1>4, <2>1, <2>2, <3>2, CallKeeps
  <2>6. WorldInv(Invalid(known, t), writes, granted')
    <3>1. Placed(t, known, End(known, t, "not_started"), granted[t])
      BY <1>3, <2>1, EndPlaced
    <3>2. Invalid(known, t) = End(known, t, "not_started")
      BY DEF Invalid, Refuse
    <3>3. QED
      BY <1>1, <1>4, <2>1, <2>2, <3>1, <3>2, CallKeeps
  <2> HIDE DEF targeted
  <2>7. QED
    BY <1>1, <1>6, <2>4, <2>5, <2>6, BecomeKeeps
<1>7. QED
  BY <1>5, <1>6

LEMMA HostFailsKeeps ==
  ASSUME PluginInv, NEW t \in Tasks, HostFails(t)
  PROVE  WorldInv(World', writes', granted')
<1> DEFINE v == End(World, t, "not_started")
           u == Ended(v, t, tasks[t].call.command)
<1>1. /\ tasks[t].pc \in {"locating", "relocating"} /\ granted' = granted
      /\ Become(IF t \in Transforms THEN Unlocated(World, t) ELSE u, {})
  BY DEF HostFails, Invalid, Refuse
<1>2. WorldInv(World, writes, granted)
  BY DEF PluginInv
<1>3. CASE t \in Transforms
  <2>1. Moves(t, World, Unlocated(World, t)) /\ Hooked(Unlocated(World, t).tasks[t])
    BY Here, UnlocatedMoves
  <2>2. WorldInv(Unlocated(World, t), writes, granted')
    BY <1>1, <1>2, <1>3, <2>1, HookKeeps
  <2>3. QED
    BY <1>1, <1>3, <2>2, BecomeKeeps
<1>4. CASE t \notin Transforms
  <2>1. t \in Calls /\ World.tasks[t].pc \in Unwritten
    BY <1>1, <1>4, Here DEF Tasks, Unwritten
  <2>2. Placed(t, World, v, granted[t])
    BY <2>1, Here, EndPlaced
  <2> HIDE DEF v
  <2>3. WorldInv(v, writes, granted)
    BY <1>2, <2>1, <2>2, CallKeeps
  <2>4. WorldInv(u, writes, granted')
    BY <1>1, <2>3, EndedKeeps
  <2> HIDE DEF u
  <2>5. QED
    BY <1>1, <1>4, <2>4, BecomeKeeps
<1>5. QED
  BY <1>3, <1>4

LEMMA RecordedKeeps ==
  ASSUME PluginInv, NEW x \in Transforms, Recorded(x)
  PROVE  WorldInv(World', writes', granted')
<1>1. Become(Injected(World, x), {}) /\ granted' = granted
  BY DEF Recorded
<1>2. WorldInv(World, writes, granted)
  BY DEF PluginInv
<1>3. Moves(x, World, Injected(World, x)) /\ Hooked(Injected(World, x).tasks[x])
  BY Here, InjectedMoves DEF Tasks
<1>4. WorldInv(Injected(World, x), writes, granted')
  BY <1>1, <1>2, <1>3, HookKeeps
<1>5. QED
  BY <1>1, <1>4, BecomeKeeps

LEMMA UserAgreesKeeps ==
  ASSUME PluginInv, NEW c \in Calls, UserAgrees(c)
  PROVE  WorldInv(World', writes', granted')
<1>1. /\ tasks[c].pc = "asking" /\ Become(Agreed(World, c), {})
      /\ granted' = [granted EXCEPT ![c] =
           IF tasks[c].call.op = "apply" THEN Database ELSE tasks[c].targets.repository]
  BY DEF UserAgrees
<1>2. WorldInv(World, writes, granted) /\ DOMAIN granted = Calls
  BY DEF PluginInv
<1>3. /\ granted'[c] = IF World.tasks[c].call.op = "apply" THEN Database
                       ELSE World.tasks[c].targets.repository
      /\ \A d \in Calls \ {c} : granted'[d] = granted[d]
  BY <1>1, <1>2, Here
<1>4. Stands(World, c, writes[c], granted[c]) /\ World.tasks[c].pc = "asking"
  BY <1>1, <1>2, Here DEF WorldInv
<1>5. Open(World.tasks[c]) /\ World.tasks[c].slot = Nothing
  BY <1>4 DEF Stands, Says, Waits
<1>6. Placed(c, World, Agreed(World, c), granted'[c])
  BY <1>3, <1>5, Here, AgreedPlaced
<1>7. WorldInv(Agreed(World, c), writes, granted')
  BY <1>2, <1>3, <1>4, <1>6, CallKeeps DEF Unwritten
<1>8. QED
  BY <1>1, <1>7, BecomeKeeps

LEMMA UserDeniesKeeps ==
  ASSUME PluginInv, NEW c \in Calls, UserDenies(c)
  PROVE  WorldInv(World', writes', granted')
<1>1. /\ tasks[c].pc = "asking" /\ Become(End(World, c, "denied"), {})
      /\ granted' = granted
  BY DEF UserDenies
<1>2. WorldInv(World, writes, granted) /\ World.tasks[c].pc \in Unwritten
  BY <1>1, Here DEF PluginInv, Unwritten
<1>3. Placed(c, World, End(World, c, "denied"), granted[c])
  BY Here, EndPlaced
<1>4. WorldInv(End(World, c, "denied"), writes, granted')
  BY <1>1, <1>2, <1>3, CallKeeps
<1>5. QED
  BY <1>1, <1>4, BecomeKeeps

\* A cancelled call waits on for what it started.
LEMMA UserAbortsKeeps ==
  ASSUME PluginInv, NEW c \in Calls, UserAborts(c)
  PROVE  WorldInv(World', writes', granted')
<1> DEFINE stopped == [World EXCEPT !.requests =
             [i \in Slots |-> IF @[i] # Nothing /\ @[i].call = c THEN Stopped(@[i]) ELSE @[i]]]
           v == [stopped EXCEPT !.tasks[c].aborted = TRUE]
<1>1. Become(v, {}) /\ granted' = granted
  BY DEF UserAborts
<1>2. WorldInv(World, writes, granted) /\ c \in Tasks /\ c \notin Transforms
  BY TasksAssumption DEF PluginInv, Tasks
<1>3. Calm(World, stopped)
  <2>1. \A i \in Slots : Kept(World.requests[i], stopped.requests[i])
    BY Here DEF Shape, Kept
  <2>2. /\ stopped.tasks = World.tasks /\ DOMAIN stopped = DOMAIN World
        /\ DOMAIN stopped.requests = Slots
    BY Here DEF Shape
  <2> HIDE DEF stopped
  <2>3. \A i \in Slots : stopped.requests[i] # Nothing => IsRequest(stopped.requests[i])
    BY <2>1, Here, StoppedShape DEF Shape
  <2>4. QED
    BY <2>1, <2>2, <2>3, Here DEF Calm, Shape
<1> HIDE DEF stopped
<1>4. Shape(stopped) /\ WorldInv(stopped, writes, granted)
  BY <1>2, <1>3, CalmKeeps, StillShaped
<1>5. v.tasks = [stopped.tasks EXCEPT ![c] = [@ EXCEPT !["aborted"] = TRUE]]
  BY <1>4 DEF Shape
<1>6. DOMAIN v = DOMAIN stopped /\ v.requests = stopped.requests
  BY <1>4 DEF Shape
<1> HIDE DEF v
<1>7. /\ Moves(c, stopped, v)
      /\ \A f \in TaskFields \ {"aborted"} : v.tasks[c][f] = stopped.tasks[c][f]
  <2>1. "aborted" \in TaskFields
    BY DEF TaskFields
  <2>2. QED
    BY <1>4, <1>5, <1>6, <2>1, FieldMoves
<1>8. /\ v.tasks[c].pc = stopped.tasks[c].pc /\ v.tasks[c].slot = stopped.tasks[c].slot
      /\ v.tasks[c].call = stopped.tasks[c].call /\ v.tasks[c].targets = stopped.tasks[c].targets
      /\ v.tasks[c].report = stopped.tasks[c].report
  BY <1>7 DEF TaskFields
<1>9. Stands(v, c, writes[c], granted[c])
  <2>1. Stands(stopped, c, writes[c], granted[c])
    BY <1>4 DEF WorldInv
  <2>2. QED
    BY <1>6, <1>8, <2>1 DEF Stands, Says, Waits
<1>10. WorldInv(v, writes, granted')
  BY <1>1, <1>2, <1>4, <1>7, <1>8, <1>9, StepKeeps
<1>11. QED
  BY <1>1, <1>10, BecomeKeeps

\* What the host does to sessions leaves the calls alone.
LEMMA SessionKeeps ==
  ASSUME PluginInv, NEW s \in Sessions,
         NewMessage(s) \/ QuietCommand(s) \/ InspectCommand(s) \/ Compact(s)
  PROVE  WorldInv(World', writes', granted')
<1> DEFINE w == StateFor(World, s)
           labelled == [w EXCEPT !.objects[Latest(w)].message = Label]
           ways == {Capture(World, s, latest'[s]), CaptureQuiet(World, s), labelled,
                    Clear(World, s)}
<1>1. granted' = granted /\ \E v \in ways, touched \in {{}, {s}} : Become(v, touched)
  BY DEF NewMessage, QuietCommand, InspectCommand, Compact
<1>2. Calm(World, labelled)
  <2>1. Calm(World, w)
    BY Here, StateForCalm
  <2> HIDE DEF w
  <2>2. Calm(w, labelled)
    BY <2>1, OthersCalm DEF Calm, Shape
  <2>3. QED
    BY <2>1, <2>2, Here, CalmTwice
<1>3. \A v \in ways : Calm(World, v)
  BY <1>2, Here, CaptureCalm, CaptureQuietCalm, ClearCalm
<1> HIDE DEF ways
<1>4. \A v \in ways : WorldInv(v, writes, granted')
  BY <1>1, <1>3, CalmKeeps DEF PluginInv
<1>5. QED
  BY <1>1, <1>4, BecomeKeeps

LEMMA DisposeKeeps ==
  ASSUME PluginInv, Dispose
  PROVE  WorldInv(World', writes', granted')
<1>1. Become(ClearAll(World), {}) /\ granted' = granted
  BY DEF Dispose
<1>2. Calm(World, ClearAll(World))
  BY Here, ClearAllCalm
<1>3. WorldInv(ClearAll(World), writes, granted')
  BY <1>1, <1>2, CalmKeeps DEF PluginInv
<1>4. QED
  BY <1>1, <1>3, BecomeKeeps

LEMMA PluginNextInv ==
  ASSUME PluginInv, PluginNext
  PROVE  PluginInv'
<1> DEFINE Kept1 == WorldInv(World', writes', granted')
<1>1. ASSUME NEW x \in Transforms,
             WakeTransform(x) \/ Recorded(x) \/ \E s \in Working : StartTransform(x, s)
      PROVE  PluginInv'
  <2>1. Kept1
    BY <1>1, WakeTransformKeeps, RecordedKeeps, StartTransformKeeps
  <2>2. writes' = writes /\ granted' = granted
    BY <1>1 DEF WakeTransform, Recorded, StartTransform, Become
  <2>3. QED
    BY <2>1, <2>2 DEF PluginInv
<1>2. ASSUME NEW c \in Calls,
             \/ WakeCall(c) \/ UserAgrees(c) \/ UserDenies(c) \/ UserAborts(c)
             \/ \E s \in Working, q \in Tools : StartCall(c, s, q)
      PROVE  PluginInv'
  <2>1. Kept1
    BY <1>2, WakeCallKeeps, UserAgreesKeeps, UserDeniesKeeps, UserAbortsKeeps, StartCallKeeps
  <2>2. writes' = writes /\ DOMAIN granted' = DOMAIN granted
    BY <1>2 DEF WakeCall, UserAgrees, UserDenies, UserAborts, StartCall, Become
  <2>3. QED
    BY <2>1, <2>2 DEF PluginInv
<1>3. ASSUME NEW t \in Tasks, HostAnswers(t) \/ HostFails(t)
      PROVE  PluginInv'
  <2>1. Kept1
    BY <1>3, HostAnswersKeeps, HostFailsKeeps
  <2>2. writes' = writes /\ granted' = granted
    BY <1>3 DEF HostAnswers, HostFails, Become
  <2>3. QED
    BY <2>1, <2>2 DEF PluginInv
<1>4. ASSUME NEW s \in Sessions, NewMessage(s) \/ QuietCommand(s) \/ InspectCommand(s) \/ Compact(s)
      PROVE  PluginInv'
  <2>1. Kept1
    BY <1>4, SessionKeeps
  <2>2. writes' = writes /\ granted' = granted
    BY <1>4 DEF NewMessage, QuietCommand, InspectCommand, Compact, Become
  <2>3. QED
    BY <2>1, <2>2 DEF PluginInv
<1>5. ASSUME NEW i \in Slots, BridgeStep(i)
      PROVE  PluginInv'
  <2>1. Kept1
    BY <1>5, BridgeKeeps DEF PluginInv
  <2>2. DOMAIN writes' = DOMAIN writes /\ granted' = granted
    BY <1>5 DEF BridgeStep, others, Bridge, Handshake, Unlaunched, Commits, Succeeds, Rejects,
                Crashes, Deadline, Closes
  <2>3. QED
    BY <2>1, <2>2 DEF PluginInv
<1>6. ASSUME Dispose
      PROVE  PluginInv'
  <2>1. Kept1
    BY <1>6, DisposeKeeps
  <2>2. writes' = writes /\ granted' = granted
    BY <1>6 DEF Dispose, Become
  <2>3. QED
    BY <2>1, <2>2 DEF PluginInv
<1>7. QED
  BY <1>1, <1>2, <1>3, <1>4, <1>5, <1>6 DEF PluginNext

\* In every reachable state each call stands where it should with its one
\* write: nothing yet, a request that may commit what was granted, or the
\* receipt for it (src/plugin/operations.js, src/plugin/bridge.js).
THEOREM PluginInvariant == PluginSpec => []PluginInv
<1>1. PluginInit => PluginInv
  BY PluginInitInv
<1>2. PluginInv /\ [PluginNext]_pluginVars => PluginInv'
  <2>1. PluginInv /\ UNCHANGED pluginVars => PluginInv'
    BY DEF pluginVars, memory, host, PluginInv, World
  <2>2. QED
    BY <2>1, PluginNextInv
<1>3. QED
  BY <1>1, <1>2, PTL DEF PluginSpec

\* In a state of the invariant a call has written at most once, and what was
\* granted in it.
LEMMA OneWrite ==
  ASSUME PluginInv, NEW c \in Calls
  PROVE  writes[c] \in {<<>>, <<granted[c]>>}
  BY DEF PluginInv, WorldInv, Stands, Says, WriteStands, Pcs, Writers

\* Whatever a call commits was granted in that call, for that repository, and
\* it commits once, however processes, aborts and timeouts interleave
\* (src/plugin/operations.js:35).
THEOREM OnlyGrantedWrites == PluginSpec => []WritesGranted
<1>1. PluginInv => WritesGranted
  <2> SUFFICES ASSUME PluginInv, NEW c \in Calls
               PROVE  /\ Len(writes[c]) <= 1
                      /\ \A k \in DOMAIN writes[c] : writes[c][k] = granted[c]
    BY DEF WritesGranted
  <2> HIDE DEF PluginInv
  <2>1. CASE writes[c] = <<>>
    BY <2>1
  <2>2. CASE writes[c] = <<granted[c]>>
    BY <2>2
  <2>3. QED
    BY <2>1, <2>2, OneWrite
<1>2. QED
  BY <1>1, PluginInvariant, PTL

\* What a call reports of its write is what happened: a refusal, a rejection
\* or a denial wrote nothing, and a receipt stands for one write
\* (src/plugin/operations.js, src/plugin/bridge.js:98).
THEOREM TruthfulReports == PluginSpec => []OutcomeTruthful
<1>1. PluginInv => OutcomeTruthful
  <2> SUFFICES ASSUME PluginInv, NEW c \in Calls, tasks[c].report # "none"
               PROVE  /\ tasks[c].report \in {"not_started", "denied", "rejected"} => writes[c] = <<>>
                      /\ tasks[c].report \in {"inserted", "committed"} => Len(writes[c]) = 1
    BY DEF OutcomeTruthful
  <2>1. Says(tasks[c], writes[c], granted[c])
    BY Here DEF PluginInv, WorldInv, Stands
  <2>2. QED
    BY <2>1 DEF Says
<1>2. QED
  BY <1>1, PluginInvariant, PTL
-----------------------------------------------------------------------------
(* The list of sessions.                                                   *)

\* Removing an element leaves the others, in their order.
LEMMA RemovedAt ==
  ASSUME NEW S, NEW s \in Seq(S), NEW i \in 1..Len(s)
  PROVE  /\ RemoveAt(s, i) \in Seq(S)
         /\ Len(RemoveAt(s, i)) = Len(s) - 1
         /\ \A k \in 1..(Len(s) - 1) : RemoveAt(s, i)[k] = IF k < i THEN s[k] ELSE s[k + 1]
<1> DEFINE a == SubSeq(s, 1, i - 1)
           b == SubSeq(s, i + 1, Len(s))
<1>1. a \in Seq(S) /\ b \in Seq(S) /\ Len(a) = i - 1 /\ Len(b) = Len(s) - i
  BY SubSeqProperties
<1>2. /\ \A k \in 1..(i - 1) : a[k] = s[k]
      /\ \A k \in 1..(Len(s) - i) : b[k] = s[i + k]
  BY SubSeqProperties
<1>3. RemoveAt(s, i) = a \o b
  BY DEF RemoveAt
<1> HIDE DEF a, b
<1>4. /\ a \o b \in Seq(S) /\ Len(a \o b) = Len(a) + Len(b)
      /\ \A k \in 1..(Len(a) + Len(b)) : (a \o b)[k] = IF k <= Len(a) THEN a[k] ELSE b[k - Len(a)]
  BY <1>1, ConcatProperties
<1>5. ASSUME NEW k \in 1..(Len(s) - 1)
      PROVE  (a \o b)[k] = IF k < i THEN s[k] ELSE s[k + 1]
  <2>1. ASSUME k < i
        PROVE  (a \o b)[k] = s[k]
    BY <1>1, <1>2, <1>4, <2>1
  <2>2. ASSUME ~(k < i)
        PROVE  (a \o b)[k] = s[k + 1]
    <3>1. k - Len(a) \in 1..(Len(s) - i) /\ i + (k - Len(a)) = k + 1
      BY <1>1, <2>2
    <3>2. b[k - Len(a)] = s[k + 1]
      BY <1>2, <3>1
    <3>3. QED
      BY <1>1, <1>4, <2>2, <3>2
  <2>3. QED
    BY <2>1, <2>2
<1>6. QED
  BY <1>1, <1>3, <1>4, <1>5

LEMMA RemovedFirst ==
  ASSUME NEW S, NEW s \in Seq(S), NEW e, \A j, k \in 1..Len(s) : s[j] = s[k] => j = k
  PROVE  \/ RemoveFirst(s, e) = s /\ e \notin ToSet(s)
         \/ \E i \in 1..Len(s) : s[i] = e /\ RemoveFirst(s, e) = RemoveAt(s, i)
<1>1. CASE \E i \in 1..Len(s) : s[i] = e
  <2> DEFINE I == {i \in 1..Len(s) : s[i] = e}
  <2>1. PICK i \in 1..Len(s) : s[i] = e
    BY <1>1
  <2>2. I = {i}
    BY <2>1
  <2> HIDE DEF I
  <2>3. Min(I) = i
    BY <2>1, <2>2 DEF Min
  <2>4. RemoveFirst(s, e) = RemoveAt(s, i)
    BY <1>1, <2>2, <2>3 DEF RemoveFirst, SelectInSeq, I
  <2>5. QED
    BY <2>1, <2>4
<1>2. CASE ~\E i \in 1..Len(s) : s[i] = e
  BY <1>2 DEF RemoveFirst, ToSet
<1>3. QED
  BY <1>1, <1>2

\* In a list without repetitions the element is gone and the others stay.
LEMMA Removed ==
  ASSUME NEW S, NEW s \in Seq(S), NEW e, \A j, k \in 1..Len(s) : s[j] = s[k] => j = k,
         NEW v, v = RemoveFirst(s, e)
  PROVE  /\ v \in Seq(S) /\ Len(v) <= Len(s)
         /\ e \in ToSet(s) => Len(v) = Len(s) - 1
         /\ ToSet(v) = ToSet(s) \ {e}
         /\ \A j, k \in 1..Len(v) : v[j] = v[k] => j = k
<1>1. CASE v = s /\ e \notin ToSet(s)
  BY <1>1
<1>2. CASE \E i \in 1..Len(s) : s[i] = e /\ v = RemoveAt(s, i)
  <2>1. PICK i \in 1..Len(s) : s[i] = e /\ v = RemoveAt(s, i)
    BY <1>2
  <2> DEFINE u == RemoveAt(s, i)
  <2>a. /\ u \in Seq(S) /\ Len(u) = Len(s) - 1
        /\ \A k \in 1..(Len(s) - 1) : u[k] = IF k < i THEN s[k] ELSE s[k + 1]
    BY RemovedAt
  <2> HIDE DEF u
  <2>2. /\ v \in Seq(S) /\ Len(v) = Len(s) - 1
        /\ \A k \in 1..(Len(s) - 1) : v[k] = IF k < i THEN s[k] ELSE s[k + 1]
    BY <2>1, <2>a DEF u
  <2> DEFINE n == Len(s)
             h(k) == IF k < i THEN k ELSE k + 1
  <2>3. n \in Nat /\ i \in 1..n
    BY <2>1
  <2>4. \A k \in 1..(n - 1) : h(k) \in 1..n /\ h(k) # i /\ v[k] = s[h(k)]
    BY <2>2, <2>3
  <2>5. \A j, k \in 1..(n - 1) : h(j) = h(k) => j = k
    BY <2>3
  <2>6. \A m \in 1..n : m # i => \E k \in 1..(n - 1) : h(k) = m
    <3> TAKE m \in 1..n
    <3> HAVE m # i
    <3>1. CASE m < i
      <4>1. m \in 1..(n - 1) /\ h(m) = m
        BY <2>3, <3>1
      <4>2. QED
        BY <4>1
    <3>2. CASE m > i
      <4>1. m - 1 \in 1..(n - 1) /\ h(m - 1) = m
        BY <2>3, <3>2
      <4>2. QED
        BY <4>1
    <3>3. QED
      BY <2>3, <3>1, <3>2
  <2> HIDE DEF h
  <2>7. \A j, k \in 1..Len(v) : v[j] = v[k] => j = k
    BY <2>2, <2>4, <2>5
  <2>8. ToSet(v) = ToSet(s) \ {e}
    <3>1. DOMAIN v = 1..(n - 1) /\ DOMAIN s = 1..n
      BY <2>2
    <3>2. \A x \in ToSet(v) : x \in ToSet(s) /\ x # e
      BY <2>1, <2>3, <2>4, <3>1 DEF ToSet
    <3>3. ASSUME NEW x \in ToSet(s), x # e
          PROVE  x \in ToSet(v)
      <4>1. PICK m \in 1..n : s[m] = x
        BY <3>1 DEF ToSet
      <4>2. PICK k \in 1..(n - 1) : h(k) = m
        BY <2>1, <2>6, <3>3, <4>1
      <4>3. v[k] = x
        BY <2>4, <4>1, <4>2
      <4>4. QED
        BY <3>1, <4>3 DEF ToSet
    <3>4. QED
      BY <2>1, <3>2, <3>3
  <2>9. QED
    BY <2>2, <2>3, <2>7, <2>8
<1>3. QED
  BY <1>1, <1>2, RemovedFirst

-----------------------------------------------------------------------------
(* Where the objects are.                                                  *)

In(w) == ToSet(w.sessions)

ObjectFields ==
  {"session", "directory", "targets", "aborted", "generation", "message", "terms", "cache", "resolving"}

\* The map lists objects of different sessions.
Listed(w) ==
  /\ DOMAIN w.objects = Objects
  /\ \A o \in Objects : DOMAIN w.objects[o] = ObjectFields
  /\ w.sessions \in Seq(Objects)
  /\ \A j, k \in 1..Len(w.sessions) :
       w.objects[w.sessions[j]].session = w.objects[w.sessions[k]].session => j = k
  /\ \A o \in In(w) : w.objects[o].session # Nothing

\* As many as it may.
Mapped(w) == Listed(w) /\ Len(w.sessions) <= MaxSessions

\* An object can be had for session s.
Spare(w) == \E o \in Objects : w.objects[o].session = Nothing
CanHold(w, s) == Held(w, s) # {} \/ Spare(w)

\* From w to v no object moved.
Same(w, v) ==
  /\ v.sessions = w.sessions /\ v.disposed = w.disposed
  /\ DOMAIN v.objects = Objects
  /\ \A o \in Objects :
       /\ DOMAIN v.objects[o] = ObjectFields
       /\ v.objects[o].session = w.objects[o].session
       /\ v.objects[o].generation = w.objects[o].generation

\* No object comes back or changes its session, and only those of the
\* sessions S were given a new generation.
Steady(w, v, S) ==
  /\ w.disposed => v.disposed
  /\ \A o \in Objects : w.objects[o].session # Nothing =>
       /\ v.objects[o].session = w.objects[o].session
       /\ o \in In(v) => o \in In(w)
       /\ o \in In(v) /\ w.objects[o].session \notin S =>
            v.objects[o].generation = w.objects[o].generation

LEMMA SteadyTwice ==
  ASSUME NEW u, NEW v, NEW w, NEW S, NEW T, Steady(u, v, S), Steady(v, w, T)
  PROVE  Steady(u, w, S \cup T)
  BY DEF Steady

LEMMA InListed ==
  ASSUME NEW w, Listed(w)
  PROVE  /\ In(w) \subseteq Objects
         /\ \A o, p \in In(w) : w.objects[o].session = w.objects[p].session => o = p
         /\ \A j, k \in 1..Len(w.sessions) : w.sessions[j] = w.sessions[k] => j = k
         /\ \A s : Held(w, s) \subseteq In(w)
         /\ DOMAIN w.sessions = 1..Len(w.sessions)
<1>1. w.sessions \in Seq(Objects)
  BY DEF Listed
<1>2. DOMAIN w.sessions = 1..Len(w.sessions) /\ \A k \in 1..Len(w.sessions) : w.sessions[k] \in Objects
  BY <1>1
<1>3. QED
  BY <1>2 DEF Listed, In, ToSet, Held

LEMMA SameMapped ==
  ASSUME NEW w, NEW v, Mapped(w), Same(w, v)
  PROVE  /\ Mapped(v) /\ \A S : Steady(w, v, S)
         /\ In(v) = In(w)
         /\ \A s : Held(v, s) = Held(w, s) /\ (CanHold(w, s) => CanHold(v, s))
         /\ Spare(w) => Spare(v)
<1>1. In(v) = In(w) /\ In(w) \subseteq Objects
  BY InListed DEF Mapped, Same, In
<1>2. \A s : Held(v, s) = Held(w, s)
  BY <1>1 DEF Same, Held, In
<1>3. Spare(w) => Spare(v)
  BY DEF Spare, Same
<1>4. Mapped(v)
  <2>1. v.sessions = w.sessions /\ w.sessions \in Seq(Objects)
    BY DEF Same, Mapped, Listed
  <2>2. \A k \in 1..Len(w.sessions) : w.sessions[k] \in Objects
    BY <2>1
  <2>3. QED
    BY <1>1, <2>1, <2>2 DEF Mapped, Listed, Same
<1>5. \A S : Steady(w, v, S)
  BY <1>1 DEF Steady, Same
<1>6. QED
  BY <1>1, <1>2, <1>3, <1>4, <1>5 DEF CanHold

LEMMA SameSteady ==
  ASSUME NEW w, NEW v, Same(w, v)
  PROVE  /\ In(v) = In(w) /\ \A S : Steady(w, v, S)
  BY DEF Same, In, Steady

LEMMA SameTwice ==
  ASSUME NEW u, NEW v, NEW w, Same(u, v), Same(v, w)
  PROVE  Same(u, w)
  BY DEF Same

LEMMA SameObjects ==
  ASSUME NEW w, NEW v, Mapped(w), v.objects = w.objects, v.sessions = w.sessions,
         v.disposed = w.disposed
  PROVE  Same(w, v)
  BY DEF Same, Mapped, Listed

OtherFields == {"directory", "targets", "aborted", "message", "terms", "cache", "resolving"}

\* One field of an object that says nothing of where it is.
LEMMA SameField ==
  ASSUME NEW w, NEW v, Mapped(w), v.sessions = w.sessions, v.disposed = w.disposed,
         NEW o, NEW f \in OtherFields, NEW e,
         v.objects = [w.objects EXCEPT ![o] = [@ EXCEPT ![f] = e]]
  PROVE  Same(w, v)
<1>1. /\ "session" \in ObjectFields /\ "generation" \in ObjectFields
      /\ f # "session" /\ f # "generation"
  BY DEF ObjectFields, OtherFields
<1>2. QED
  BY <1>1 DEF Same, Mapped, Listed

LEMMA ClearMapped ==
  ASSUME NEW w, Shape(w), Listed(w), NEW s, NEW v, v = Clear(w, s)
  PROVE  /\ Listed(v) /\ v.disposed = w.disposed
         /\ Len(v.sessions) <= Len(w.sessions)
         /\ Held(w, s) # {} => Len(v.sessions) = Len(w.sessions) - 1
         /\ In(v) = In(w) \ Held(w, s)
         /\ \A o \in Objects : /\ v.objects[o].session = w.objects[o].session
                               /\ v.objects[o].generation = w.objects[o].generation
<1>1. CASE Held(w, s) = {}
  BY <1>1 DEF Clear
<1>2. CASE Held(w, s) # {}
  <2> DEFINE o == CHOOSE o \in Held(w, s) : TRUE
             u == Abort(w, {o})
             list == RemoveFirst(w.sessions, o)
  <2>1. /\ v.objects = [u.objects EXCEPT ![o] = [@ EXCEPT !["aborted"] = TRUE]]
        /\ v.sessions = RemoveFirst(u.sessions, o)
        /\ v.disposed = u.disposed
    <3>1. DOMAIN u = {"objects", "sessions", "approvals", "disposed", "tasks", "requests"}
      BY DEF Abort, Shape
    <3> HIDE DEF u
    <3>2. v = [u EXCEPT !.objects[o].aborted = TRUE, !.sessions = RemoveFirst(@, o)]
      BY <1>2 DEF Clear, u
    <3> HIDE DEF o
    <3>3. QED
      BY <3>1, <3>2
  <2>2. u.objects = w.objects /\ u.sessions = w.sessions /\ u.disposed = w.disposed
    BY DEF Abort, Shape
  <2>3. o \in Held(w, s)
    BY <1>2
  <2>4. /\ In(w) \subseteq Objects /\ Held(w, s) \subseteq In(w)
        /\ \A p \in In(w) : p \in Held(w, s) => p = o
    BY <2>3, InListed DEF Held, In
  <2> HIDE DEF o, u
  <2>5. /\ DOMAIN v.objects = Objects
        /\ \A p \in Objects : /\ DOMAIN v.objects[p] = ObjectFields
                              /\ v.objects[p].session = w.objects[p].session
                              /\ v.objects[p].generation = w.objects[p].generation
    BY <2>1, <2>2 DEF Listed, ObjectFields
  <2>6. /\ list \in Seq(Objects) /\ Len(list) <= Len(w.sessions)
        /\ o \in ToSet(w.sessions) => Len(list) = Len(w.sessions) - 1
        /\ ToSet(list) = ToSet(w.sessions) \ {o}
        /\ \A j, k \in 1..Len(list) : list[j] = list[k] => j = k
    <3>1. w.sessions \in Seq(Objects)
      BY DEF Listed
    <3>2. \A j, k \in 1..Len(w.sessions) : w.sessions[j] = w.sessions[k] => j = k
      BY InListed
    <3> HIDE DEF list
    <3>3. QED
      BY <3>1, <3>2, Removed DEF list
  <2>7. v.sessions = list
    BY <2>1, <2>2
  <2> HIDE DEF list
  <2>8. In(v) = In(w) \ {o}
    BY <2>6, <2>7 DEF In
  <2>9. \A j, k \in 1..Len(list) : v.objects[list[j]].session = v.objects[list[k]].session => j = k
    <3>1. \A k \in 1..Len(list) : list[k] \in In(w)
      <4>1. DOMAIN list = 1..Len(list)
        BY <2>6
      <4>2. \A k \in 1..Len(list) : list[k] \in ToSet(list)
        BY <4>1 DEF ToSet
      <4>3. QED
        BY <2>6, <4>2 DEF In
    <3>2. QED
      BY <2>4, <2>5, <2>6, <3>1, InListed
  <2>10. \A p \in In(v) : v.objects[p].session # Nothing
    BY <2>4, <2>5, <2>8 DEF Listed
  <2>11. Listed(v)
    BY <2>5, <2>6, <2>7, <2>9, <2>10 DEF Listed
  <2>12. In(v) = In(w) \ Held(w, s)
    BY <2>3, <2>4, <2>8
  <2>13. Len(v.sessions) = Len(w.sessions) - 1
    BY <2>3, <2>4, <2>6, <2>7 DEF In
  <2>14. Len(w.sessions) \in Nat
    BY DEF Listed
  <2>15. QED
    BY <2>1, <2>2, <2>5, <2>11, <2>12, <2>13, <2>14
<1>3. QED
  BY <1>1, <1>2

LEMMA HeldOnce ==
  ASSUME NEW w, Listed(w), NEW s, NEW o \in Held(w, s)
  PROVE  /\ Held(w, s) = {o} /\ o \in In(w) /\ o \in Objects
         /\ w.objects[o].session = s
  BY InListed DEF Held, In

\* stateFor: the latest object is now the session's, and the oldest may be
\* gone.
LEMMA StateForMapped ==
  ASSUME NEW w, Shape(w), Mapped(w), NEW s, s # Nothing, CanHold(w, s),
         NEW v, v = StateFor(w, s)
  PROVE  /\ Mapped(v) /\ v.disposed = w.disposed
         /\ Steady(w, v, {})
         /\ Latest(v) \in In(v) /\ Latest(v) \in Objects
         /\ v.objects[Latest(v)].session = s
         /\ CanHold(v, s)
         /\ Held(w, s) # {} => In(v) = In(w) /\ Latest(v) \in Held(w, s)
         /\ Held(w, s) # {} => \A p \in Objects : v.objects[p] = w.objects[p]
         /\ Held(w, s) = {} => Latest(v) = Unused(w) /\ In(v) \subseteq In(w) \cup {Unused(w)}
<1> DEFINE found == Held(w, s)
           o == IF found = {} THEN Unused(w) ELSE CHOOSE x \in found : TRUE
           list == RemoveFirst(w.sessions, o)
           object == IF found = {} THEN NewObject(s) ELSE w.objects[o]
           moved == [w EXCEPT !.sessions = Append(RemoveFirst(@, o), o),
                              !.objects[o] = IF found = {} THEN NewObject(s) ELSE @]
<1>1. v = IF Len(moved.sessions) > MaxSessions
          THEN Clear(moved, moved.objects[Head(moved.sessions)].session) ELSE moved
  BY DEF StateFor
<1>2. o \in Objects
  <2>1. CASE found = {}
    BY <2>1 DEF CanHold, Spare, Unused
  <2>2. CASE found # {}
    BY <2>2, HeldOnce DEF Mapped
  <2>3. QED
    BY <2>1, <2>2
<1>3. found = {} => w.objects[o].session = Nothing /\ o \notin In(w)
  <2>1. found = {} => w.objects[o].session = Nothing
    BY DEF CanHold, Spare, Unused
  <2>2. QED
    BY <2>1 DEF Mapped, Listed
<1>4. found # {} => found = {o} /\ o \in In(w) /\ w.objects[o].session = s
  BY HeldOnce DEF Mapped
<1>5. /\ moved.sessions = Append(list, o)
      /\ moved.objects = [w.objects EXCEPT ![o] = object]
      /\ moved.disposed = w.disposed /\ Shape(moved)
  <2> HIDE DEF o, found
  <2>1. /\ moved.sessions = Append(list, o)
        /\ moved.objects = [w.objects EXCEPT ![o] = object]
        /\ moved.disposed = w.disposed
        /\ moved.tasks = w.tasks /\ moved.requests = w.requests /\ DOMAIN moved = DOMAIN w
    BY DEF Shape
  <2> HIDE DEF moved
  <2>2. QED
    BY <2>1, OthersCalm DEF Calm
<1>6. /\ DOMAIN object = ObjectFields /\ object.session = s
      /\ found # {} => object = w.objects[o]
  BY <1>2, <1>4 DEF Mapped, Listed, NewObject, ObjectFields
<1> HIDE DEF moved, object, found, o
<1>7. /\ DOMAIN moved.objects = Objects
      /\ \A p \in Objects : /\ DOMAIN moved.objects[p] = ObjectFields
                            /\ p # o => moved.objects[p] = w.objects[p]
      /\ moved.objects[o].session = s
      /\ found # {} => moved.objects[o] = w.objects[o]
  BY <1>2, <1>5, <1>6 DEF Mapped, Listed
<1>8. /\ w.sessions \in Seq(Objects)
      /\ \A j, k \in 1..Len(w.sessions) : w.sessions[j] = w.sessions[k] => j = k
  BY InListed DEF Mapped, Listed
<1>9. /\ list \in Seq(Objects) /\ Len(list) <= Len(w.sessions)
      /\ o \in In(w) => Len(list) = Len(w.sessions) - 1
      /\ ToSet(list) = In(w) \ {o}
      /\ \A j, k \in 1..Len(list) : list[j] = list[k] => j = k
  BY <1>8, Removed DEF In
<1> HIDE DEF list
<1>10. /\ moved.sessions \in Seq(Objects) /\ Len(moved.sessions) = Len(list) + 1
       /\ moved.sessions[Len(list) + 1] = o
       /\ \A k \in 1..Len(list) : moved.sessions[k] = list[k]
       /\ DOMAIN moved.sessions = 1..(Len(list) + 1)
       /\ Len(list) \in Nat /\ DOMAIN list = 1..Len(list)
  BY <1>2, <1>5, <1>9
<1>11. In(moved) = In(w) \cup {o}
  <2>1. \A p \in In(moved) : p \in ToSet(list) \cup {o}
    BY <1>10 DEF In, ToSet
  <2>2. \A p \in ToSet(list) \cup {o} : p \in In(moved)
    BY <1>10 DEF In, ToSet
  <2>3. QED
    BY <1>9, <2>1, <2>2
<1>12. \A p \in In(w) \ {o} : w.objects[p].session # s
  <2>1. CASE found = {}
    BY <2>1 DEF found, Held, In
  <2>2. CASE found # {}
    BY <2>2, <1>4, InListed DEF Mapped
  <2>3. QED
    BY <2>1, <2>2
<1>13. Listed(moved)
  <2>1. \A k \in 1..Len(list) : list[k] \in In(w) /\ list[k] # o
    BY <1>9, <1>10 DEF ToSet
  <2>2. ASSUME NEW j \in 1..(Len(list) + 1), NEW k \in 1..(Len(list) + 1),
               moved.objects[moved.sessions[j]].session = moved.objects[moved.sessions[k]].session
        PROVE  j = k
    <3>1. \A i \in 1..Len(list) : moved.objects[moved.sessions[i]].session = w.objects[list[i]].session
      BY <1>7, <1>10, <2>1, InListed DEF Mapped
    <3>2. \A i \in 1..Len(list) : w.objects[list[i]].session # s
      BY <1>12, <2>1
    <3>3. moved.objects[moved.sessions[Len(list) + 1]].session = s
      BY <1>7, <1>10
    <3>4. CASE j \in 1..Len(list) /\ k \in 1..Len(list)
      <4>1. w.objects[list[j]].session = w.objects[list[k]].session
        BY <2>2, <3>1, <3>4
      <4>2. list[j] = list[k]
        BY <2>1, <3>4, <4>1, InListed DEF Mapped
      <4>3. QED
        BY <1>9, <3>4, <4>2
    <3>5. CASE j = Len(list) + 1 \/ k = Len(list) + 1
      <4>1. j \in 1..Len(list) \/ j = Len(list) + 1
        BY <1>10
      <4>2. k \in 1..Len(list) \/ k = Len(list) + 1
        BY <1>10
      <4>3. QED
        BY <2>2, <3>1, <3>2, <3>3, <3>5, <4>1, <4>2
    <3>6. QED
      BY <1>10, <3>4, <3>5
  <2>3. \A p \in In(moved) : moved.objects[p].session # Nothing
    BY <1>7, <1>11, InListed DEF Mapped, Listed
  <2>4. QED
    BY <1>7, <1>10, <2>2, <2>3 DEF Listed
<1>14. CASE found # {}
  <2>1. Len(moved.sessions) = Len(w.sessions) /\ Len(w.sessions) \in Nat
    BY <1>4, <1>8, <1>9, <1>10, <1>14
  <2>2. v = moved
    BY <1>1, <2>1, SessionsAssumption DEF Mapped
  <2>3. Latest(v) = o /\ In(v) = In(w)
    BY <1>4, <1>10, <1>11, <1>14, <2>2 DEF Latest, Last
  <2>4. Mapped(v)
    BY <1>13, <2>1, <2>2 DEF Mapped
  <2>5. \A p \in Objects : moved.objects[p] = w.objects[p]
    BY <1>7, <1>14
  <2>6. Steady(w, v, {})
    BY <1>5, <2>2, <2>3, <2>5 DEF Steady
  <2>7. v.objects[o].session = s
    BY <1>7, <2>2
  <2>8. QED
    BY <1>2, <1>4, <1>5, <1>14, <2>2, <2>3, <2>4, <2>5, <2>6, <2>7 DEF found, CanHold, Held, In
<1>15. CASE found = {}
  <2>0. o = Unused(w)
    BY <1>15 DEF o
  <2>1. o \notin In(w) /\ w.objects[o].session = Nothing
    BY <1>3, <1>15
  <2>2. Len(moved.sessions) <= MaxSessions + 1 /\ Len(moved.sessions) \in Nat
    BY <1>8, <1>9, <1>10, SessionsAssumption DEF Mapped
  <2> DEFINE h == Head(moved.sessions)
             r == moved.objects[h].session
             u == Clear(moved, r)
  <2>3. Latest(moved) = o
    BY <1>10 DEF Latest, Last
  <2>4. Steady(w, moved, {})
    BY <1>2, <1>5, <1>7, <1>11, <2>1 DEF Steady
  <2>5. CASE Len(moved.sessions) > MaxSessions
    <3>1. h = moved.sessions[1] /\ Len(list) >= 1
      BY <1>10, <2>2, <2>5, SessionsAssumption
    <3>2. h \in In(moved) /\ h # o
      <4>1. h = list[1] /\ 1 \in 1..Len(list)
        BY <1>10, <3>1
      <4>2. h \in ToSet(list)
        BY <1>10, <4>1 DEF ToSet
      <4>3. QED
        BY <1>9, <1>11, <4>2
    <3>3. h \in Held(moved, r) /\ o \notin Held(moved, r)
      BY <1>7, <1>12, <1>9, <1>10, <1>11, <3>1, <3>2, HeldOnce, <1>13 DEF Held, In
    <3>4. /\ Listed(u) /\ u.disposed = moved.disposed
          /\ Len(u.sessions) = Len(moved.sessions) - 1
          /\ In(u) = In(moved) \ Held(moved, r)
          /\ \A p \in Objects : /\ u.objects[p].session = moved.objects[p].session
                                /\ u.objects[p].generation = moved.objects[p].generation
      <4>1. Held(moved, r) # {} /\ Shape(moved)
        BY <1>5, <3>3
      <4> HIDE DEF r
      <4> DEFINE u1 == Clear(moved, r)
      <4>2. u1 = Clear(moved, r)
        OBVIOUS
      <4> HIDE DEF u1
      <4>3. /\ Listed(u1) /\ u1.disposed = moved.disposed
            /\ Len(u1.sessions) = Len(moved.sessions) - 1
            /\ In(u1) = In(moved) \ Held(moved, r)
            /\ \A p \in Objects : /\ u1.objects[p].session = moved.objects[p].session
                                  /\ u1.objects[p].generation = moved.objects[p].generation
        BY <1>13, <4>1, <4>2, ClearMapped
      <4>4. QED
        BY <4>3 DEF u1
    <3>5. v = u
      BY <1>1, <2>5
    <3>6. Latest(u) = o
      <4>1. moved.sessions[Len(moved.sessions)] = o /\ Held(moved, r) = {h}
        BY <1>10, <1>13, <3>3, HeldOnce
      <4>2. u.sessions = RemoveFirst(moved.sessions, h)
        <5>1. (CHOOSE p \in Held(moved, r) : TRUE) = h
          BY <4>1
        <5>2. Held(moved, r) # {}
          BY <4>1
        <5> DEFINE z == Abort(moved, {h})
        <5> HIDE DEF r, h
        <5>3. u = [z EXCEPT !.objects[h].aborted = TRUE, !.sessions = RemoveFirst(@, h)]
          BY <5>1, <5>2 DEF Clear
        <5>4. z.sessions = moved.sessions /\ "sessions" \in DOMAIN z
          BY <1>5 DEF Abort, Shape
        <5> HIDE DEF z, u
        <5>5. QED
          BY <5>3, <5>4
      <4>3. PICK i \in 1..Len(moved.sessions) :
              moved.sessions[i] = h /\ u.sessions = RemoveAt(moved.sessions, i)
        <5>1. \A j, k \in 1..Len(moved.sessions) : moved.sessions[j] = moved.sessions[k] => j = k
          BY <1>13, InListed
        <5>2. h \in ToSet(moved.sessions)
          BY <3>2 DEF In
        <5> HIDE DEF h, u
        <5>3. QED
          BY <1>10, <4>2, <5>1, <5>2, RemovedFirst
      <4>4. i # Len(moved.sessions) /\ i < Len(moved.sessions)
        BY <3>2, <4>1, <4>3, <2>2
      <4>5. u.sessions[Len(moved.sessions) - 1] = moved.sessions[Len(moved.sessions)]
        <5> DEFINE n == Len(moved.sessions)
        <5>1. \A k \in 1..(n - 1) : RemoveAt(moved.sessions, i)[k] =
                 IF k < i THEN moved.sessions[k] ELSE moved.sessions[k + 1]
          BY <1>10, RemovedAt
        <5>2. n - 1 \in 1..(n - 1) /\ ~(n - 1 < i) /\ n - 1 + 1 = n
          BY <2>2, <4>4
        <5> HIDE DEF n, u
        <5>3. QED
          BY <4>3, <5>1, <5>2 DEF n
      <4>6. QED
        BY <3>4, <4>1, <4>5 DEF Latest, Last
    <3>7. Steady(moved, u, {})
      BY <3>4 DEF Steady
    <3> HIDE DEF u
    <3>8. Steady(w, v, {})
      BY <2>4, <3>5, <3>7, SteadyTwice
    <3>9. Mapped(v)
      BY <2>2, <3>4, <3>5, SessionsAssumption DEF Mapped
    <3>10. Latest(v) = o /\ o \in In(v) /\ v.objects[o].session = s
      BY <1>2, <1>7, <1>11, <3>3, <3>4, <3>5, <3>6
    <3>11. QED
      BY <1>2, <1>5, <1>11, <1>15, <2>0, <3>4, <3>5, <3>8, <3>9, <3>10 DEF found, CanHold, Held, In
  <2>6. CASE ~(Len(moved.sessions) > MaxSessions)
    <3>1. v = moved
      BY <1>1, <2>6
    <3>2. Mapped(v)
      BY <1>13, <2>2, <2>6, <3>1, SessionsAssumption DEF Mapped
    <3>3. QED
      BY <1>2, <1>5, <1>7, <1>11, <1>15, <2>0, <2>3, <2>4, <3>1, <3>2 DEF found, CanHold, Held, In
  <2>7. QED
    BY <2>5, <2>6
<1>16. QED
  BY <1>14, <1>15

\* A world in which only object o may have a new generation.
Renewed(w, v, o) ==
  /\ v.sessions = w.sessions /\ v.disposed = w.disposed
  /\ DOMAIN v.objects = Objects
  /\ \A p \in Objects :
       /\ DOMAIN v.objects[p] = ObjectFields
       /\ v.objects[p].session = w.objects[p].session
       /\ p # o => v.objects[p].generation = w.objects[p].generation

LEMMA RenewedMapped ==
  ASSUME NEW w, NEW v, NEW o \in Objects, Mapped(w), Renewed(w, v, o), NEW s,
         w.objects[o].session = s
  PROVE  /\ Mapped(v) /\ Steady(w, v, {s})
         /\ In(v) = In(w)
         /\ \A r : Held(v, r) = Held(w, r) /\ (CanHold(w, r) => CanHold(v, r))
         /\ Spare(w) => Spare(v)
<1>1. In(v) = In(w) /\ In(w) \subseteq Objects
  BY InListed DEF Mapped, Renewed, In
<1>2. \A r : Held(v, r) = Held(w, r)
  BY <1>1 DEF Renewed, Held, In
<1>3. Spare(w) => Spare(v)
  BY DEF Spare, Renewed
<1>4. Mapped(v)
  <2>1. v.sessions = w.sessions /\ w.sessions \in Seq(Objects)
    BY DEF Renewed, Mapped, Listed
  <2>2. \A k \in 1..Len(w.sessions) : w.sessions[k] \in Objects
    BY <2>1
  <2>3. QED
    BY <1>1, <2>1, <2>2 DEF Mapped, Listed, Renewed
<1>5. Steady(w, v, {s})
  BY <1>1 DEF Steady, Renewed
<1>6. QED
  BY <1>1, <1>2, <1>3, <1>4, <1>5 DEF CanHold

LEMMA InvalidateRenewed ==
  ASSUME NEW w, Shape(w), Mapped(w), NEW o
  PROVE  Renewed(w, Invalidate(w, o), o)
<1> DEFINE u == Abort(w, {o})
           v == Invalidate(w, o)
<1>1. u.objects = w.objects /\ u.sessions = w.sessions /\ u.disposed = w.disposed
  BY DEF Abort, Shape
<1>2. DOMAIN u = {"objects", "sessions", "approvals", "disposed", "tasks", "requests"}
  BY DEF Abort, Shape
<1>3. v = [u EXCEPT !.objects[o] = Renewal(@)]
  BY DEF Invalidate
<1> HIDE DEF u, v
<1>4. /\ v.sessions = w.sessions /\ v.disposed = w.disposed
      /\ v.objects = [w.objects EXCEPT ![o] = Renewal(@)]
  BY <1>1, <1>2, <1>3
<1>5. QED
  BY <1>4 DEF Renewed, Renewal, Mapped, Listed, ObjectFields, v

\* What a world needs of another that came from it by operators on one
\* session s.
Within(w, v, s, S) ==
  /\ Mapped(v) /\ v.disposed = w.disposed
  /\ Steady(w, v, S)
  /\ CanHold(v, s)
  /\ Held(w, s) # {} => In(v) = In(w)

\* What a session that holds no object does is no change to one that has.
LEMMA UnheldWithin ==
  ASSUME NEW w, NEW v, NEW s, Within(w, v, s, {s}), Held(w, s) = {}, NEW S
  PROVE  Within(w, v, s, S)
<1>1. ASSUME NEW o \in Objects, o \in In(w)
      PROVE  w.objects[o].session # s
  BY <1>1 DEF Held, In
<1>2. Steady(w, v, S)
  BY <1>1 DEF Within, Steady
<1>3. QED
  BY <1>2 DEF Within

\* A message given to an object.
LEMMA LabelSame ==
  ASSUME NEW w, Shape(w), Mapped(w), NEW o, NEW m, NEW v, v = [w EXCEPT !.objects[o].message = m]
  PROVE  Same(w, v) /\ Calm(w, v)
<1> DEFINE g == [w.objects[o] EXCEPT !.message = m]
<1>1. /\ v.objects = [w.objects EXCEPT ![o] = g]
      /\ v.sessions = w.sessions /\ v.disposed = w.disposed
      /\ v.tasks = w.tasks /\ v.requests = w.requests /\ DOMAIN v = DOMAIN w
  BY DEF Shape
<1>2. o \in Objects =>
        /\ DOMAIN g = ObjectFields /\ g.session = w.objects[o].session
        /\ g.generation = w.objects[o].generation
  BY DEF Mapped, Listed, ObjectFields
<1> HIDE DEF g
<1>3. Same(w, v)
  BY <1>1, <1>2 DEF Same, Mapped, Listed
<1>4. QED
  BY <1>1, <1>3, OthersCalm

\* And terms.
LEMMA TermsSame ==
  ASSUME NEW w, Shape(w), Mapped(w), NEW o, NEW m, NEW v, v = [w EXCEPT !.objects[o].terms = m]
  PROVE  Same(w, v) /\ Calm(w, v)
<1> DEFINE g == [w.objects[o] EXCEPT !.terms = m]
<1>1. /\ v.objects = [w.objects EXCEPT ![o] = g]
      /\ v.sessions = w.sessions /\ v.disposed = w.disposed
      /\ v.tasks = w.tasks /\ v.requests = w.requests /\ DOMAIN v = DOMAIN w
  BY DEF Shape
<1>2. o \in Objects =>
        /\ DOMAIN g = ObjectFields /\ g.session = w.objects[o].session
        /\ g.generation = w.objects[o].generation
  BY DEF Mapped, Listed, ObjectFields
<1> HIDE DEF g
<1>3. Same(w, v)
  BY <1>1, <1>2 DEF Same, Mapped, Listed
<1>4. QED
  BY <1>1, <1>3, OthersCalm

\* Both, as capture does.
LEMMA CapturedSame ==
  ASSUME NEW w, Shape(w), Mapped(w), NEW o, NEW n,
         NEW v, v = [[w EXCEPT !.objects[o].message = n] EXCEPT !.objects[o].terms = n]
  PROVE  Same(w, v)
<1> DEFINE u == [w EXCEPT !.objects[o].message = n]
<1>1. Same(w, u) /\ Calm(w, u)
  BY LabelSame
<1>2. v = [u EXCEPT !.objects[o].terms = n]
  OBVIOUS
<1> HIDE DEF u
<1>3. Shape(u) /\ Mapped(u)
  BY <1>1, SameMapped DEF Calm
<1>4. Same(u, v)
  BY <1>2, <1>3, TermsSame
<1>5. QED
  BY <1>1, <1>4, SameTwice

LEMMA CaptureWithin ==
  ASSUME NEW w, Shape(w), Mapped(w), NEW s, s # Nothing, CanHold(w, s), NEW n
  PROVE  Within(w, Capture(w, s, n), s, {s})
<1> DEFINE w1 == StateFor(w, s)
           o == Latest(w1)
           w2 == IF w1.objects[o].message # n THEN Invalidate(w1, o) ELSE w1
           w3 == [w2 EXCEPT !.objects[o].message = n]
           w4 == [w3 EXCEPT !.objects[o].terms = n]
<1>1. /\ Mapped(w1) /\ w1.disposed = w.disposed /\ Steady(w, w1, {}) /\ Shape(w1)
      /\ w1.objects[o].session = s /\ o \in Objects /\ CanHold(w1, s)
      /\ Held(w, s) # {} => In(w1) = In(w)
  BY StateForMapped, StateForCalm DEF Calm
<1>2. Capture(w, s, n) = w4
  BY DEF Capture
<1> HIDE DEF w1, o
<1>3. Shape(w2) /\ Renewed(w1, w2, o)
  <2>1. Renewed(w1, w1, o)
    BY <1>1 DEF Renewed, Mapped, Listed
  <2>2. Renewed(w1, Invalidate(w1, o), o) /\ Shape(Invalidate(w1, o))
    BY <1>1, InvalidateRenewed, InvalidateCalm DEF Calm
  <2>3. w2 \in {w1, Invalidate(w1, o)}
    OBVIOUS
  <2> HIDE DEF w2
  <2>4. QED
    BY <1>1, <2>1, <2>2, <2>3
<1> HIDE DEF w2
<1>4. /\ Mapped(w2) /\ Steady(w1, w2, {s}) /\ In(w2) = In(w1)
      /\ CanHold(w2, s) /\ w2.disposed = w.disposed
  <2>1. Mapped(w2) /\ Steady(w1, w2, {s}) /\ In(w2) = In(w1) /\ (CanHold(w1, s) => CanHold(w2, s))
    BY <1>1, <1>3, RenewedMapped
  <2>2. QED
    BY <1>1, <1>3, <2>1 DEF Renewed
<1>6. w4 = [[w2 EXCEPT !.objects[o].message = n] EXCEPT !.objects[o].terms = n]
  OBVIOUS
<1> HIDE DEF w3, w4
<1>7. /\ Same(w2, w4) /\ Mapped(w4) /\ Steady(w2, w4, {}) /\ In(w4) = In(w2)
      /\ CanHold(w2, s) => CanHold(w4, s)
  <2>1. Shape(w2) /\ Mapped(w2)
    BY <1>3, <1>4
  <2>2. Same(w2, w4)
    BY <1>6, <2>1, CapturedSame
  <2>3. QED
    BY <2>1, <2>2, SameMapped
<1>8. Steady(w, w4, {s})
  <2>1. Steady(w, w2, {} \cup {s})
    BY <1>1, <1>4, SteadyTwice
  <2>2. Steady(w, w4, ({} \cup {s}) \cup {})
    BY <1>7, <2>1, SteadyTwice
  <2>3. ({} \cup {s}) \cup {} = {s}
    OBVIOUS
  <2>4. QED
    BY <2>2, <2>3
<1>9. w4.disposed = w.disposed
  BY <1>4, <1>7 DEF Same
<1>10. QED
  BY <1>1, <1>2, <1>4, <1>7, <1>8, <1>9 DEF Within

LEMMA WithinSame ==
  ASSUME NEW u, NEW v, NEW w, NEW s, NEW S, Within(u, v, s, S), Same(v, w)
  PROVE  Within(u, w, s, S)
<1>1. Mapped(w) /\ Steady(v, w, {}) /\ In(w) = In(v) /\ (CanHold(v, s) => CanHold(w, s))
  BY SameMapped DEF Within
<1>2. Steady(u, w, S \cup {})
  BY <1>1, SteadyTwice DEF Within
<1>3. S \cup {} = S
  OBVIOUS
<1>4. w.disposed = v.disposed
  BY DEF Same
<1>5. QED
  BY <1>1, <1>2, <1>3, <1>4 DEF Within

LEMMA StateForWithin ==
  ASSUME NEW w, Shape(w), Mapped(w), NEW s, s # Nothing, CanHold(w, s), NEW v, v = StateFor(w, s)
  PROVE  /\ Within(w, v, s, {}) /\ Calm(w, v)
         /\ Held(v, s) # {}
         /\ Latest(v) \in In(v) /\ Latest(v) \in Objects /\ v.objects[Latest(v)].session = s
<1>1. /\ Mapped(v) /\ v.disposed = w.disposed /\ Steady(w, v, {}) /\ CanHold(v, s)
      /\ Latest(v) \in In(v) /\ Latest(v) \in Objects /\ v.objects[Latest(v)].session = s
      /\ Held(w, s) # {} => In(v) = In(w)
  BY StateForMapped
<1>2. Calm(w, v)
  BY StateForCalm
<1>3. QED
  BY <1>1, <1>2 DEF Within, Held, In

\* A session whose object has the message already.
LEMMA CaptureKeeps ==
  ASSUME NEW w, Shape(w), Mapped(w), NEW s, s # Nothing, CanHold(w, s), NEW n,
         \A p \in Held(w, s) : w.objects[p].message = n
  PROVE  Within(w, Capture(w, s, n), s, {})
<1> DEFINE w1 == StateFor(w, s)
           o == Latest(w1)
           w2 == IF w1.objects[o].message # n THEN Invalidate(w1, o) ELSE w1
           w4 == [[w2 EXCEPT !.objects[o].message = n] EXCEPT !.objects[o].terms = n]
<1>1. CASE Held(w, s) = {}
  BY <1>1, CaptureWithin, UnheldWithin
<1>2. CASE Held(w, s) # {}
  <2>1. /\ Within(w, w1, s, {}) /\ Calm(w, w1)
        /\ o \in Held(w, s) /\ o \in Objects
        /\ \A p \in Objects : w1.objects[p] = w.objects[p]
    BY <1>2, StateForMapped, StateForWithin
  <2>2. Capture(w, s, n) = w4
    BY DEF Capture
  <2>3. w2 = w1
    BY <2>1
  <2>4. w4 = [[w1 EXCEPT !.objects[o].message = n] EXCEPT !.objects[o].terms = n]
    BY <2>3
  <2> HIDE DEF w1, o, w2, w4
  <2>5. Same(w1, w4)
    <3>1. Shape(w1) /\ Mapped(w1)
      BY <2>1 DEF Calm, Within
    <3>2. QED
      BY <2>4, <3>1, CapturedSame
  <2>6. QED
    BY <2>1, <2>2, <2>5, WithinSame
<1>3. QED
  BY <1>1, <1>2

LEMMA CaptureQuietWithin ==
  ASSUME NEW w, Shape(w), Mapped(w), NEW s, s # Nothing, CanHold(w, s)
  PROVE  Within(w, CaptureQuiet(w, s), s, {s})
<1> DEFINE w1 == StateFor(w, s)
           o == Latest(w1)
           w2 == Invalidate(w1, o)
           w3 == [w2 EXCEPT !.objects[o].message = Label]
<1>1. /\ Mapped(w1) /\ w1.disposed = w.disposed /\ Steady(w, w1, {}) /\ Shape(w1)
      /\ w1.objects[o].session = s /\ o \in Objects /\ CanHold(w1, s)
      /\ Held(w, s) # {} => In(w1) = In(w)
  BY StateForMapped, StateForCalm DEF Calm
<1>2. CaptureQuiet(w, s) = w3
  BY DEF CaptureQuiet
<1> HIDE DEF w1, o
<1>3. Shape(w2) /\ Renewed(w1, w2, o)
  BY <1>1, InvalidateRenewed, InvalidateCalm DEF Calm
<1> HIDE DEF w2
<1>4. /\ Mapped(w2) /\ Steady(w1, w2, {s}) /\ In(w2) = In(w1)
      /\ CanHold(w2, s) /\ w2.disposed = w.disposed
  <2>1. Mapped(w2) /\ Steady(w1, w2, {s}) /\ In(w2) = In(w1) /\ (CanHold(w1, s) => CanHold(w2, s))
    BY <1>1, <1>3, RenewedMapped
  <2>2. QED
    BY <1>1, <1>3, <2>1 DEF Renewed
<1>5. Same(w2, w3)
  <2>1. /\ w3.objects = [w2.objects EXCEPT ![o] = [@ EXCEPT !["message"] = Label]]
        /\ w3.sessions = w2.sessions /\ w3.disposed = w2.disposed
    BY <1>3 DEF Shape
  <2> HIDE DEF w3
  <2>2. QED
    BY <1>4, <2>1 DEF Same, Mapped, Listed, ObjectFields
<1> HIDE DEF w3
<1>6. /\ Mapped(w3) /\ Steady(w2, w3, {}) /\ In(w3) = In(w2)
      /\ CanHold(w2, s) => CanHold(w3, s)
  BY <1>4, <1>5, SameMapped
<1>7. Steady(w, w3, {s})
  <2>1. Steady(w, w2, {} \cup {s})
    BY <1>1, <1>4, SteadyTwice
  <2>2. Steady(w, w3, ({} \cup {s}) \cup {})
    BY <1>6, <2>1, SteadyTwice
  <2>3. ({} \cup {s}) \cup {} = {s}
    OBVIOUS
  <2>4. QED
    BY <2>2, <2>3
<1>8. w3.disposed = w.disposed
  BY <1>4, <1>5 DEF Same
<1>9. QED
  BY <1>1, <1>2, <1>4, <1>6, <1>7, <1>8 DEF Within

LEMMA ClearAllMapped ==
  ASSUME NEW w, Shape(w), Mapped(w)
  PROVE  /\ Mapped(ClearAll(w)) /\ ClearAll(w).disposed
         /\ Steady(w, ClearAll(w), {})
<1> DEFINE all == In(w)
           u == Abort(w, all)
           v == ClearAll(w)
<1>1. u.objects = w.objects
  BY DEF Abort, Shape
<1>2. DOMAIN u = {"objects", "sessions", "approvals", "disposed", "tasks", "requests"}
  BY DEF Abort, Shape
<1>3. v = [u EXCEPT !.objects = [o \in Objects |-> IF o \in all THEN [@[o] EXCEPT !.aborted = TRUE] ELSE @[o]],
                    !.sessions = <<>>, !.disposed = TRUE]
  BY DEF ClearAll, In
<1> HIDE DEF u, v, all
<1>4. /\ v.sessions = <<>> /\ v.disposed = TRUE
      /\ v.objects = [o \in Objects |-> IF o \in all THEN [w.objects[o] EXCEPT !.aborted = TRUE] ELSE w.objects[o]]
  BY <1>1, <1>2, <1>3
<1>5. /\ DOMAIN v.objects = Objects
      /\ \A o \in Objects : DOMAIN v.objects[o] = ObjectFields /\ v.objects[o].session = w.objects[o].session
  BY <1>4 DEF Mapped, Listed, ObjectFields
<1>6. In(v) = {} /\ <<>> \in Seq(Objects) /\ Len(<<>>) = 0
  BY <1>4 DEF In, ToSet
<1>7. Listed(v)
  BY <1>4, <1>5, <1>6 DEF Listed
<1>8. Mapped(v)
  BY <1>4, <1>6, <1>7, SessionsAssumption DEF Mapped
<1>9. Steady(w, v, {})
  BY <1>4, <1>5, <1>6 DEF Steady
<1>10. QED
  BY <1>4, <1>8, <1>9 DEF v

-----------------------------------------------------------------------------
(* Where the tasks are.                                                    *)

\* A task under way holds an object of its session.
Owned(w, t) ==
  /\ w.tasks[t].object # Nothing =>
       /\ w.tasks[t].object \in Objects /\ Pending(w, t)
       /\ w.objects[w.tasks[t].object].session = w.tasks[t].session
  /\ w.tasks[t].pc = "idle" => w.tasks[t].session = Nothing
  /\ Pending(w, t) => w.tasks[t].session \in Sessions
  /\ w.tasks[t].pc # "done" => w.tasks[t].report = "none"

\* The hook's object is still listed, in the generation the hook found.
Fresh(w, x) ==
  /\ w.tasks[x].object \in In(w)
  /\ w.tasks[x].generation = w.objects[w.tasks[x].object].generation

\* A hook that will not end, and has not ended, in silence.
Settles(w, x) ==
  /\ w.tasks[x].report # "silent"
  /\ w.tasks[x].pc = "locating" => w.tasks[x].object \in In(w)
  /\ w.tasks[x].pc \in {"selecting", "recalling", "recording"} => Fresh(w, x)

\* Task t is as it was, and where it was.
Carries(t, w, v) ==
  /\ Same(w, v) /\ Shape(v)
  /\ v.tasks[t].object = w.tasks[t].object /\ v.tasks[t].session = w.tasks[t].session
  /\ v.tasks[t].pc = w.tasks[t].pc /\ v.tasks[t].report = w.tasks[t].report

\* Task t went on, and no object moved.
Stays(t, w, v) ==
  /\ Same(w, v) /\ Owned(v, t)
  /\ v.tasks[t].session = w.tasks[t].session

\* A hook that was fresh settles.
Rests(x, w, v) ==
  /\ Stays(x, w, v)
  /\ Fresh(w, x) /\ ~w.disposed => Settles(v, x)

\* What an operator on a task that is under way starts from.
Ready(w, t) == Shape(w) /\ Mapped(w) /\ Owned(w, t) /\ Pending(w, t)

LEMMA CarriesReady ==
  ASSUME NEW t, NEW w, NEW v, Ready(w, t), Carries(t, w, v)
  PROVE  Ready(v, t)
<1>1. Mapped(v) /\ Shape(v)
  BY SameMapped DEF Ready, Carries
<1>2. Pending(v, t) /\ Owned(v, t)
  BY DEF Ready, Carries, Pending, Owned, Same
<1>3. QED
  BY <1>1, <1>2 DEF Ready

LEMMA CarriesTwice ==
  ASSUME NEW t, NEW u, NEW v, NEW w, Carries(t, u, v), Carries(t, v, w)
  PROVE  Carries(t, u, w)
  BY SameTwice DEF Carries

LEMMA CarriesStays ==
  ASSUME NEW t, NEW u, NEW v, NEW w, Carries(t, u, v), Stays(t, v, w)
  PROVE  Stays(t, u, w)
  BY SameTwice DEF Carries, Stays

LEMMA CarriesRests ==
  ASSUME NEW t, NEW u, NEW v, NEW w, Ready(u, t), Carries(t, u, v), Rests(t, v, w),
         v.tasks[t].generation = u.tasks[t].generation
  PROVE  Rests(t, u, w)
<1>1. Stays(t, u, w)
  BY CarriesStays DEF Rests
<1>2. Fresh(u, t) /\ ~u.disposed => Fresh(v, t) /\ ~v.disposed
  <2>1. In(v) = In(u) /\ In(u) \subseteq Objects
    BY SameMapped, InListed DEF Carries, Ready, Mapped
  <2>2. QED
    BY <2>1 DEF Fresh, Carries, Same
<1>3. QED
  BY <1>1, <1>2 DEF Rests

\* The fields of a task that say nothing of where it is.
LooseFields == TaskFields \ {"object", "session", "pc", "report"}

LEMMA FieldCarries ==
  ASSUME NEW w, NEW t \in Tasks, Ready(w, t), NEW v, DOMAIN v = DOMAIN w,
         v.objects = w.objects, v.sessions = w.sessions, v.disposed = w.disposed,
         v.requests = w.requests,
         NEW f \in LooseFields, NEW e, v.tasks = [w.tasks EXCEPT ![t] = [@ EXCEPT ![f] = e]]
  PROVE  /\ Carries(t, w, v)
         /\ v.tasks[t][f] = e
         /\ f # "generation" => v.tasks[t].generation = w.tasks[t].generation
<1>1. Shape(w) /\ Mapped(w)
  BY DEF Ready
<1>2. DOMAIN w.tasks = Tasks /\ DOMAIN w.tasks[t] = TaskFields
  BY <1>1 DEF Shape
<1>3. /\ v.tasks[t] = [w.tasks[t] EXCEPT ![f] = e] /\ DOMAIN v.tasks = Tasks
      /\ \A s \in Tasks \ {t} : v.tasks[s] = w.tasks[s]
  BY <1>2
<1>4. /\ f # "object" /\ f # "session" /\ f # "pc" /\ f # "report"
      /\ {"object", "session", "pc", "report", "generation"} \subseteq TaskFields
      /\ f \in TaskFields
  BY DEF LooseFields, TaskFields
<1>5. DOMAIN v.tasks[t] = TaskFields
  BY <1>2, <1>3
<1>6. Shape(v)
  BY <1>1, <1>3, <1>5, TaskMoves, StillShaped
<1>7. Same(w, v)
  BY <1>1, SameObjects
<1>8. QED
  BY <1>2, <1>3, <1>4, <1>6, <1>7 DEF Carries

LEMMA WorldCarries ==
  ASSUME NEW w, NEW t, NEW v, Same(w, v), Shape(v), v.tasks = w.tasks
  PROVE  Carries(t, w, v)
  BY DEF Carries

LEMMA EndStays ==
  ASSUME NEW w, NEW t \in Tasks, Ready(w, t), NEW report, NEW v, v = End(w, t, report)
  PROVE  /\ Stays(t, w, v) /\ v.tasks[t].pc = "done" /\ v.tasks[t].report = report
         /\ v.tasks[t].object = Nothing
<1>1. Shape(w) /\ Mapped(w)
  BY DEF Ready
<1>2. /\ v.objects = w.objects /\ v.sessions = w.sessions /\ v.disposed = w.disposed
      /\ v.tasks[t].pc = "done" /\ v.tasks[t].report = report
      /\ v.tasks[t].object = Nothing /\ v.tasks[t].session = w.tasks[t].session
  BY <1>1 DEF End, Shape, Idle
<1>3. Same(w, v)
  BY <1>1, <1>2, SameObjects
<1>4. Owned(v, t)
  BY <1>2 DEF Owned, Pending
<1>5. QED
  BY <1>2, <1>3, <1>4 DEF Stays

LEMMA GotoStays ==
  ASSUME NEW w, NEW t \in Tasks, Ready(w, t), NEW pc, pc \notin {"idle", "done"},
         NEW v, v = Goto(w, t, pc)
  PROVE  /\ Stays(t, w, v) /\ v.tasks[t].pc = pc /\ v.tasks[t].report = "none"
         /\ v.tasks[t].object = w.tasks[t].object
         /\ v.tasks[t].generation = w.tasks[t].generation
<1>1. Shape(w) /\ Mapped(w) /\ Owned(w, t) /\ Pending(w, t)
  BY DEF Ready
<1>2. /\ v.objects = w.objects /\ v.sessions = w.sessions /\ v.disposed = w.disposed
      /\ v.tasks[t].pc = pc /\ v.tasks[t].report = w.tasks[t].report
      /\ v.tasks[t].object = w.tasks[t].object /\ v.tasks[t].session = w.tasks[t].session
      /\ v.tasks[t].generation = w.tasks[t].generation
  BY <1>1 DEF Goto, Shape, TaskFields
<1>3. Same(w, v)
  BY <1>1, <1>2, SameObjects
<1>4. Owned(v, t) /\ w.tasks[t].report = "none"
  BY <1>1, <1>2 DEF Owned, Pending
<1>5. QED
  BY <1>2, <1>3, <1>4 DEF Stays

LEMMA SendCarries ==
  ASSUME NEW w, NEW t \in Tasks, Ready(w, t), NEW op, NEW targets, NEW terms, NEW o, NEW c,
         NEW v, v = Send(w, t, op, targets, terms, o, c)
  PROVE  Carries(t, w, v) /\ v.tasks[t].generation = w.tasks[t].generation
<1> DEFINE i == SlotOf(t, op)
           g == IF o = Nothing THEN 0 ELSE w.objects[o].generation
           r == Request(op, targets, terms, o, g, c, Aborted(w, o, g, c))
<1>1. v = [w EXCEPT !.requests[i] = r, !.tasks[t].slot = i]
  BY DEF Send
<1>2. Shape(w) /\ Mapped(w)
  BY DEF Ready
<1> HIDE DEF i, r
<1>3. v.objects = w.objects /\ v.sessions = w.sessions /\ v.disposed = w.disposed
  BY <1>1, <1>2 DEF Shape
<1>4. /\ Shape(v) /\ SlotOf(t, op) \in Slots /\ SlotOf(t, op) \in Own(t)
      /\ \A s \in Tasks \ {t} : v.tasks[s] = w.tasks[s]
      /\ v.tasks[t] = [w.tasks[t] EXCEPT !.slot = SlotOf(t, op)]
      /\ \A j \in Slots \ {SlotOf(t, op)} : v.requests[j] = w.requests[j]
      /\ \E h, aborted : v.requests[SlotOf(t, op)] = Request(op, targets, terms, o, h, c, aborted)
  BY <1>2, SendDoes
<1>5. DOMAIN w.tasks[t] = TaskFields
  BY <1>2 DEF Shape
<1>6. Same(w, v)
  BY <1>2, <1>3, SameObjects
<1>7. QED
  BY <1>4, <1>5, <1>6 DEF Carries, TaskFields

LEMMA SelectCarries ==
  ASSUME NEW w, NEW t \in Tasks, Ready(w, t), NEW c, NEW v, v = Select(w, t, c)
  PROVE  Carries(t, w, v) /\ v.tasks[t].generation = w.tasks[t].generation
<1> DEFINE o == w.tasks[t].object
           array == [repository |-> Home[w.objects[o].session], id |-> o]
           w1 == Send(w, t, "select", array, Undefined, o, c)
<1>1. CASE w.objects[o].resolving # Nothing
  <2>1. v = [w EXCEPT !.tasks[t].slot = w.objects[o].resolving]
    BY <1>1 DEF Select
  <2> DEFINE e == w.objects[o].resolving
  <2>2. Shape(w)
    BY DEF Ready
  <2> HIDE DEF e, o
  <2>3. /\ v.objects = w.objects /\ v.sessions = w.sessions /\ v.disposed = w.disposed
        /\ v.requests = w.requests /\ DOMAIN v = DOMAIN w
        /\ v.tasks = [w.tasks EXCEPT ![t] = [@ EXCEPT !["slot"] = e]]
    BY <2>1, <2>2 DEF Shape, e
  <2>4. "slot" \in LooseFields /\ "slot" # "generation"
    BY DEF LooseFields, TaskFields
  <2>5. QED
    BY <2>3, <2>4, FieldCarries
<1>2. CASE w.objects[o].resolving = Nothing
  <2>1. v = [w1 EXCEPT !.objects[o].resolving = w1.tasks[t].slot]
    BY <1>2 DEF Select
  <2> HIDE DEF array, o
  <2>2. Carries(t, w, w1) /\ w1.tasks[t].generation = w.tasks[t].generation
    BY SendCarries
  <2> HIDE DEF w1
  <2>3. Ready(w1, t)
    BY <2>2, CarriesReady
  <2>4. Shape(w1) /\ Mapped(w1)
    BY <2>3 DEF Ready
  <2> DEFINE e == w1.tasks[t].slot
  <2> HIDE DEF e
  <2>5. /\ v.objects = [w1.objects EXCEPT ![o] = [@ EXCEPT !["resolving"] = e]]
        /\ v.sessions = w1.sessions /\ v.disposed = w1.disposed
        /\ v.tasks = w1.tasks /\ v.requests = w1.requests /\ DOMAIN v = DOMAIN w1
    BY <2>1, <2>4 DEF Shape, e
  <2>6. Same(w1, v)
    BY <2>4, <2>5 DEF Same, Mapped, Listed, ObjectFields
  <2>7. Shape(v)
    BY <2>4, <2>5, OthersCalm DEF Calm
  <2>8. Carries(t, w1, v)
    BY <2>5, <2>6, <2>7, WorldCarries
  <2>9. QED
    BY <2>2, <2>5, <2>8, CarriesTwice
<1>3. QED
  BY <1>1, <1>2

\* Of an object, fields that say nothing of where it is.
LEMMA ObjectCarries ==
  ASSUME NEW w, NEW t, Ready(w, t), NEW o, NEW v, DOMAIN v = DOMAIN w,
         v.sessions = w.sessions, v.disposed = w.disposed, v.tasks = w.tasks,
         v.requests = w.requests, NEW g, v.objects = [w.objects EXCEPT ![o] = g],
         o \in Objects =>
           /\ DOMAIN g = ObjectFields /\ g.session = w.objects[o].session
           /\ g.generation = w.objects[o].generation
  PROVE  Carries(t, w, v)
<1>1. Shape(w) /\ Mapped(w)
  BY DEF Ready
<1>2. Same(w, v)
  BY <1>1 DEF Same, Mapped, Listed
<1>3. Shape(v)
  BY <1>1, OthersCalm DEF Calm
<1>4. QED
  BY <1>2, <1>3, WorldCarries

LEMMA SelectedCarries ==
  ASSUME NEW w, NEW t, Ready(w, t), NEW s, NEW v, v = Selected(w, s)
  PROVE  Carries(t, w, v) /\ v.tasks = w.tasks
<1> DEFINE o == w.tasks[s].object
           targets == IF Answer(w, s).outcome = "ok" THEN Answer(w, s).targets ELSE w.objects[o].targets
           g == [w.objects[o] EXCEPT !.resolving = Nothing, !.targets = targets]
<1>1. Shape(w) /\ Mapped(w)
  BY DEF Ready
<1>2. /\ v.sessions = w.sessions /\ v.disposed = w.disposed /\ v.tasks = w.tasks
      /\ v.requests = w.requests /\ DOMAIN v = DOMAIN w
  BY <1>1 DEF Selected, Shape
<1>3. v.objects = [[w.objects EXCEPT ![o].resolving = Nothing] EXCEPT ![o].targets =
                     IF Answer(w, s).outcome = "ok" THEN Answer(w, s).targets ELSE @]
  BY <1>1 DEF Selected, Shape
<1> HIDE DEF g, targets, o
<1>4. Same(w, v)
  <2> DEFINE e == IF Answer(w, s).outcome = "ok" THEN Answer(w, s).targets ELSE w.objects[o].targets
  <2>1. \A p \in Objects : v.objects[p] = IF p = o THEN [w.objects[p] EXCEPT !.resolving = Nothing, !.targets = e]
                                         ELSE w.objects[p]
    BY <1>1, <1>3 DEF Mapped, Listed, ObjectFields
  <2>2. DOMAIN v.objects = Objects
    BY <1>1, <1>3 DEF Mapped, Listed
  <2> HIDE DEF e
  <2>3. QED
    BY <1>1, <1>2, <2>1, <2>2 DEF Same, Mapped, Listed, ObjectFields
<1>5. Shape(v)
  BY <1>1, <1>2, OthersCalm DEF Calm
<1>6. QED
  BY <1>2, <1>4, <1>5, WorldCarries

-----------------------------------------------------------------------------
(* A hook that is fresh does not end in silence.                           *)

\* A fresh hook's session is listed.
LEMMA FreshKnown ==
  ASSUME NEW w, NEW x, Ready(w, x), Fresh(w, x)
  PROVE  /\ w.tasks[x].object \in Objects
         /\ \E o \in In(w) : w.objects[o].session = w.tasks[x].session
<1>1. w.tasks[x].object \in Objects
  BY InListed DEF Ready, Mapped, Fresh
<1>2. w.tasks[x].object # Nothing
  BY <1>1, NothingAssumption
<1>3. QED
  BY <1>1, <1>2 DEF Ready, Owned, Fresh

LEMMA EndRests ==
  ASSUME NEW w, NEW x \in Tasks, Ready(w, x), NEW report, NEW v, v = End(w, x, report),
         Fresh(w, x) /\ ~w.disposed => report # "silent"
  PROVE  Rests(x, w, v)
<1>1. Stays(x, w, v) /\ v.tasks[x].pc = "done" /\ v.tasks[x].report = report
  BY EndStays
<1>2. QED
  BY <1>1 DEF Rests, Settles

LEMMA GotoRests ==
  ASSUME NEW w, NEW x \in Tasks, Ready(w, x), NEW pc \in {"selecting", "recalling", "recording"},
         NEW v, v = Goto(w, x, pc)
  PROVE  Rests(x, w, v)
<1>1. /\ Stays(x, w, v) /\ v.tasks[x].pc = pc /\ v.tasks[x].report = "none"
      /\ v.tasks[x].object = w.tasks[x].object
      /\ v.tasks[x].generation = w.tasks[x].generation
  <2>1. pc \notin {"idle", "done"}
    OBVIOUS
  <2>2. QED
    BY <2>1, GotoStays
<1>2. Fresh(w, x) => Fresh(v, x)
  <2>1. In(v) = In(w) /\ In(w) \subseteq Objects
    BY <1>1, SameMapped, InListed DEF Stays, Ready, Mapped
  <2>2. QED
    BY <1>1, <2>1 DEF Fresh, Stays, Same
<1>3. QED
  BY <1>1, <1>2 DEF Rests, Settles

LEMMA InjectRests ==
  ASSUME NEW w, NEW x \in Tasks, Ready(w, x), NEW receipt, NEW v, v = Inject(w, x, receipt)
  PROVE  Rests(x, w, v)
<1> DEFINE w1 == [w EXCEPT !.tasks[x].receipt = receipt]
           w2 == [w1 EXCEPT !.tasks[x].slot = Nothing]
           known == \E o \in ToSet(w.sessions) : w.objects[o].session = w.tasks[x].session
<1>0. Shape(w)
  BY DEF Ready
<1>1. Carries(x, w, w1) /\ w1.tasks[x].generation = w.tasks[x].generation
  <2>1. /\ w1.objects = w.objects /\ w1.sessions = w.sessions /\ w1.disposed = w.disposed
        /\ w1.requests = w.requests /\ DOMAIN w1 = DOMAIN w
        /\ w1.tasks = [w.tasks EXCEPT ![x] = [@ EXCEPT !["receipt"] = receipt]]
    BY <1>0 DEF Shape
  <2>2. "receipt" \in LooseFields /\ "receipt" # "generation"
    BY DEF LooseFields, TaskFields
  <2> HIDE DEF w1
  <2>3. QED
    BY <2>1, <2>2, FieldCarries
<1> HIDE DEF w1
<1>2. Ready(w1, x)
  BY <1>1, CarriesReady
<1>3. Carries(x, w1, w2) /\ w2.tasks[x].generation = w1.tasks[x].generation
  <2>0. Shape(w1)
    BY <1>2 DEF Ready
  <2>1. /\ w2.objects = w1.objects /\ w2.sessions = w1.sessions /\ w2.disposed = w1.disposed
        /\ w2.requests = w1.requests /\ DOMAIN w2 = DOMAIN w1
        /\ w2.tasks = [w1.tasks EXCEPT ![x] = [@ EXCEPT !["slot"] = Nothing]]
    BY <2>0 DEF Shape
  <2>2. "slot" \in LooseFields /\ "slot" # "generation"
    BY DEF LooseFields, TaskFields
  <2> HIDE DEF w2
  <2>3. QED
    BY <1>2, <2>1, <2>2, FieldCarries
<1>4. v = IF w.disposed \/ w.tasks[x].generation # w.objects[w.tasks[x].object].generation \/ ~known
          THEN End(w, x, "silent") ELSE Goto(w2, x, "recording")
  BY DEF Inject, w1
<1> HIDE DEF w2
<1>5. CASE w.disposed \/ w.tasks[x].generation # w.objects[w.tasks[x].object].generation \/ ~known
  <2>1. ~(Fresh(w, x) /\ ~w.disposed)
    BY <1>5, FreshKnown DEF Fresh, In
  <2>2. QED
    BY <1>4, <1>5, <2>1, EndRests
<1>6. CASE ~(w.disposed \/ w.tasks[x].generation # w.objects[w.tasks[x].object].generation \/ ~known)
  <2>1. Ready(w2, x) /\ Carries(x, w, w2) /\ w2.tasks[x].generation = w.tasks[x].generation
    BY <1>1, <1>2, <1>3, CarriesReady, CarriesTwice
  <2>2. Rests(x, w2, v)
    BY <1>4, <1>6, <2>1, GotoRests
  <2>3. QED
    BY <2>1, <2>2, CarriesRests
<1>7. QED
  BY <1>5, <1>6

LEMMA FreshUnchanged ==
  ASSUME NEW w, NEW x, Fresh(w, x), ~w.disposed
  PROVE  Unchanged(w, x)
  BY DEF Fresh, Unchanged, InSessions, In

LEMMA InjectedRests ==
  ASSUME NEW w, NEW x \in Tasks, Ready(w, x), NEW v, v = Injected(w, x)
  PROVE  Rests(x, w, v)
<1>1. CASE ~Unchanged(w, x)
  BY <1>1, FreshUnchanged, EndRests DEF Injected
<1>2. CASE Unchanged(w, x)
  BY <1>2, EndRests DEF Injected
<1>3. QED
  BY <1>1, <1>2

LEMMA FailedRests ==
  ASSUME NEW w, NEW x \in Tasks, Ready(w, x), NEW v, v = Failed(w, x)
  PROVE  Rests(x, w, v)
<1> DEFINE t == w.tasks[x]
           w1 == [w EXCEPT !.objects[t.object].message = t.message]
<1>1. CASE ~Unchanged(w, x)
  BY <1>1, FreshUnchanged, EndRests DEF Failed
<1>2. CASE Unchanged(w, x)
  <2>1. v = End(w1, x, "part")
    BY <1>2 DEF Failed
  <2>2. Carries(x, w, w1) /\ w1.tasks = w.tasks
    <3> DEFINE o == t.object
               g == [w.objects[o] EXCEPT !.message = t.message]
    <3>1. Shape(w) /\ Mapped(w)
      BY DEF Ready
    <3>2. /\ w1.objects = [w.objects EXCEPT ![o] = g]
          /\ w1.sessions = w.sessions /\ w1.disposed = w.disposed
          /\ w1.tasks = w.tasks /\ w1.requests = w.requests /\ DOMAIN w1 = DOMAIN w
      BY <3>1 DEF Shape
    <3>3. o \in Objects =>
            /\ DOMAIN g = ObjectFields /\ g.session = w.objects[o].session
            /\ g.generation = w.objects[o].generation
      BY <3>1 DEF Mapped, Listed, ObjectFields
    <3> HIDE DEF w1, g, o
    <3>4. QED
      BY <3>2, <3>3, ObjectCarries
  <2> HIDE DEF w1
  <2>3. Rests(x, w1, v)
    BY <2>1, <2>2, CarriesReady, EndRests
  <2>4. QED
    BY <2>2, <2>3, CarriesRests
<1>3. QED
  BY <1>1, <1>2

LEMMA AutomaticRests ==
  ASSUME NEW w, NEW x \in Tasks, Ready(w, x), NEW v, v = Automatic(w, x)
  PROVE  Rests(x, w, v)
<1> DEFINE o == w.tasks[x].object
           key == Key(w, o)
           cache == w.objects[o].cache
           sent == IF key.terms = Undefined THEN w
                   ELSE Send(w, x, "recall", w.objects[o].targets, key.terms, o, Nothing)
           slot == IF key.terms = Undefined THEN Nothing ELSE sent.tasks[x].slot
           cacheHit == cache # Nothing /\ cache.key = key
           entry == IF cacheHit THEN cache ELSE [key |-> key, slot |-> slot, receipt |-> Nothing]
           w1 == IF cacheHit THEN w ELSE [sent EXCEPT !.objects[o].cache = entry]
           w2 == [w1 EXCEPT !.tasks[x].slot = entry.slot]
           From(u) == Carries(x, w, u) /\ u.tasks[x].generation = w.tasks[x].generation
<1>1. From(w)
  <2>1. Shape(w) /\ Same(w, w)
    BY DEF Ready, Same, Mapped, Listed
  <2>2. QED
    BY <2>1 DEF Carries
<1>2. From(sent)
  <2> HIDE DEF o, key
  <2>1. From(Send(w, x, "recall", w.objects[o].targets, key.terms, o, Nothing))
    <3> DEFINE u == Send(w, x, "recall", w.objects[o].targets, key.terms, o, Nothing)
    <3>1. u = Send(w, x, "recall", w.objects[o].targets, key.terms, o, Nothing)
      OBVIOUS
    <3> HIDE DEF u
    <3>2. From(u)
      BY <3>1, SendCarries
    <3>3. QED
      BY <3>2 DEF u
  <2>2. QED
    BY <1>1, <2>1
<1>3. From(w1)
  <2> DEFINE u == [sent EXCEPT !.objects[o].cache = entry]
             g == [sent.objects[o] EXCEPT !.cache = entry]
  <2> HIDE DEF sent, entry, o
  <2>1. Ready(sent, x)
    BY <1>2, CarriesReady
  <2>2. Shape(sent) /\ Mapped(sent)
    BY <2>1 DEF Ready
  <2>3. /\ u.objects = [sent.objects EXCEPT ![o] = g]
        /\ u.sessions = sent.sessions /\ u.disposed = sent.disposed
        /\ u.tasks = sent.tasks /\ u.requests = sent.requests /\ DOMAIN u = DOMAIN sent
    BY <2>2 DEF Shape
  <2>4. o \in Objects =>
          /\ DOMAIN g = ObjectFields /\ g.session = sent.objects[o].session
          /\ g.generation = sent.objects[o].generation
    BY <2>2 DEF Mapped, Listed, ObjectFields
  <2> HIDE DEF u, g
  <2>5. Carries(x, sent, u)
    BY <2>1, <2>3, <2>4, ObjectCarries
  <2>6. From(u)
    BY <1>2, <2>3, <2>5, CarriesTwice
  <2>7. QED
    BY <1>1, <2>6 DEF u
<1>4. v = IF entry.slot = Nothing THEN Inject(w1, x, entry.receipt) ELSE Goto(w2, x, "recalling")
  BY DEF Automatic
<1> HIDE DEF w1, entry
<1>5. Ready(w1, x)
  BY <1>3, CarriesReady
<1>6. Carries(x, w1, w2) /\ w2.tasks[x].generation = w1.tasks[x].generation
  <2> DEFINE e == entry.slot
  <2>1. Shape(w1)
    BY <1>5 DEF Ready
  <2>2. /\ w2.objects = w1.objects /\ w2.sessions = w1.sessions /\ w2.disposed = w1.disposed
        /\ w2.requests = w1.requests /\ DOMAIN w2 = DOMAIN w1
        /\ w2.tasks = [w1.tasks EXCEPT ![x] = [@ EXCEPT !["slot"] = e]]
    BY <2>1 DEF Shape
  <2>3. "slot" \in LooseFields /\ "slot" # "generation"
    BY DEF LooseFields, TaskFields
  <2> HIDE DEF w2, e
  <2>4. QED
    BY <1>5, <2>2, <2>3, FieldCarries
<1> HIDE DEF w2
<1>7. Rests(x, w1, Inject(w1, x, entry.receipt))
  BY <1>5, InjectRests
<1>8. Rests(x, w1, Goto(w2, x, "recalling"))
  <2>1. Rests(x, w2, Goto(w2, x, "recalling"))
    BY <1>5, <1>6, CarriesReady, GotoRests
  <2>2. QED
    BY <1>5, <1>6, <2>1, CarriesRests
<1>9. Rests(x, w1, v)
  BY <1>4, <1>7, <1>8
<1>10. QED
  BY <1>3, <1>9, CarriesRests

LEMMA TransformingRests ==
  ASSUME NEW w, NEW x \in Tasks, Ready(w, x), w.tasks[x].pc \in {"selecting", "recalling"},
         NEW v, v = Transforming(w, x)
  PROVE  Rests(x, w, v)
<1> DEFINE u == Selected(w, x)
<1>1. v \in {Automatic(u, x), Failed(u, x), Recalled(w, x)}
  BY DEF Transforming
<1>2. Carries(x, w, u) /\ u.tasks = w.tasks
  BY SelectedCarries
<1> HIDE DEF u
<1>3. Ready(u, x)
  BY <1>2, CarriesReady
<1>4. Rests(x, u, Automatic(u, x)) /\ Rests(x, u, Failed(u, x))
  BY <1>3, AutomaticRests, FailedRests
<1>5. Rests(x, w, Recalled(w, x))
  BY InjectRests DEF Recalled
<1>6. QED
  BY <1>1, <1>2, <1>4, <1>5, CarriesRests

\* What others do to the map leaves a task its object.
LEMMA SteadyReady ==
  ASSUME NEW w, NEW t, Ready(w, t), NEW v, NEW S, Steady(w, v, S), Mapped(v), Shape(v),
         v.tasks[t] = w.tasks[t]
  PROVE  Ready(v, t)
<1>1. w.tasks[t].session # Nothing
  BY NothingAssumption DEF Ready, Owned
<1>2. QED
  BY <1>1 DEF Ready, Owned, Pending, Steady

\* The sessions S cover what hook x takes over when it captures its message.
Covers(w, x, s, S) == S \in {{s}, Overtaken(w, s, w.tasks[x].object, w.tasks[x].message)}

LEMMA LocatedDoes ==
  ASSUME NEW w, NEW x \in Tasks, Ready(w, x), NEW s, s = w.tasks[x].session, CanHold(w, s),
         NEW v, v = Located(w, x),
         NEW S, Covers(w, x, s, S)
  PROVE  /\ Within(w, v, s, S)
         /\ Owned(v, x) /\ v.tasks[x].session = s
         /\ w.tasks[x].object \in In(w) /\ ~w.disposed => Settles(v, x)
<1> DEFINE n == w.tasks[x].message
           o == w.tasks[x].object
           w1 == IF w.objects[o].message # n THEN Capture(w, s, n) ELSE w
           w2 == [w1 EXCEPT !.tasks[x].generation = w1.objects[o].generation]
           w3 == Select(w2, x, Nothing)
<1>0. Shape(w) /\ Mapped(w) /\ s # Nothing
  BY NothingAssumption DEF Ready, Owned
<1>1. Within(w, w1, s, S) /\ Calm(w, w1)
  <2>1. Within(w, w, s, S) /\ Calm(w, w)
    BY <1>0, OthersCalm DEF Within, Steady
  <2>2. Within(w, Capture(w, s, n), s, {s}) /\ Calm(w, Capture(w, s, n))
    BY <1>0, CaptureWithin, CaptureCalm
  <2>3. (\A p \in Held(w, s) : w.objects[p].message = n) => Within(w, Capture(w, s, n), s, {})
    BY <1>0, CaptureKeeps
  <2>4. \/ S = {s} \/ w1 = w
        \/ S = {} /\ \A p \in Held(w, s) : w.objects[p].message = n
    BY DEF Covers, Overtaken
  <2>5. w1 = w \/ w1 = Capture(w, s, n)
    OBVIOUS
  <2> HIDE DEF w1
  <2>6. QED
    BY <2>1, <2>2, <2>3, <2>4, <2>5
<1>2. v = IF ~automatic /\ w1.objects[o].cache = Nothing THEN End(w1, x, "off")
          ELSE IF w2.objects[o].targets = NoTargets THEN Goto(w3, x, "selecting")
          ELSE Automatic(w2, x)
  BY DEF Located
<1> HIDE DEF w1
<1>3. Shape(w1) /\ w1.tasks = w.tasks
  BY <1>1 DEF Calm
<1>4. Ready(w1, x)
  BY <1>1, <1>3, SteadyReady DEF Within
<1>5. Carries(x, w1, w2) /\ w2.tasks[x].generation = w1.objects[o].generation /\ w2.objects = w1.objects
  <2> DEFINE e == w1.objects[o].generation
  <2> HIDE DEF e
  <2>1. /\ w2.objects = w1.objects /\ w2.sessions = w1.sessions /\ w2.disposed = w1.disposed
        /\ w2.requests = w1.requests /\ DOMAIN w2 = DOMAIN w1
        /\ w2.tasks = [w1.tasks EXCEPT ![x] = [@ EXCEPT !["generation"] = e]]
    BY <1>3 DEF Shape, e
  <2>2. "generation" \in LooseFields
    BY DEF LooseFields, TaskFields
  <2> HIDE DEF w2
  <2>3. Carries(x, w1, w2) /\ w2.tasks[x]["generation"] = e
    BY <1>4, <2>1, <2>2, FieldCarries
  <2>4. QED
    BY <2>1, <2>3 DEF e
<1> HIDE DEF w2
<1>6. Ready(w2, x)
  BY <1>4, <1>5, CarriesReady
<1>7. Rests(x, w2, Automatic(w2, x))
  BY <1>6, AutomaticRests
<1>8. Rests(x, w2, Goto(w3, x, "selecting"))
  <2>1. Carries(x, w2, w3) /\ w3.tasks[x].generation = w2.tasks[x].generation
    BY <1>6, SelectCarries
  <2> HIDE DEF w3
  <2>2. Rests(x, w3, Goto(w3, x, "selecting"))
    BY <1>6, <2>1, CarriesReady, GotoRests
  <2>3. QED
    BY <1>6, <2>1, <2>2, CarriesRests
<1>9. Stays(x, w1, v) /\ (Fresh(w2, x) /\ ~w2.disposed => Settles(v, x))
  <2>1. CASE v = End(w1, x, "off")
    <3>1. Stays(x, w1, v) /\ v.tasks[x].pc = "done" /\ v.tasks[x].report = "off"
      BY <1>4, <2>1, EndStays
    <3>2. QED
      BY <3>1 DEF Settles
  <2>2. CASE Rests(x, w2, v)
    BY <1>5, <2>2, CarriesStays DEF Rests
  <2>3. QED
    BY <1>2, <1>7, <1>8, <2>1, <2>2
<1>10. Same(w1, v)
  BY <1>9 DEF Stays
<1>11. Within(w, v, s, S)
  BY <1>1, <1>10, WithinSame
<1>12. Owned(v, x) /\ v.tasks[x].session = s
  BY <1>3, <1>9 DEF Stays
<1>13. ASSUME o \in In(w), ~w.disposed
       PROVE  Settles(v, x)
  <2>1. o \in Objects /\ o # Nothing
    BY <1>0, <1>13, InListed, NothingAssumption DEF Mapped
  <2>2. w.objects[o].session = s
    BY <2>1 DEF Ready, Owned
  <2>3. Held(w, s) # {}
    BY <1>13, <2>2 DEF Held, In
  <2>4. o \in In(w1)
    BY <1>1, <1>13, <2>3 DEF Within
  <2>5. In(w2) = In(w1) /\ ~w2.disposed /\ w2.tasks[x].object = o
    BY <1>1, <1>3, <1>5, <1>13, SameSteady DEF Carries, Within, Same
  <2>6. Fresh(w2, x)
    BY <1>5, <2>4, <2>5 DEF Fresh
  <2>7. QED
    BY <1>9, <2>5, <2>6
<1>14. QED
  BY <1>11, <1>12, <1>13

LEMMA WithinTwice ==
  ASSUME NEW u, NEW v, NEW w, NEW s, NEW S, NEW T, Within(u, v, s, S), Within(v, w, s, T),
         Held(v, s) # {}
  PROVE  Within(u, w, s, S \cup T)
<1>1. Steady(u, w, S \cup T)
  BY SteadyTwice DEF Within
<1>2. QED
  BY <1>1 DEF Within

LEMMA TransformDoes ==
  ASSUME NEW w, Shape(w), Mapped(w), NEW x \in Tasks, NEW s \in Sessions, CanHold(w, s), NEW n,
         NEW v, v = Transform(w, x, s, n), NEW u, u = StateFor(w, s),
         NEW S, S \in {{s}, IF u.objects[Latest(u)].directory
                            THEN Overtaken(w, s, Latest(u), n) ELSE {}}
  PROVE  /\ Within(w, v, s, S)
         /\ Owned(v, x) /\ v.tasks[x].session = s
         /\ ~w.disposed => Settles(v, x)
<1> DEFINE w1 == StateFor(w, s)
           task == [Idle EXCEPT !.pc = "locating", !.session = s, !.message = n, !.object = Latest(w1)]
           w2 == [w1 EXCEPT !.tasks[x] = task]
<1>0. s # Nothing
  BY NothingAssumption
<1>1. /\ Within(w, w1, s, {}) /\ Calm(w, w1) /\ Held(w1, s) # {}
      /\ Latest(w1) \in In(w1) /\ Latest(w1) \in Objects
      /\ w1.objects[Latest(w1)].session = s
      /\ Held(w, s) # {} => \A p \in Objects : w1.objects[p] = w.objects[p]
  BY <1>0, StateForWithin, StateForMapped
<1>2. /\ v = IF w1.objects[Latest(w1)].directory THEN Located(w2, x) ELSE w2
      /\ w1.objects[Latest(w1)].directory => S \in {{s}, Overtaken(w, s, Latest(w1), n)}
  BY DEF Transform
<1>3. /\ DOMAIN task = TaskFields /\ task.pc = "locating" /\ task.session = s /\ task.message = n
      /\ task.object = Latest(w1) /\ task.report = "none"
  BY DEF Idle, TaskFields
<1> HIDE DEF w1, task
<1>4. Shape(w1) /\ Mapped(w1)
  BY <1>1 DEF Calm, Within
<1>5. /\ w2.objects = w1.objects /\ w2.sessions = w1.sessions /\ w2.disposed = w1.disposed
      /\ w2.requests = w1.requests /\ DOMAIN w2 = DOMAIN w1 /\ DOMAIN w2.tasks = Tasks
      /\ w2.tasks[x] = task /\ \A t \in Tasks \ {x} : w2.tasks[t] = w1.tasks[t]
  BY <1>4 DEF Shape
<1> HIDE DEF w2
<1>6. Shape(w2)
  BY <1>3, <1>4, <1>5, TaskMoves, StillShaped
<1>7. Same(w1, w2)
  BY <1>4, <1>5, SameObjects
<1>8. /\ Mapped(w2) /\ In(w2) = In(w1) /\ Held(w2, s) # {}
      /\ Within(w, w2, s, {})
  BY <1>1, <1>4, <1>7, SameMapped, WithinSame
<1>9. Owned(w2, x) /\ Pending(w2, x)
  BY <1>1, <1>3, <1>5 DEF Owned, Pending
<1>10. Settles(w2, x)
  BY <1>1, <1>3, <1>5, <1>8 DEF Settles
<1>11. ASSUME w1.objects[Latest(w1)].directory
       PROVE  /\ Within(w, Located(w2, x), s, S)
              /\ Owned(Located(w2, x), x) /\ Located(w2, x).tasks[x].session = s
              /\ ~w.disposed => Settles(Located(w2, x), x)
  <2> DEFINE y == Located(w2, x)
             R == IF Held(w, s) = {} THEN {s} ELSE S
  <2>1. Ready(w2, x) /\ CanHold(w2, s) /\ s = w2.tasks[x].session
    BY <1>3, <1>5, <1>6, <1>8, <1>9 DEF Ready, CanHold
  <2>2. w2.tasks[x].object \in In(w2) /\ w2.disposed = w.disposed
    BY <1>1, <1>3, <1>5, <1>8 DEF Within
  <2>3. Covers(w2, x, s, R)
    <3>1. CASE Held(w, s) = {}
      BY <3>1 DEF Covers
    <3>2. CASE Held(w, s) # {}
      <4>1. \A p \in Objects : w2.objects[p] = w.objects[p]
        BY <1>1, <1>5, <3>2
      <4>2. In(w2) = In(w) /\ In(w) \subseteq Objects
        BY <1>8, <3>2, InListed DEF Within, Mapped
      <4>3. Held(w2, s) = Held(w, s) /\ Held(w, s) \subseteq Objects
        BY <4>1, <4>2 DEF Held, In
      <4>4. w2.tasks[x].object = Latest(w1) /\ w2.tasks[x].message = n
        BY <1>3, <1>5
      <4>5. Overtaken(w2, s, Latest(w1), n) = Overtaken(w, s, Latest(w1), n)
        BY <1>1, <4>1, <4>3 DEF Overtaken
      <4>6. QED
        BY <1>2, <1>11, <3>2, <4>4, <4>5 DEF Covers
    <3>3. QED
      BY <3>1, <3>2
  <2>4. y = Located(w2, x)
    OBVIOUS
  <2> HIDE DEF y, R
  <2>5. /\ Within(w2, y, s, R)
        /\ Owned(y, x) /\ y.tasks[x].session = s
        /\ w2.tasks[x].object \in In(w2) /\ ~w2.disposed => Settles(y, x)
    BY <2>1, <2>3, <2>4, LocatedDoes
  <2>6. Within(w, y, s, {} \cup R)
    BY <1>8, <2>5, WithinTwice
  <2>7. {} \cup R = R
    OBVIOUS
  <2>8. Within(w, y, s, S)
    <3>1. CASE Held(w, s) = {}
      BY <2>6, <2>7, <3>1, UnheldWithin DEF R
    <3>2. CASE Held(w, s) # {}
      BY <2>6, <2>7, <3>2 DEF R
    <3>3. QED
      BY <3>1, <3>2
  <2>9. QED
    BY <2>2, <2>5, <2>8 DEF y
<1>12. /\ Within(w, w2, s, S)
       /\ Owned(w2, x) /\ w2.tasks[x].session = s
       /\ ~w.disposed => Settles(w2, x)
  BY <1>3, <1>5, <1>8, <1>9, <1>10 DEF Within, Steady
<1>13. QED
  BY <1>2, <1>11, <1>12

LEMMA UnlocatedDoes ==
  ASSUME NEW w, NEW x \in Tasks, Ready(w, x), NEW s, s = w.tasks[x].session, CanHold(w, s),
         NEW v, v = Unlocated(w, x)
  PROVE  /\ Within(w, v, s, {})
         /\ Owned(v, x) /\ v.tasks[x].session = s
         /\ ~w.disposed => Settles(v, x)
<1> DEFINE w1 == StateFor(w, s)
           w2 == [w1 EXCEPT !.objects[Latest(w1)].message = w.tasks[x].message]
<1>0. Shape(w) /\ Mapped(w) /\ s # Nothing
  BY NothingAssumption DEF Ready, Owned
<1>1. v = IF w.disposed THEN End(w, x, "silent") ELSE End(w2, x, "part")
  BY DEF Unlocated
<1>2. Within(w, w1, s, {}) /\ Calm(w, w1)
  BY <1>0, StateForWithin
<1> HIDE DEF w1
<1>3. Shape(w1) /\ Mapped(w1) /\ w1.tasks = w.tasks
  BY <1>2 DEF Calm, Within
<1>4. Same(w1, w2) /\ Calm(w1, w2)
  BY <1>3, LabelSame
<1> HIDE DEF w2
<1>5. Within(w, w2, s, {}) /\ Shape(w2) /\ w2.tasks = w.tasks
  BY <1>2, <1>3, <1>4, WithinSame DEF Calm
<1>6. CASE w.disposed
  <2>1. Stays(x, w, v)
    BY <1>1, <1>6, EndStays
  <2>2. Within(w, w, s, {})
    BY <1>0 DEF Within, Steady
  <2>3. QED
    BY <1>6, <2>1, <2>2, WithinSame DEF Stays
<1>7. CASE ~w.disposed
  <2>1. Ready(w2, x)
    BY <1>5, SteadyReady DEF Within
  <2>2. Stays(x, w2, v) /\ v.tasks[x].pc = "done" /\ v.tasks[x].report = "part"
    BY <1>1, <1>7, <2>1, EndStays
  <2>3. Within(w, v, s, {})
    BY <1>5, <2>2, WithinSame DEF Stays
  <2>4. QED
    BY <1>5, <2>2, <2>3 DEF Stays, Settles
<1>8. QED
  BY <1>6, <1>7

\* A finished command's label.
LEMMA EndedDoes ==
  ASSUME NEW w, Shape(w), Mapped(w), NEW c, NEW command, NEW v, v = Ended(w, c, command),
         w.tasks[c].session # Nothing, CanHold(w, w.tasks[c].session)
  PROVE  /\ Mapped(v) /\ v.disposed = w.disposed /\ Steady(w, v, {}) /\ v.tasks = w.tasks
         /\ Within(w, v, w.tasks[c].session, {})
<1> DEFINE s == w.tasks[c].session
           w1 == StateFor(w, s)
           w2 == [w1 EXCEPT !.objects[Latest(w1)].message = Label]
<1>1. v \in {w2, w}
  BY DEF Ended
<1>2. Within(w, w1, s, {}) /\ Calm(w, w1)
  BY StateForWithin
<1> HIDE DEF w1, s
<1>3. Shape(w1) /\ Mapped(w1) /\ w1.tasks = w.tasks
  BY <1>2 DEF Calm, Within
<1>4. Same(w1, w2) /\ Calm(w1, w2)
  BY <1>3, LabelSame
<1> HIDE DEF w2
<1>5. Within(w, w2, s, {}) /\ w2.tasks = w.tasks
  BY <1>2, <1>3, <1>4, WithinSame DEF Calm
<1>6. Within(w, w, s, {})
  BY DEF Within, Steady, s
<1>7. QED
  BY <1>1, <1>5, <1>6 DEF Within, s

-----------------------------------------------------------------------------
(* What a call does to the map.                                            *)

LEMMA GotoSent ==
  ASSUME NEW w, NEW c \in Tasks, Ready(w, c), NEW op, NEW targets, NEW terms, NEW o, NEW d,
         NEW pc, pc \notin {"idle", "done"}
  PROVE  /\ Stays(c, w, Goto(Send(w, c, op, targets, terms, o, d), c, pc))
         /\ Goto(Send(w, c, op, targets, terms, o, d), c, pc).tasks[c].pc = pc
<1> DEFINE u == Send(w, c, op, targets, terms, o, d)
<1>1. u = Send(w, c, op, targets, terms, o, d)
  OBVIOUS
<1> HIDE DEF u
<1>2. Carries(c, w, u)
  BY <1>1, SendCarries
<1>3. Stays(c, u, Goto(u, c, pc)) /\ Goto(u, c, pc).tasks[c].pc = pc
  BY <1>2, CarriesReady, GotoStays
<1>4. QED
  BY <1>2, <1>3, CarriesStays DEF u

LEMMA WorkStays ==
  ASSUME NEW w, NEW c \in Tasks, Ready(w, c)
  PROVE  Stays(c, w, Work(w, c)) /\ Work(w, c).tasks[c].pc \in {"writing", "searching"}
<1> DEFINE t == w.tasks[c]
           g == w.objects[t.object].generation
           terms == Terms(w, c)
           w0 == [w EXCEPT !.tasks[c].generation = g]
           w1 == [w0 EXCEPT !.tasks[c].terms = terms]
<1>1. Work(w, c) = IF t.call.op = "remember"
                   THEN Goto(Send(w1, c, "remember", t.targets, Undefined, t.object, c), c, "writing")
                   ELSE Goto(Send(w1, c, "recall", t.targets, terms, t.object, c), c, "searching")
  BY DEF Work, CallOf
<1> HIDE DEF g, terms
<1>2. Carries(c, w, w0)
  <2>0. Shape(w)
    BY DEF Ready
  <2>1. /\ w0.objects = w.objects /\ w0.sessions = w.sessions /\ w0.disposed = w.disposed
        /\ w0.requests = w.requests /\ DOMAIN w0 = DOMAIN w
        /\ w0.tasks = [w.tasks EXCEPT ![c] = [@ EXCEPT !["generation"] = g]]
    BY <2>0 DEF Shape
  <2>2. "generation" \in LooseFields
    BY DEF LooseFields, TaskFields
  <2> HIDE DEF w0
  <2>3. QED
    BY <2>1, <2>2, FieldCarries
<1> HIDE DEF w0
<1>3. Ready(w0, c)
  BY <1>2, CarriesReady
<1>4. Carries(c, w0, w1)
  <2>0. Shape(w0)
    BY <1>3 DEF Ready
  <2>1. /\ w1.objects = w0.objects /\ w1.sessions = w0.sessions /\ w1.disposed = w0.disposed
        /\ w1.requests = w0.requests /\ DOMAIN w1 = DOMAIN w0
        /\ w1.tasks = [w0.tasks EXCEPT ![c] = [@ EXCEPT !["terms"] = terms]]
    BY <2>0 DEF Shape
  <2>2. "terms" \in LooseFields
    BY DEF LooseFields, TaskFields
  <2> HIDE DEF w1
  <2>3. QED
    BY <1>3, <2>1, <2>2, FieldCarries
<1> HIDE DEF w1
<1>5. Ready(w1, c) /\ Carries(c, w, w1)
  BY <1>2, <1>3, <1>4, CarriesReady, CarriesTwice
<1> HIDE DEF t
<1>6. Stays(c, w1, Work(w, c)) /\ Work(w, c).tasks[c].pc \in {"writing", "searching"}
  BY <1>1, <1>5, GotoSent
<1>7. QED
  BY <1>5, <1>6, CarriesStays

\* What is not where an object or a task is.
LEMMA OthersCarry ==
  ASSUME NEW w, NEW t, Ready(w, t), NEW v, DOMAIN v = DOMAIN w, v.objects = w.objects,
         v.sessions = w.sessions, v.disposed = w.disposed, v.tasks = w.tasks,
         v.requests = w.requests
  PROVE  Carries(t, w, v)
<1>1. Same(w, v)
  BY SameObjects DEF Ready
<1>2. Shape(v)
  BY OthersCalm DEF Ready, Calm
<1>3. QED
  BY <1>1, <1>2, WorldCarries

LEMMA TargetedStays ==
  ASSUME NEW w, NEW c \in Tasks, Ready(w, c), NEW targets
  PROVE  Stays(c, w, Targeted(w, c, targets))
<1> DEFINE t == w.tasks[c]
           w1 == [w EXCEPT !.tasks[c].targets = targets]
           approval == [object |-> t.object, generation |-> t.generation, call |-> c]
           noted == [w1 EXCEPT !.approvals[targets.id] = approval]
           asking == [noted EXCEPT !.tasks[c].slot = Nothing]
           worked == IF t.call.op = "scope" THEN noted ELSE w1
<1>1. Targeted(w, c, targets) =
        IF SignalAborted(w, c) THEN End(w, c, "not_started")
        ELSE IF ~t.call.command THEN Goto(asking, c, "asking")
        ELSE Work(worked, c)
  BY DEF Targeted, Invalid, Refuse, CallOf
<1>2. Carries(c, w, w1)
  <2>0. Shape(w)
    BY DEF Ready
  <2>1. /\ w1.objects = w.objects /\ w1.sessions = w.sessions /\ w1.disposed = w.disposed
        /\ w1.requests = w.requests /\ DOMAIN w1 = DOMAIN w
        /\ w1.tasks = [w.tasks EXCEPT ![c] = [@ EXCEPT !["targets"] = targets]]
    BY <2>0 DEF Shape
  <2>2. "targets" \in LooseFields
    BY DEF LooseFields, TaskFields
  <2> HIDE DEF w1
  <2>3. QED
    BY <2>1, <2>2, FieldCarries
<1> HIDE DEF w1, approval
<1>3. Ready(w1, c)
  BY <1>2, CarriesReady
<1>4. Carries(c, w1, noted)
  <2>0. Shape(w1)
    BY <1>3 DEF Ready
  <2>1. /\ noted.objects = w1.objects /\ noted.sessions = w1.sessions
        /\ noted.disposed = w1.disposed /\ noted.requests = w1.requests
        /\ noted.tasks = w1.tasks /\ DOMAIN noted = DOMAIN w1
    BY <2>0 DEF Shape
  <2> HIDE DEF noted
  <2>2. QED
    BY <1>3, <2>1, OthersCarry
<1> HIDE DEF noted
<1>5. Ready(noted, c) /\ Carries(c, w, noted)
  BY <1>2, <1>3, <1>4, CarriesReady, CarriesTwice
<1>6. Carries(c, noted, asking)
  <2>0. Shape(noted)
    BY <1>5 DEF Ready
  <2>1. /\ asking.objects = noted.objects /\ asking.sessions = noted.sessions
        /\ asking.disposed = noted.disposed
        /\ asking.requests = noted.requests /\ DOMAIN asking = DOMAIN noted
        /\ asking.tasks = [noted.tasks EXCEPT ![c] = [@ EXCEPT !["slot"] = Nothing]]
    BY <2>0 DEF Shape
  <2>2. "slot" \in LooseFields
    BY DEF LooseFields, TaskFields
  <2> HIDE DEF asking
  <2>3. QED
    BY <1>5, <2>1, <2>2, FieldCarries
<1> HIDE DEF asking
<1>7. Stays(c, w, Goto(asking, c, "asking"))
  <2>1. Ready(asking, c) /\ Carries(c, w, asking)
    BY <1>5, <1>6, CarriesReady, CarriesTwice
  <2>2. Stays(c, asking, Goto(asking, c, "asking"))
    BY <2>1, GotoStays
  <2>3. QED
    BY <2>1, <2>2, CarriesStays
<1>8. Stays(c, w, Work(worked, c))
  <2>1. Ready(worked, c) /\ Carries(c, w, worked)
    BY <1>2, <1>3, <1>5
  <2> HIDE DEF worked
  <2>2. Stays(c, worked, Work(worked, c))
    BY <2>1, WorkStays
  <2>3. QED
    BY <2>1, <2>2, CarriesStays
<1>9. Stays(c, w, End(w, c, "not_started"))
  BY EndStays
<1>10. QED
  BY <1>1, <1>7, <1>8, <1>9

LEMMA TargetsStays ==
  ASSUME NEW w, NEW c \in Tasks, Ready(w, c)
  PROVE  Stays(c, w, Targets(w, c))
<1> DEFINE t == w.tasks[c]
           o == t.object
           message == IF w.objects[o].message = Undefined THEN Label ELSE w.objects[o].message
           g == w.objects[o].generation
           w0 == [w EXCEPT !.objects[o].message = message]
           w1 == [w0 EXCEPT !.tasks[c].generation = g]
           array == [repository |-> t.call.repository, id |-> c]
           sent == Goto(Send(w1, c, "resolve", array, Undefined, o, c), c, "resolving")
           chosen1 == Select(w1, c, c)
<1>1. Targets(w, c) \in {sent, Targeted(w1, c, w.objects[o].targets), Goto(chosen1, c, "selecting")}
  BY DEF Targets, CallOf
<1>2. Carries(c, w, w0)
  <2> DEFINE f == [w.objects[o] EXCEPT !.message = message]
  <2> HIDE DEF message
  <2>1. Shape(w) /\ Mapped(w)
    BY DEF Ready
  <2>2. /\ w0.objects = [w.objects EXCEPT ![o] = f]
        /\ w0.sessions = w.sessions /\ w0.disposed = w.disposed
        /\ w0.tasks = w.tasks /\ w0.requests = w.requests /\ DOMAIN w0 = DOMAIN w
    BY <2>1 DEF Shape
  <2>3. o \in Objects =>
          /\ DOMAIN f = ObjectFields /\ f.session = w.objects[o].session
          /\ f.generation = w.objects[o].generation
    BY <2>1 DEF Mapped, Listed, ObjectFields
  <2> HIDE DEF w0, f, o
  <2>4. QED
    BY <2>2, <2>3, ObjectCarries
<1> HIDE DEF w0
<1>3. Ready(w0, c)
  BY <1>2, CarriesReady
<1>4. Carries(c, w0, w1)
  <2>0. Shape(w0)
    BY <1>3 DEF Ready
  <2> HIDE DEF g
  <2>1. /\ w1.objects = w0.objects /\ w1.sessions = w0.sessions /\ w1.disposed = w0.disposed
        /\ w1.requests = w0.requests /\ DOMAIN w1 = DOMAIN w0
        /\ w1.tasks = [w0.tasks EXCEPT ![c] = [@ EXCEPT !["generation"] = g]]
    BY <2>0 DEF Shape
  <2>2. "generation" \in LooseFields
    BY DEF LooseFields, TaskFields
  <2> HIDE DEF w1
  <2>3. QED
    BY <1>3, <2>1, <2>2, FieldCarries
<1> HIDE DEF w1
<1>5. Ready(w1, c) /\ Carries(c, w, w1)
  BY <1>2, <1>3, <1>4, CarriesReady, CarriesTwice
<1>6. Stays(c, w1, sent)
  <2> HIDE DEF array, o
  <2>1. QED
    BY <1>5, GotoSent
<1>7. Stays(c, w1, Targeted(w1, c, w.objects[o].targets))
  BY <1>5, TargetedStays
<1>8. Stays(c, w1, Goto(chosen1, c, "selecting"))
  <2>1. Carries(c, w1, chosen1)
    BY <1>5, SelectCarries
  <2> HIDE DEF chosen1
  <2>2. Ready(chosen1, c)
    BY <1>5, <2>1, CarriesReady
  <2>3. Stays(c, chosen1, Goto(chosen1, c, "selecting"))
    BY <2>2, GotoStays
  <2>4. QED
    BY <2>1, <2>3, CarriesStays
<1>9. QED
  BY <1>1, <1>5, <1>6, <1>7, <1>8, CarriesStays

LEMMA CallDoes ==
  ASSUME NEW w, Shape(w), Mapped(w), NEW c \in Tasks, NEW s \in Sessions, CanHold(w, s), NEW q,
         NEW v, v = Call(w, c, s, q)
  PROVE  /\ Within(w, v, s, {}) /\ Owned(v, c) /\ v.tasks[c].session = s
<1> DEFINE w1 == StateFor(w, s)
           start == [Idle EXCEPT !.call = q, !.session = s]
           asking == [start EXCEPT !.pc = "asking"]
           locating == [start EXCEPT !.pc = "locating", !.object = Latest(w1)]
           w0 == [w EXCEPT !.tasks[c] = asking]
           w2 == [w1 EXCEPT !.tasks[c] = locating]
<1>0. s # Nothing
  BY NothingAssumption
<1>1. /\ Within(w, w1, s, {}) /\ Calm(w, w1) /\ Held(w1, s) # {}
      /\ Latest(w1) \in In(w1) /\ Latest(w1) \in Objects
      /\ w1.objects[Latest(w1)].session = s
  BY <1>0, StateForWithin
<1>2. v \in {w0, Targets(w2, c), w2}
  BY DEF Call
<1>3. /\ DOMAIN asking = TaskFields /\ asking.pc = "asking" /\ asking.session = s
      /\ asking.object = Nothing /\ asking.report = "none"
  BY DEF Idle, TaskFields
<1>4. /\ DOMAIN locating = TaskFields /\ locating.pc = "locating" /\ locating.session = s
      /\ locating.object = Latest(w1) /\ locating.report = "none"
  BY DEF Idle, TaskFields
<1> HIDE DEF w1, asking, locating
<1>5. Shape(w1) /\ Mapped(w1)
  BY <1>1 DEF Calm, Within
<1>7. Same(w, w0) /\ w0.tasks[c] = asking
  <2>1. /\ w0.objects = w.objects /\ w0.sessions = w.sessions /\ w0.disposed = w.disposed
        /\ w0.requests = w.requests /\ DOMAIN w0 = DOMAIN w /\ DOMAIN w0.tasks = Tasks
        /\ w0.tasks[c] = asking /\ \A t \in Tasks \ {c} : w0.tasks[t] = w.tasks[t]
    BY DEF Shape
  <2> HIDE DEF w0
  <2>2. QED
    BY <1>3, <2>1, SameObjects
<1>8. Same(w1, w2) /\ Shape(w2) /\ w2.tasks[c] = locating /\ w2.objects = w1.objects
  <2>1. /\ w2.objects = w1.objects /\ w2.sessions = w1.sessions /\ w2.disposed = w1.disposed
        /\ w2.requests = w1.requests /\ DOMAIN w2 = DOMAIN w1 /\ DOMAIN w2.tasks = Tasks
        /\ w2.tasks[c] = locating /\ \A t \in Tasks \ {c} : w2.tasks[t] = w1.tasks[t]
    BY <1>5 DEF Shape
  <2> HIDE DEF w2
  <2>2. Shape(w2)
    BY <1>4, <1>5, <2>1, TaskMoves, StillShaped
  <2>3. QED
    BY <1>5, <2>1, <2>2, SameObjects
<1> HIDE DEF w0, w2
<1>9. Within(w, w0, s, {}) /\ Owned(w0, c) /\ w0.tasks[c].session = s
  <2>1. Within(w, w, s, {})
    BY DEF Within, Steady
  <2>2. Within(w, w0, s, {})
    BY <1>7, <2>1, WithinSame
  <2>3. QED
    BY <1>3, <1>7, <2>2 DEF Owned, Pending
<1>10. Within(w, w2, s, {}) /\ Owned(w2, c) /\ Pending(w2, c) /\ w2.tasks[c].session = s
  <2>1. Within(w, w2, s, {})
    BY <1>1, <1>8, WithinSame
  <2>2. QED
    BY <1>1, <1>4, <1>8, <2>1 DEF Owned, Pending
<1>11. Stays(c, w2, Targets(w2, c))
  BY <1>8, <1>10, TargetsStays DEF Ready, Within
<1>12. Within(w, Targets(w2, c), s, {})
  BY <1>10, <1>11, WithinSame DEF Stays
<1>13. QED
  BY <1>2, <1>9, <1>10, <1>11, <1>12 DEF Stays

\* The session that call c told something new between w and v.
Announced(c, w, v) ==
  IF v.tasks[c].pc # w.tasks[c].pc
     /\ (v.tasks[c].report = "ok" \/ v.tasks[c].pc \in {"reading", "applying"})
  THEN {w.tasks[c].session} ELSE {}

\* A call's session is given a new generation only when it is told.
Announces(c, w, v) ==
  /\ Within(w, v, w.tasks[c].session, Announced(c, w, v))
  /\ Owned(v, c) /\ v.tasks[c].session = w.tasks[c].session

LEMMA StaysAnnounces ==
  ASSUME NEW w, NEW c, Mapped(w), CanHold(w, w.tasks[c].session), NEW v, Stays(c, w, v)
  PROVE  Announces(c, w, v)
<1>1. \A S : Within(w, w, w.tasks[c].session, S)
  BY DEF Within, Steady
<1>2. Within(w, v, w.tasks[c].session, Announced(c, w, v))
  BY <1>1, WithinSame DEF Stays
<1>3. QED
  BY <1>2 DEF Announces, Stays

\* A task gives its own object a new generation.
LEMMA InvalidateOwn ==
  ASSUME NEW w, NEW c, Ready(w, c), NEW s, s = w.tasks[c].session, CanHold(w, s),
         NEW v, v = Invalidate(w, w.tasks[c].object)
  PROVE  Within(w, v, s, {s}) /\ Ready(v, c) /\ v.tasks = w.tasks
<1> DEFINE o == w.tasks[c].object
<1>1. Shape(w) /\ Mapped(w)
  BY DEF Ready
<1>2. Renewed(w, v, o) /\ Shape(v) /\ v.tasks = w.tasks
  BY <1>1, InvalidateRenewed, InvalidateCalm DEF Calm
<1>3. CASE o \in Objects
  <2>1. w.objects[o].session = s
    BY <1>3, NothingAssumption DEF Ready, Owned
  <2> HIDE DEF o
  <2>2. Mapped(v) /\ Steady(w, v, {s}) /\ In(v) = In(w) /\ (CanHold(w, s) => CanHold(v, s))
    BY <1>1, <1>2, <1>3, <2>1, RenewedMapped
  <2>3. Within(w, v, s, {s})
    BY <1>2, <2>2 DEF Within, Renewed
  <2>4. QED
    BY <1>2, <2>2, <2>3, SteadyReady
<1>4. CASE o \notin Objects
  <2>1. Same(w, v)
    BY <1>2, <1>4 DEF Renewed, Same
  <2>2. Within(w, w, s, {s})
    BY <1>1 DEF Within, Steady
  <2>3. Within(w, v, s, {s})
    BY <2>1, <2>2, WithinSame
  <2>4. QED
    BY <1>2, <2>3, SteadyReady DEF Within
<1>5. QED
  BY <1>3, <1>4

LEMMA SearchedAnnounces ==
  ASSUME NEW w, NEW c \in Tasks, Ready(w, c), CanHold(w, w.tasks[c].session),
         NEW v, v = Searched(w, c)
  PROVE  Announces(c, w, v)
<1> DEFINE t == w.tasks[c]
           o == t.object
           s == t.session
           r == Answer(w, c)
           w1 == Invalidate(w, o)
           z == [w1.objects[o] EXCEPT !.targets = t.targets]
           w2 == [w1 EXCEPT !.objects[o] = z]
           w3 == IF CallOf(w, c).op = "scope" THEN w2 ELSE w1
           w4 == [w3 EXCEPT !.objects[o].terms = t.terms]
           w5 == Seed(w3, o, t.terms, Receipt(r.targets, r.terms))
           cache == [key |-> Key(w4, o), slot |-> Nothing, receipt |-> Receipt(r.targets, r.terms)]
<1>0. Mapped(w)
  BY DEF Ready
<1>1. CASE r.outcome # "ok"
  <2>1. v = End(w, c, r.outcome)
    BY <1>1 DEF Searched, Refuse
  <2>2. QED
    BY <1>0, <2>1, EndStays, StaysAnnounces
<1>2. CASE r.outcome = "ok" /\ SignalAborted(w, c)
  <2>1. v = End(w, c, "not_started")
    BY <1>2 DEF Searched, Refuse, Invalid
  <2>2. QED
    BY <1>0, <2>1, EndStays, StaysAnnounces
<1>3. CASE r.outcome = "ok" /\ ~SignalAborted(w, c)
  <2>1. v = End(w5, c, "ok")
    <3>1. w2 = [w1 EXCEPT !.objects[o].targets = t.targets]
      OBVIOUS
    <3>2. QED
      BY <1>3, <3>1 DEF Searched
  <2>2. Within(w, w1, s, {s}) /\ Ready(w1, c) /\ w1.tasks = w.tasks
    BY InvalidateOwn
  <2> HIDE DEF w1
  <2>3. Carries(c, w1, w2)
    <3>1. Shape(w1) /\ Mapped(w1)
      BY <2>2 DEF Ready
    <3>2. /\ w2.objects = [w1.objects EXCEPT ![o] = z]
          /\ w2.sessions = w1.sessions /\ w2.disposed = w1.disposed
          /\ w2.tasks = w1.tasks /\ w2.requests = w1.requests /\ DOMAIN w2 = DOMAIN w1
      BY <3>1 DEF Shape
    <3>3. o \in Objects =>
            /\ DOMAIN z = ObjectFields /\ z.session = w1.objects[o].session
            /\ z.generation = w1.objects[o].generation
      BY <3>1 DEF Mapped, Listed, ObjectFields
    <3> HIDE DEF w2, z, o
    <3>4. QED
      BY <2>2, <3>2, <3>3, ObjectCarries
  <2> HIDE DEF w2
  <2>4. Ready(w3, c) /\ Carries(c, w1, w3)
    <3>1. Carries(c, w1, w1)
      BY <2>2 DEF Ready, Carries, Same, Mapped, Listed
    <3>2. w3 \in {w1, w2}
      OBVIOUS
    <3> HIDE DEF w3
    <3>3. QED
      BY <2>2, <2>3, <3>1, <3>2, CarriesReady
  <2> HIDE DEF w3
  <2>5. Carries(c, w3, w4)
    <3> DEFINE f == [w3.objects[o] EXCEPT !.terms = t.terms]
    <3>1. Shape(w3) /\ Mapped(w3)
      BY <2>4 DEF Ready
    <3>2. /\ w4.objects = [w3.objects EXCEPT ![o] = f]
          /\ w4.sessions = w3.sessions /\ w4.disposed = w3.disposed
          /\ w4.tasks = w3.tasks /\ w4.requests = w3.requests /\ DOMAIN w4 = DOMAIN w3
      BY <3>1 DEF Shape
    <3>3. o \in Objects =>
            /\ DOMAIN f = ObjectFields /\ f.session = w3.objects[o].session
            /\ f.generation = w3.objects[o].generation
      BY <3>1 DEF Mapped, Listed, ObjectFields
    <3> HIDE DEF w4, f, o
    <3>4. QED
      BY <2>4, <3>2, <3>3, ObjectCarries
  <2>6. w5 = [w4 EXCEPT !.objects[o].cache = cache]
    BY DEF Seed
  <2> HIDE DEF w4, w5, cache
  <2>7. Ready(w4, c) /\ Carries(c, w1, w4)
    BY <2>4, <2>5, CarriesReady, CarriesTwice
  <2>8. Carries(c, w4, w5)
    <3> DEFINE f == [w4.objects[o] EXCEPT !.cache = cache]
    <3>1. Shape(w4) /\ Mapped(w4)
      BY <2>7 DEF Ready
    <3>2. /\ w5.objects = [w4.objects EXCEPT ![o] = f]
          /\ w5.sessions = w4.sessions /\ w5.disposed = w4.disposed
          /\ w5.tasks = w4.tasks /\ w5.requests = w4.requests /\ DOMAIN w5 = DOMAIN w4
      BY <2>6, <3>1 DEF Shape
    <3>3. o \in Objects =>
            /\ DOMAIN f = ObjectFields /\ f.session = w4.objects[o].session
            /\ f.generation = w4.objects[o].generation
      BY <3>1 DEF Mapped, Listed, ObjectFields
    <3> HIDE DEF f, o
    <3>4. QED
      BY <2>7, <3>2, <3>3, ObjectCarries
  <2>9. Ready(w5, c) /\ Carries(c, w1, w5)
    BY <2>7, <2>8, CarriesReady, CarriesTwice
  <2>10. Stays(c, w5, v) /\ v.tasks[c].pc = "done" /\ v.tasks[c].report = "ok"
    BY <2>1, <2>9, EndStays
  <2>11. Stays(c, w1, v)
    BY <2>9, <2>10, CarriesStays
  <2>12. Within(w, v, s, {s})
    BY <2>2, <2>11, WithinSame DEF Stays
  <2>13. Announced(c, w, v) = {s}
    BY <2>10 DEF Announced, Ready, Pending
  <2>14. QED
    BY <2>2, <2>11, <2>12, <2>13 DEF Announces, Stays
<1>4. QED
  BY <1>1, <1>2, <1>3

LEMMA WrittenAnnounces ==
  ASSUME NEW w, NEW c \in Tasks, Ready(w, c), CanHold(w, w.tasks[c].session),
         w.tasks[c].pc = "writing", NEW v, v = Written(w, c)
  PROVE  Announces(c, w, v)
<1> DEFINE t == w.tasks[c]
           s == t.session
           w1 == Invalidate(w, t.object)
<1>0. Mapped(w)
  BY DEF Ready
<1>1. CASE Answer(w, c).outcome # "ok"
  <2>1. v = End(w, c, Answer(w, c).outcome)
    BY <1>1 DEF Written, Refuse
  <2>2. QED
    BY <1>0, <2>1, EndStays, StaysAnnounces
<1>2. CASE Answer(w, c).outcome = "ok"
  <2>1. v = Goto(Send(w1, c, "list", t.targets, Undefined, t.object, c), c, "reading")
    BY <1>2 DEF Written
  <2>2. Within(w, w1, s, {s}) /\ Ready(w1, c) /\ w1.tasks = w.tasks
    BY InvalidateOwn
  <2> HIDE DEF w1
  <2>3. Stays(c, w1, v) /\ v.tasks[c].pc = "reading"
    <3> HIDE DEF t
    <3>1. QED
      BY <2>1, <2>2, GotoSent
  <2>4. Within(w, v, s, {s})
    BY <2>2, <2>3, WithinSame DEF Stays
  <2>5. Announced(c, w, v) = {s}
    BY <2>3 DEF Announced
  <2>6. QED
    BY <2>2, <2>3, <2>4, <2>5 DEF Announces, Stays
<1>3. QED
  BY <1>1, <1>2

LEMMA AgreedAnnounces ==
  ASSUME NEW w, NEW c \in Tasks, Ready(w, c), CanHold(w, w.tasks[c].session),
         w.tasks[c].pc = "asking", NEW v, v = Agreed(w, c)
  PROVE  Announces(c, w, v)
<1> DEFINE t == w.tasks[c]
           s == t.session
           w1 == StateFor(w, s)
           o == Latest(w1)
           w2 == [w1 EXCEPT !.tasks[c].object = o]
           w3 == Invalidate(w1, o)
           database == [repository |-> Database, id |-> Nothing]
           apply == Goto(Send(w3, c, "apply", database, Undefined, Nothing, c), c, "applying")
<1>0. Shape(w) /\ Mapped(w) /\ s \in Sessions /\ s # Nothing
  BY NothingAssumption DEF Ready, Owned
<1>1. v \in {apply, Goto(w2, c, "relocating"), End(w2, c, "not_started"), Work(w2, c)}
  BY DEF Agreed, CallOf, Invalid, Refuse
<1>2. /\ Within(w, w1, s, {}) /\ Calm(w, w1) /\ Held(w1, s) # {}
      /\ o \in Objects /\ w1.objects[o].session = s
  BY <1>0, StateForWithin
<1>3. v = apply \/ v # apply
  OBVIOUS
<1> HIDE DEF w1, o
<1>4. Shape(w1) /\ Mapped(w1) /\ w1.tasks = w.tasks
  BY <1>2 DEF Calm, Within
<1>5. Ready(w1, c)
  BY <1>2, <1>4, SteadyReady DEF Within
<1>6. CASE v = apply
  <2>1. Renewed(w1, w3, o) /\ Shape(w3) /\ w3.tasks = w.tasks
    BY <1>4, InvalidateRenewed, InvalidateCalm DEF Calm
  <2> HIDE DEF w3
  <2>2. Mapped(w3) /\ Steady(w1, w3, {s}) /\ In(w3) = In(w1) /\ (CanHold(w1, s) => CanHold(w3, s))
    BY <1>2, <1>4, <2>1, RenewedMapped
  <2>3. Within(w1, w3, s, {s})
    BY <1>2, <2>1, <2>2 DEF Within, Renewed
  <2>4. Within(w, w3, s, {} \cup {s})
    BY <1>2, <2>3, WithinTwice
  <2>5. Ready(w3, c)
    BY <1>4, <1>5, <2>1, <2>2, SteadyReady
  <2>6. Stays(c, w3, v) /\ v.tasks[c].pc = "applying"
    <3> HIDE DEF database
    <3>1. QED
      BY <1>6, <2>5, GotoSent
  <2>7. {} \cup {s} = {s} /\ Announced(c, w, v) = {s}
    BY <2>6 DEF Announced
  <2>8. Within(w, v, s, {s})
    BY <2>4, <2>6, <2>7, WithinSame DEF Stays
  <2>9. QED
    BY <2>1, <2>6, <2>7, <2>8 DEF Announces, Stays
<1>7. CASE v # apply
  <2>1. /\ w2.objects = w1.objects /\ w2.sessions = w1.sessions /\ w2.disposed = w1.disposed
        /\ w2.requests = w1.requests /\ DOMAIN w2 = DOMAIN w1 /\ DOMAIN w2.tasks = Tasks
        /\ w2.tasks[c] = [w1.tasks[c] EXCEPT !.object = o]
        /\ \A x \in Tasks \ {c} : w2.tasks[x] = w1.tasks[x]
    BY <1>4 DEF Shape
  <2> HIDE DEF w2
  <2>2. DOMAIN w1.tasks[c] = TaskFields
    BY <1>4 DEF Shape
  <2>3. /\ DOMAIN w2.tasks[c] = TaskFields /\ w2.tasks[c].object = o
        /\ w2.tasks[c].session = s /\ w2.tasks[c].pc = "asking"
        /\ w2.tasks[c].report = w.tasks[c].report
    BY <1>4, <2>1, <2>2 DEF TaskFields
  <2>4. Shape(w2)
    BY <1>4, <2>1, <2>3, TaskMoves, StillShaped
  <2>5. Same(w1, w2)
    BY <1>4, <2>1, SameObjects
  <2>6. Within(w, w2, s, {})
    BY <1>2, <2>5, WithinSame
  <2>7. Owned(w2, c) /\ Pending(w2, c)
    BY <1>0, <1>2, <2>1, <2>3 DEF Ready, Owned, Pending
  <2>8. Ready(w2, c)
    BY <2>4, <2>6, <2>7 DEF Ready, Within
  <2>9. Stays(c, w2, v) /\ v.tasks[c].pc \in {"relocating", "done", "writing", "searching"}
        /\ v.tasks[c].report # "ok"
    <3>1. Stays(c, w2, End(w2, c, "not_started")) /\ End(w2, c, "not_started").tasks[c].pc = "done"
          /\ End(w2, c, "not_started").tasks[c].report = "not_started"
      BY <2>8, EndStays
    <3>2. Stays(c, w2, Goto(w2, c, "relocating")) /\ Goto(w2, c, "relocating").tasks[c].pc = "relocating"
      BY <2>8, GotoStays
    <3>3. Stays(c, w2, Work(w2, c)) /\ Work(w2, c).tasks[c].pc \in {"writing", "searching"}
      BY <2>8, WorkStays
    <3> HIDE DEF apply
    <3>4. QED
      BY <1>1, <1>7, <3>1, <3>2, <3>3 DEF Stays, Owned
  <2>10. Within(w, v, s, {})
    BY <2>6, <2>9, WithinSame DEF Stays
  <2>11. Announced(c, w, v) = {}
    BY <2>9 DEF Announced
  <2>12. QED
    BY <2>3, <2>9, <2>10, <2>11 DEF Announces, Stays
<1>8. QED
  BY <1>6, <1>7

LEMMA CallingAnnounces ==
  ASSUME NEW w, NEW c \in Tasks, Ready(w, c), CanHold(w, w.tasks[c].session),
         w.tasks[c].pc \in {"resolving", "selecting", "searching", "writing", "reading",
                            "applying", "checking", "looking"},
         NEW v, v = Calling(w, c)
  PROVE  Announces(c, w, v)
<1> DEFINE outcome == Answer(w, c).outcome
           targets == Answer(w, c).targets
           u == Selected(w, c)
           read == Send(w, c, "read", targets, Undefined, Nothing, c)
<1>0. Mapped(w)
  BY DEF Ready
<1>1. CASE w.tasks[c].pc = "resolving"
  <2>1. v \in {Targeted(w, c, targets), End(w, c, outcome)}
    BY <1>1 DEF Calling, Refuse
  <2>2. QED
    BY <1>0, <2>1, TargetedStays, EndStays, StaysAnnounces
<1>2. CASE w.tasks[c].pc = "selecting"
  <2>1. v \in {Targeted(u, c, targets), End(u, c, outcome)}
    BY <1>2 DEF Calling, Refuse
  <2>2. Carries(c, w, u)
    BY SelectedCarries
  <2> HIDE DEF u
  <2>3. Ready(u, c)
    BY <2>2, CarriesReady
  <2>4. Stays(c, u, v)
    BY <2>1, <2>3, TargetedStays, EndStays
  <2>5. QED
    BY <1>0, <2>2, <2>4, CarriesStays, StaysAnnounces
<1>3. CASE w.tasks[c].pc = "searching"
  <2>1. v = Searched(w, c)
    BY <1>3 DEF Calling
  <2>2. QED
    BY <2>1, SearchedAnnounces
<1>4. CASE w.tasks[c].pc = "writing"
  <2>1. v = Written(w, c)
    BY <1>4 DEF Calling
  <2>2. QED
    BY <1>4, <2>1, WrittenAnnounces
<1>5. CASE w.tasks[c].pc \in {"reading", "checking", "looking"}
  <2>1. \E report : v = End(w, c, report)
    BY <1>5 DEF Calling
  <2>2. QED
    BY <1>0, <2>1, EndStays, StaysAnnounces
<1>6. CASE w.tasks[c].pc = "applying"
  <2>1. v = Applied(w, c)
    BY <1>6 DEF Calling
  <2>2. v \in {End(w, c, outcome), Goto(read, c, "checking"), Goto(read, c, "looking")}
    BY <2>1 DEF Applied, Refuse
  <2>3. Stays(c, w, Goto(read, c, "checking")) /\ Stays(c, w, Goto(read, c, "looking"))
    BY GotoSent
  <2> HIDE DEF read
  <2>4. QED
    BY <1>0, <2>2, <2>3, EndStays, StaysAnnounces
<1>7. QED
  BY <1>1, <1>2, <1>3, <1>4, <1>5, <1>6

-----------------------------------------------------------------------------
(* Garbage.                                                                *)

LEMMA UnionBound ==
  ASSUME NEW S, NEW T, IsFiniteSet(S), IsFiniteSet(T)
  PROVE  /\ IsFiniteSet(S \cup T)
         /\ Cardinality(S \cup T) <= Cardinality(S) + Cardinality(T)
<1>1. /\ IsFiniteSet(S \cup T) /\ IsFiniteSet(S \cap T)
      /\ Cardinality(S \cup T) = Cardinality(S) + Cardinality(T) - Cardinality(S \cap T)
  <2>1. IsFiniteSet(S \cap T)
    BY FS_Subset
  <2>2. QED
    BY <2>1, FS_Union
<1>2. Cardinality(S) \in Nat /\ Cardinality(T) \in Nat /\ Cardinality(S \cap T) \in Nat
  BY <1>1, FS_CardinalityType
<1>3. QED
  BY <1>1, <1>2

\* Two objects for each task, and the map's, are not all of them.
LEMMA SomeSpare ==
  ASSUME NEW w, Mapped(w), NEW f, NEW g
  PROVE  \E o \in Objects : /\ o \notin In(w)
                            /\ \A t \in Tasks : o # f[t] /\ o # g[t]
<1> DEFINE n == Len(w.sessions)
           A == {"map"} \X (1..n)
           B == {"f", "g"} \X Tasks
           W == A \cup B
           at == [z \in W |-> IF z[1] = "map" THEN w.sessions[z[2]] ELSE IF z[1] = "f" THEN f[z[2]] ELSE g[z[2]]]
           place == [o \in Objects |-> CHOOSE z \in W : at[z] = o]
<1>1. n \in Nat /\ n <= MaxSessions /\ MaxSessions \in Nat
  BY SessionsAssumption DEF Mapped, Listed
<1>2. IsFiniteSet(A) /\ Cardinality(A) = n
  <2>1. IsFiniteSet(1..n) /\ Cardinality(1..n) = n
    BY <1>1, FS_Interval
  <2>2. IsFiniteSet({"map"}) /\ Cardinality({"map"}) = 1
    BY FS_Singleton
  <2> HIDE DEF n
  <2>3. IsFiniteSet(A) /\ Cardinality(A) = Cardinality({"map"}) * Cardinality(1..n)
    BY <2>1, <2>2, FS_Product
  <2>4. QED
    BY <1>1, <2>1, <2>2, <2>3
<1>3. IsFiniteSet(B) /\ Cardinality(B) = 2 * Cardinality(Tasks) /\ Cardinality(Tasks) \in Nat
  <2>1. IsFiniteSet({"f"}) /\ Cardinality({"f"}) = 1
    BY FS_Singleton
  <2>2. IsFiniteSet({"f"} \cup {"g"}) /\ Cardinality({"f"} \cup {"g"}) = 2
    BY <2>1, FS_AddElement
  <2>3. {"f"} \cup {"g"} = {"f", "g"}
    OBVIOUS
  <2>4. IsFiniteSet(Tasks) /\ Cardinality(Tasks) \in Nat
    BY ObjectsAssumption, FS_CardinalityType
  <2>5. IsFiniteSet(B) /\ Cardinality(B) = Cardinality({"f", "g"}) * Cardinality(Tasks)
    BY <2>2, <2>3, <2>4, FS_Product
  <2>6. QED
    BY <2>2, <2>3, <2>4, <2>5
<1> HIDE DEF n, A, B
<1>4. /\ IsFiniteSet(W) /\ Cardinality(W) <= Cardinality(A) + Cardinality(B)
      /\ Cardinality(W) \in Nat
  BY <1>2, <1>3, UnionBound, FS_CardinalityType
<1>5. Cardinality(W) < Cardinality(Objects)
  <2> HIDE DEF W
  <2>1. Cardinality(Objects) \in Nat
    BY ObjectsAssumption, FS_CardinalityType
  <2>2. QED
    BY <1>1, <1>2, <1>3, <1>4, <2>1, ObjectsAssumption
<1> SUFFICES ASSUME \A o \in Objects : o \in In(w) \/ \E t \in Tasks : o = f[t] \/ o = g[t]
             PROVE  FALSE
  OBVIOUS
<1>6. \A o \in Objects : \E z \in W : at[z] = o
  <2> TAKE o \in Objects
  <2>1. CASE o \in In(w)
    <3>1. DOMAIN w.sessions = 1..n
      BY InListed DEF Mapped, n
    <3>2. PICK k \in 1..n : w.sessions[k] = o
      BY <2>1, <3>1 DEF In, ToSet
    <3>3. <<"map", k>> \in W /\ at[<<"map", k>>] = o
      BY <3>2 DEF A
    <3>4. QED
      BY <3>3
  <2>2. CASE \E t \in Tasks : o = f[t] \/ o = g[t]
    <3>1. PICK t \in Tasks : o = f[t] \/ o = g[t]
      BY <2>2
    <3>2. <<"f", t>> \in W /\ <<"g", t>> \in W /\ at[<<"f", t>>] = f[t] /\ at[<<"g", t>>] = g[t]
      BY DEF B
    <3>3. QED
      BY <3>1, <3>2
  <2>3. QED
    BY <2>1, <2>2
<1> HIDE DEF W, at
<1>7. place \in [Objects -> W] /\ \A o \in Objects : at[place[o]] = o
  BY <1>6
<1> HIDE DEF place
<1>8. \E o, p \in Objects : o # p /\ place[o] = place[p]
  BY <1>4, <1>5, <1>7, ObjectsAssumption, FS_PigeonHole
<1>9. QED
  BY <1>7, <1>8

\* The objects that are not collected are where they were, and there is one
\* to be had.
LEMMA SweptObjects ==
  ASSUME NEW w, Shape(w), Mapped(w), NEW v, v = Swept(w)
  PROVE  /\ v.sessions = w.sessions /\ v.disposed = w.disposed
         /\ Mapped(v) /\ Spare(v) /\ In(v) = In(w)
         /\ \A o \in In(w) \cup {w.tasks[t].object : t \in {t \in Tasks : Pending(w, t)}} :
              o \in Objects =>
                v.objects[o].session = w.objects[o].session /\ v.objects[o].generation = 1
<1> DEFINE reached == {t \in Tasks : Pending(w, t)}
           asking == {t \in reached : w.tasks[t].pc \in {"asking", "relocating"}}
           arrays == {w.tasks[t].targets.id : t \in asking} \ {Nothing}
           kept == ToSet(w.sessions) \cup ({w.tasks[t].object : t \in reached} \ {Nothing})
                   \cup {w.approvals[a].object : a \in arrays}
           f == [t \in Tasks |-> w.tasks[t].object]
           g == [t \in Tasks |-> w.approvals[w.tasks[t].targets.id].object]
<1>1. /\ v.sessions = w.sessions /\ v.disposed = w.disposed
      /\ v.objects = [o \in Objects |-> IF o \in kept THEN [w.objects[o] EXCEPT !.generation = 1] ELSE Blank]
  BY DEF Swept, Shape
<1>2. \A o \in kept : o \in In(w) \/ \E t \in Tasks : o = f[t] \/ o = g[t]
  BY DEF In
<1>3. PICK spare \in Objects : spare \notin In(w) /\ \A t \in Tasks : spare # f[t] /\ spare # g[t]
  <2> HIDE DEF f, g
  <2>1. QED
    BY SomeSpare
<1>4. spare \notin kept
  BY <1>2, <1>3
<1>5. /\ In(w) \subseteq kept
      /\ \A t \in Tasks : Pending(w, t) /\ w.tasks[t].object \in Objects => w.tasks[t].object \in kept
  BY NothingAssumption DEF In
<1> HIDE DEF kept, f, g
<1>6. /\ DOMAIN v.objects = Objects
      /\ \A o \in Objects : DOMAIN v.objects[o] = ObjectFields
      /\ \A o \in Objects : o \in kept =>
           v.objects[o].session = w.objects[o].session /\ v.objects[o].generation = 1
      /\ \A o \in Objects : o \notin kept => v.objects[o].session = Nothing
  BY <1>1 DEF Mapped, Listed, ObjectFields, Blank, NewObject
<1>7. In(v) = In(w) /\ In(w) \subseteq Objects
  BY <1>1, InListed DEF In, Mapped
<1>8. Mapped(v)
  <2>1. v.sessions = w.sessions /\ w.sessions \in Seq(Objects)
    BY <1>1 DEF Mapped, Listed
  <2>2. \A k \in 1..Len(w.sessions) : w.sessions[k] \in Objects /\ w.sessions[k] \in In(w)
    <3>1. DOMAIN w.sessions = 1..Len(w.sessions)
      BY <2>1
    <3>2. QED
      BY <1>7, <3>1 DEF In, ToSet
  <2>3. \A j, k \in 1..Len(v.sessions) :
          v.objects[v.sessions[j]].session = v.objects[v.sessions[k]].session => j = k
    BY <1>5, <1>6, <2>1, <2>2 DEF Mapped, Listed
  <2>4. \A o \in In(v) : v.objects[o].session # Nothing
    BY <1>5, <1>6, <1>7 DEF Mapped, Listed
  <2>5. QED
    BY <1>6, <2>1, <2>3, <2>4 DEF Mapped, Listed
<1>9. Spare(v)
  BY <1>3, <1>4, <1>6 DEF Spare
<1>10. QED
  BY <1>1, <1>5, <1>6, <1>7, <1>8, <1>9

LEMMA SweptTasks ==
  ASSUME NEW w, Shape(w), NEW v, v = Swept(w), NEW t \in Tasks
  PROVE  /\ \A f \in TaskFields \ {"generation"} : v.tasks[t][f] = w.tasks[t][f]
         /\ w.tasks[t].object # Nothing /\ w.tasks[t].generation = w.objects[w.tasks[t].object].generation
              => v.tasks[t].generation = 1
<1> DEFINE current == IF w.tasks[t].object # Nothing /\ w.tasks[t].generation = w.objects[w.tasks[t].object].generation THEN 1 ELSE 0
<1>1. v.tasks[t] = [w.tasks[t] EXCEPT !.generation = current]
  BY DEF Swept, Shape
<1>2. DOMAIN w.tasks[t] = TaskFields /\ "generation" \in TaskFields
  BY DEF Shape, TaskFields
<1> HIDE DEF current
<1>3. /\ \A f \in TaskFields \ {"generation"} : v.tasks[t][f] = w.tasks[t][f]
      /\ v.tasks[t].generation = current
  BY <1>1, <1>2
<1>4. QED
  BY <1>3 DEF current

\* A hook is out of date, or settles.
HookStands(w, x, sup) == w.disposed \/ x \in sup \/ Settles(w, x)

\* Where objects and tasks are, when hooks sup are out of date.
Places(w, sup) ==
  /\ Mapped(w)
  /\ \A t \in Tasks : Owned(w, t)
  /\ \A x \in Transforms : HookStands(w, x, sup)

LEMMA SweptPlaces ==
  ASSUME NEW w, Shape(w), NEW sup, Places(w, sup), NEW v, v = Swept(w)
  PROVE  Places(v, sup) /\ Spare(v)
<1>1. /\ v.sessions = w.sessions /\ v.disposed = w.disposed
      /\ Mapped(v) /\ Spare(v) /\ In(v) = In(w)
      /\ \A o \in In(w) \cup {w.tasks[t].object : t \in {t \in Tasks : Pending(w, t)}} :
           o \in Objects =>
             v.objects[o].session = w.objects[o].session /\ v.objects[o].generation = 1
  BY SweptObjects DEF Places
<1>2. ASSUME NEW t \in Tasks
      PROVE  /\ v.tasks[t].pc = w.tasks[t].pc /\ v.tasks[t].object = w.tasks[t].object
             /\ v.tasks[t].session = w.tasks[t].session /\ v.tasks[t].report = w.tasks[t].report
             /\ w.tasks[t].object # Nothing
                  /\ w.tasks[t].generation = w.objects[w.tasks[t].object].generation
                  => v.tasks[t].generation = 1
  BY SweptTasks DEF TaskFields
<1>3. ASSUME NEW t \in Tasks
      PROVE  Owned(v, t)
  <2>1. Owned(w, t)
    BY DEF Places
  <2>2. w.tasks[t].object # Nothing => v.objects[w.tasks[t].object].session = w.objects[w.tasks[t].object].session
    BY <1>1, <2>1 DEF Owned
  <2>3. QED
    BY <1>2, <2>1, <2>2 DEF Owned, Pending
<1>4. ASSUME NEW x \in Transforms
      PROVE  HookStands(v, x, sup)
  <2>0. x \in Tasks
    BY DEF Tasks
  <2>1. CASE w.disposed \/ x \in sup
    BY <1>1, <2>1 DEF HookStands
  <2>3. CASE Settles(w, x)
    <3>1. Fresh(w, x) => Fresh(v, x)
      <4> SUFFICES ASSUME Fresh(w, x)
                   PROVE  Fresh(v, x)
        OBVIOUS
      <4>1. w.tasks[x].object \in In(w) /\ w.tasks[x].object \in Objects
        BY InListed DEF Fresh, Places, Mapped
      <4>2. w.tasks[x].object # Nothing
        BY <4>1, NothingAssumption
      <4>3. QED
        BY <1>1, <1>2, <2>0, <4>1, <4>2 DEF Fresh
    <3>2. QED
      BY <1>1, <1>2, <2>0, <2>3, <3>1 DEF Settles, HookStands
  <2>4. QED
    BY <2>1, <2>3 DEF Places, HookStands
<1>5. QED
  BY <1>1, <1>3, <1>4 DEF Places

-----------------------------------------------------------------------------
(* What a step does to hooks that it is not a step of.                     *)

PlaceInv == Places(World, superseded) /\ Spare(World)

\* The sessions that a step into w changes.
Moved(w, touched) == touched \cup Dropped(w) \cup {tasks[c].session : c \in Told(w)}

LEMMA SupersededThen ==
  ASSUME NEW w, NEW touched, Become(w, touched), NEW x \in Transforms
  PROVE  /\ x \in superseded /\ x \notin Taking(w) => x \in superseded'
         /\ Pending(World, x) /\ tasks[x].session \in Moved(w, touched) /\ x \notin Taking(w)
              => x \in superseded'
  BY DEF Become, Moved

LEMMA HookLeft ==
  ASSUME PluginInv, PlaceInv, NEW w, NEW touched, Become(w, touched),
         NEW S, Steady(World, w, S), Mapped(w),
         NEW x \in Transforms, w.tasks[x] = tasks[x], S \subseteq Moved(w, touched)
  PROVE  HookStands(w, x, superseded')
<1> DEFINE t == tasks[x]
           o == t.object
           s == t.session
<1>1. World.tasks = tasks /\ World.disposed = disposed /\ World.objects = objects
  BY DEF World
<1>2. x \notin Taking(w)
  BY DEF Taking
<1>3. HookStands(World, x, superseded) /\ Owned(World, x) /\ Mapped(World)
  BY DEF PlaceInv, Places, Tasks
<1>4. CASE disposed
  BY <1>1, <1>4 DEF Steady, HookStands
<1>5. CASE x \in superseded
  BY <1>2, <1>5, SupersededThen DEF HookStands
<1>7. CASE Settles(World, x)
  <2>1. CASE ~Pending(World, x)
    BY <1>1, <1>7, <2>1 DEF Settles, Pending, HookStands
  <2>2. CASE Pending(World, x) /\ s \in Moved(w, touched)
    BY <1>2, <2>2, SupersededThen DEF HookStands
  <2>3. CASE Pending(World, x) /\ s \notin Moved(w, touched)
    <3>1. s \in Sessions /\ t.report = "none"
      BY <1>1, <1>3, <2>3 DEF Owned, Pending
    <3>2. ASSUME o \in In(World)
          PROVE  /\ o \in In(w)
                 /\ w.objects[o].generation = objects[o].generation
      <4>1. o \in Objects /\ o # Nothing
        BY <1>3, <3>2, InListed, NothingAssumption DEF Mapped
      <4>2. objects[o].session = s /\ s # Nothing
        BY <1>1, <1>3, <3>1, <4>1, NothingAssumption DEF Owned
      <4>3. o \in Held(World, s)
        BY <1>1, <3>2, <4>2 DEF Held, In
      <4>4. s \notin Dropped(w)
        BY <2>3 DEF Moved
      <4>5. Held(w, s) = Held(World, s)
        BY <3>1, <4>3, <4>4 DEF Dropped
      <4>6. o \in In(w)
        BY <4>3, <4>5 DEF Held, In
      <4>7. s \notin S
        BY <2>3
      <4>8. QED
        BY <1>1, <4>1, <4>2, <4>6, <4>7 DEF Steady
    <3>3. QED
      BY <1>1, <1>7, <3>1, <3>2 DEF Settles, Fresh, HookStands
  <2>4. QED
    BY <2>1, <2>2, <2>3
<1>8. QED
  BY <1>1, <1>3, <1>4, <1>5, <1>7 DEF HookStands

\* A task that did not move holds what it held.
LEMMA StillOwned ==
  ASSUME NEW w, NEW t, Owned(w, t), NEW v, NEW S, Steady(w, v, S), v.tasks[t] = w.tasks[t]
  PROVE  Owned(v, t)
<1>1. w.tasks[t].object # Nothing => w.tasks[t].session # Nothing
  BY NothingAssumption DEF Owned
<1>2. QED
  BY <1>1 DEF Owned, Pending, Steady

\* The world that is swept is the next one.
LEMMA NextPlaces ==
  ASSUME NEW w, Shape(w), NEW touched, Become(w, touched), Places(w, superseded')
  PROVE  PlaceInv'
<1> DEFINE v == Swept(w)
<1>1. Places(v, superseded') /\ Spare(v)
  <2>1. v = Swept(w)
    OBVIOUS
  <2> HIDE DEF v
  <2>2. QED
    BY <2>1, SweptPlaces
<1>2. /\ World'.objects = v.objects /\ World'.sessions = v.sessions
      /\ World'.disposed = v.disposed /\ World'.tasks = v.tasks
  BY DEF Become, World
<1> HIDE DEF v
<1>3. Mapped(World')
  BY <1>1, <1>2 DEF Places, Mapped, Listed, In
<1>4. \A t \in Tasks : Owned(World', t)
  BY <1>1, <1>2 DEF Places, Owned, Pending
<1>5. \A x \in Transforms : HookStands(World', x, superseded')
  BY <1>1, <1>2 DEF Places, HookStands, Settles, Fresh, In
<1>6. Spare(World')
  BY <1>1, <1>2 DEF Spare
<1>7. QED
  BY <1>3, <1>4, <1>5, <1>6 DEF PlaceInv, Places

\* A step of the tasks T, which hold what they should, and of the sessions S.
LEMMA StepPlaces ==
  ASSUME PluginInv, PlaceInv, NEW w, Shape(w), Mapped(w), NEW touched, Become(w, touched),
         NEW S, Steady(World, w, S),
         NEW T, \A t \in Tasks \ T : w.tasks[t] = tasks[t],
         \A t \in Tasks \cap T : /\ Owned(w, t)
                                 /\ tasks[t].session # Nothing => w.tasks[t].session = tasks[t].session,
         \A x \in Transforms \cap T : HookStands(w, x, superseded'),
         S \subseteq Moved(w, touched)
  PROVE  PlaceInv'
<1>1. World.tasks = tasks
  BY DEF World
<1>2. \A t \in Tasks : Owned(w, t)
  <2> TAKE t \in Tasks
  <2>1. CASE t \in T
    BY <2>1
  <2>2. CASE t \notin T
    <3>1. Owned(World, t) /\ w.tasks[t] = World.tasks[t]
      BY <1>1, <2>2 DEF PlaceInv, Places
    <3>2. QED
      BY <3>1, StillOwned
  <2>3. QED
    BY <2>1, <2>2
<1>4. ASSUME NEW x \in Transforms, x \notin T
      PROVE  HookStands(w, x, superseded')
  <2>1. w.tasks[x] = tasks[x]
    BY <1>4 DEF Tasks
  <2>2. QED
    BY <2>1, HookLeft
<1>5. Places(w, superseded')
  BY <1>2, <1>4 DEF Places
<1>6. QED
  BY <1>5, NextPlaces

\* A step that no task takes.
LEMMA CalmPlaces ==
  ASSUME PluginInv, PlaceInv, NEW w, Calm(World, w), Mapped(w), NEW touched, Become(w, touched),
         NEW S, Steady(World, w, S), S \subseteq touched
  PROVE  PlaceInv'
<1>1. Shape(w) /\ w.tasks = tasks
  BY DEF Calm, World
<1>2. S \subseteq Moved(w, touched)
  BY DEF Moved
<1> DEFINE T == {}
<1>3. /\ \A t \in Tasks \ T : w.tasks[t] = tasks[t]
      /\ Tasks \cap T = {} /\ Transforms \cap T = {}
  BY <1>1
<1> HIDE DEF T
<1>4. QED
  BY <1>1, <1>2, <1>3, StepPlaces

\* A step of call c.
LEMMA CallPlaces ==
  ASSUME PluginInv, PlaceInv, NEW c \in Calls, NEW w, Shape(w), Mapped(w), Become(w, {}),
         NEW S, Steady(World, w, S), S \subseteq Moved(w, {}),
         \A t \in Tasks \ {c} : w.tasks[t] = tasks[t],
         Owned(w, c), tasks[c].session # Nothing => w.tasks[c].session = tasks[c].session
  PROVE  PlaceInv'
<1>1. \A x \in Transforms \cap {c} : HookStands(w, x, superseded')
  BY TasksAssumption
<1>2. \A t \in Tasks \cap {c} : /\ Owned(w, t)
                                /\ tasks[t].session # Nothing => w.tasks[t].session = tasks[t].session
  OBVIOUS
<1> DEFINE T == {c}
<1>3. /\ \A t \in Tasks \ T : w.tasks[t] = tasks[t]
      /\ \A t \in Tasks \cap T : /\ Owned(w, t)
                                 /\ tasks[t].session # Nothing => w.tasks[t].session = tasks[t].session
      /\ \A x \in Transforms \cap T : HookStands(w, x, superseded')
  BY <1>1, <1>2
<1> HIDE DEF T
<1>4. QED
  BY <1>3, StepPlaces

\* A step of hook x.
LEMMA HookPlaces ==
  ASSUME PluginInv, PlaceInv, NEW x \in Transforms, NEW w, Shape(w), Mapped(w),
         NEW touched, Become(w, touched), NEW S, Steady(World, w, S),
         S \subseteq touched,
         \A t \in Tasks \ {x} : w.tasks[t] = tasks[t],
         Owned(w, x), tasks[x].session # Nothing => w.tasks[x].session = tasks[x].session,
         HookStands(w, x, superseded')
  PROVE  PlaceInv'
<1> DEFINE T == {x}
<1>1. /\ \A t \in Tasks \ T : w.tasks[t] = tasks[t]
      /\ \A t \in Tasks \cap T : /\ Owned(w, t)
                                 /\ tasks[t].session # Nothing => w.tasks[t].session = tasks[t].session
      /\ \A y \in Transforms \cap T : HookStands(w, y, superseded')
  OBVIOUS
<1>2. S \subseteq Moved(w, touched)
  BY DEF Moved
<1> HIDE DEF T
<1>3. QED
  BY <1>1, <1>2, StepPlaces

-----------------------------------------------------------------------------
(* Every step keeps the objects, the tasks and the hooks in place.         *)

\* What a step starts from.
LEMMA HerePlaced ==
  ASSUME PluginInv, PlaceInv
  PROVE  /\ Shape(World) /\ Mapped(World) /\ World.tasks = tasks
         /\ World.disposed = disposed /\ World.objects = objects
         /\ \A s : CanHold(World, s)
         /\ \A t \in Tasks : Owned(World, t) /\ (Pending(World, t) => Ready(World, t))
  BY Here DEF PlaceInv, Places, CanHold, World, Ready

LEMMA TaskRests ==
  ASSUME PluginInv, PlaceInv, NEW x \in Transforms,
         tasks[x].pc \in {"selecting", "recalling", "recording"},
         NEW w, Become(w, {}), Moves(x, World, w), Rests(x, World, w)
  PROVE  PlaceInv'
<1>1. /\ Shape(World) /\ Mapped(World) /\ World.tasks = tasks /\ World.disposed = disposed
  BY HerePlaced
<1>2. Shape(w) /\ \A t \in Tasks \ {x} : w.tasks[t] = tasks[t]
  BY <1>1 DEF Moves
<1>3. Mapped(w) /\ Steady(World, w, {}) /\ w.disposed = disposed
  BY <1>1, SameMapped DEF Rests, Stays, Same
<1>4. Owned(w, x) /\ w.tasks[x].session = tasks[x].session
  BY <1>1 DEF Rests, Stays
<1>5. HookStands(w, x, superseded')
  <2>1. HookStands(World, x, superseded)
    BY DEF PlaceInv, Places
  <2>2. CASE disposed
    BY <1>3, <2>2 DEF HookStands
  <2>3. CASE x \in superseded
    <3>1. x \notin Taking(w)
      BY DEF Taking
    <3>2. QED
      BY <2>3, <3>1, SupersededThen DEF HookStands
  <2>5. CASE Settles(World, x) /\ ~disposed
    <3>1. Fresh(World, x)
      BY <1>1, <2>5 DEF Settles
    <3>2. QED
      BY <1>1, <2>5, <3>1 DEF Rests, HookStands
  <2>6. QED
    BY <1>1, <2>1, <2>2, <2>3, <2>5 DEF HookStands
<1> DEFINE S == {}
<1>6. Steady(World, w, S) /\ S \subseteq {}
  BY <1>3
<1> HIDE DEF S
<1>7. QED
  BY <1>2, <1>3, <1>4, <1>5, <1>6, HookPlaces

LEMMA WakeTransformPlaces ==
  ASSUME PluginInv, PlaceInv, NEW x \in Transforms, WakeTransform(x)
  PROVE  PlaceInv'
<1> DEFINE v == Transforming(World, x)
<1>1. Become(v, {}) /\ v = Transforming(World, x) /\ x \in Tasks
  BY DEF WakeTransform, Tasks
<1>2. World.tasks[x].pc \in {"selecting", "recalling"}
  BY <1>1, Here, SlotsAssumption DEF WakeTransform, Wakes, PluginInv, WorldInv, Hooked, Waits
<1>3. Moves(x, World, v)
  BY <1>1, <1>2, Here, TransformingMoves
<1>4. Ready(World, x)
  BY <1>1, HerePlaced DEF WakeTransform, Wakes
<1> HIDE DEF v
<1>5. Rests(x, World, v)
  BY <1>1, <1>2, <1>4, TransformingRests
<1>6. QED
  BY <1>1, <1>2, <1>3, <1>5, Here, TaskRests

LEMMA RecordedPlaces ==
  ASSUME PluginInv, PlaceInv, NEW x \in Transforms, Recorded(x)
  PROVE  PlaceInv'
<1> DEFINE v == Injected(World, x)
<1>1. Become(v, {}) /\ v = Injected(World, x) /\ x \in Tasks /\ tasks[x].pc = "recording"
  BY DEF Recorded, Tasks
<1>2. Moves(x, World, v)
  BY <1>1, Here, InjectedMoves
<1>3. Ready(World, x)
  BY <1>1, HerePlaced DEF Pending
<1> HIDE DEF v
<1>4. Rests(x, World, v)
  BY <1>1, <1>3, InjectedRests
<1>5. QED
  BY <1>1, <1>2, <1>4, TaskRests

LEMMA StartTransformPlaces ==
  ASSUME PluginInv, PlaceInv, NEW x \in Transforms, NEW s \in Working, StartTransform(x, s)
  PROVE  PlaceInv'
<1> DEFINE w == StateFor(World, s)
           w1 == Invalidate(w, Latest(w))
           quieted == End(w1, x, "quiet")
           started == Transform(World, x, s, latest[s])
           taken == IF w.objects[Latest(w)].directory THEN Overtaken(World, s, Latest(w), latest[s]) ELSE {}
<1>0. /\ x \in Tasks /\ s \in Sessions /\ s # Nothing
      /\ Shape(World) /\ Mapped(World) /\ World.tasks = tasks /\ CanHold(World, s)
      /\ World.disposed = disposed
  BY HerePlaced, WorkingAssumption, NothingAssumption DEF Tasks
<1>1. tasks[x].pc = "idle" /\ ~disposed /\ (Become(quieted, {s}) \/ Become(started, taken))
  BY DEF StartTransform
<1>2. tasks[x].session = Nothing
  <2>1. Owned(World, x)
    BY <1>0, HerePlaced
  <2>2. QED
    BY <1>0, <1>1, <2>1 DEF Owned
<1>3. CASE Become(quieted, {s})
  <2> DEFINE o == Latest(w)
  <2>1. /\ Within(World, w, s, {}) /\ Calm(World, w)
        /\ o \in Objects /\ w.objects[o].session = s
    BY <1>0, StateForWithin
  <2> HIDE DEF w, o
  <2>2. Shape(w) /\ Mapped(w) /\ w.tasks = tasks
    BY <1>0, <2>1 DEF Calm, Within
  <2>3. Renewed(w, w1, o) /\ Shape(w1) /\ w1.tasks = tasks
    BY <2>2, InvalidateRenewed, InvalidateCalm DEF Calm, o
  <2> HIDE DEF w1
  <2>4. Mapped(w1) /\ Steady(w, w1, {s})
    BY <2>1, <2>2, <2>3, RenewedMapped
  <2>5. Steady(World, w1, {} \cup {s})
    BY <2>1, <2>4, SteadyTwice DEF Within
  <2>6. Moves(x, w1, quieted) /\ quieted.tasks[x].pc = "done" /\ quieted.tasks[x].report = "quiet"
    BY <1>0, <2>3, EndMoves
  <2>7. /\ quieted.objects = w1.objects /\ quieted.sessions = w1.sessions
        /\ quieted.disposed = w1.disposed
        /\ quieted.tasks[x].object = Nothing
    BY <1>0, <2>3 DEF End, Shape, Idle
  <2> HIDE DEF quieted
  <2>8. Shape(quieted) /\ \A t \in Tasks \ {x} : quieted.tasks[t] = tasks[t]
    BY <2>3, <2>6 DEF Moves
  <2>9. Same(w1, quieted)
    BY <2>4, <2>7, SameObjects
  <2>10. Mapped(quieted) /\ Steady(w1, quieted, {})
    BY <2>4, <2>9, SameMapped
  <2>11. Steady(World, quieted, ({} \cup {s}) \cup {})
    BY <2>5, <2>10, SteadyTwice
  <2>12. ({} \cup {s}) \cup {} = {s}
    OBVIOUS
  <2>13. Owned(quieted, x)
    BY <2>6, <2>7 DEF Owned, Pending
  <2>14. HookStands(quieted, x, superseded')
    BY <2>6 DEF HookStands, Settles
  <2> DEFINE S == {s}
  <2>15. Steady(World, quieted, S) /\ S \subseteq {s}
    BY <2>11, <2>12
  <2> HIDE DEF S
  <2>16. QED
    BY <1>2, <1>3, <2>8, <2>10, <2>13, <2>14, <2>15, HookPlaces
<1>4. CASE Become(started, taken)
  <2>1. Moves(x, World, started)
    BY <1>0, Here, TransformMoves
  <2>2. started = Transform(World, x, s, latest[s])
    OBVIOUS
  <2>3. taken \in {{s}, IF w.objects[Latest(w)].directory
                         THEN Overtaken(World, s, Latest(w), latest[s]) ELSE {}}
    OBVIOUS
  <2>9. w = StateFor(World, s)
    OBVIOUS
  <2> HIDE DEF started, taken, w
  <2>4. /\ Within(World, started, s, taken)
        /\ Owned(started, x) /\ started.tasks[x].session = s
        /\ ~World.disposed => Settles(started, x)
    BY <1>0, <2>2, <2>3, <2>9, TransformDoes
  <2>5. Shape(started) /\ \A t \in Tasks \ {x} : started.tasks[t] = tasks[t]
    BY <1>0, <2>1 DEF Moves
  <2>6. Mapped(started) /\ Steady(World, started, taken) /\ taken \subseteq taken
    BY <2>4 DEF Within
  <2>7. HookStands(started, x, superseded')
    BY <1>0, <1>1, <2>4 DEF HookStands
  <2>8. QED
    BY <1>2, <1>4, <2>4, <2>5, <2>6, <2>7, HookPlaces
<1>5. QED
  BY <1>1, <1>3, <1>4

\* A finished command's call: what it did, and its label.
LEMMA EndedPlaces ==
  ASSUME PluginInv, PlaceInv, NEW c \in Calls, NEW v, Shape(v), NEW command, NEW s \in Sessions,
         NEW S, Within(World, v, s, S),
         \A t \in Tasks \ {c} : v.tasks[t] = tasks[t],
         Owned(v, c), v.tasks[c].session = s, tasks[c].session # Nothing => tasks[c].session = s,
         NEW w, w = Ended(v, c, command), Become(w, {}), S \subseteq Moved(w, {})
  PROVE  PlaceInv'
<1>0. c \in Tasks /\ s # Nothing
  BY NothingAssumption DEF Tasks
<1>1. Mapped(v) /\ CanHold(v, s) /\ Steady(World, v, S)
  BY DEF Within
<1>2. Mapped(w) /\ Steady(v, w, {}) /\ w.tasks = v.tasks
  BY <1>0, <1>1, EndedDoes
<1>3. Shape(w)
  BY EndedCalm DEF Calm
<1>4. Steady(World, w, S \cup {}) /\ S \cup {} = S
  BY <1>1, <1>2, SteadyTwice
<1>5. Owned(w, c)
  BY <1>2, StillOwned
<1>6. \A t \in Tasks \ {c} : w.tasks[t] = tasks[t]
  BY <1>2
<1>7. Steady(World, w, S)
  BY <1>4
<1>8. tasks[c].session # Nothing => w.tasks[c].session = tasks[c].session
  BY <1>2
<1>9. QED
  BY <1>2, <1>3, <1>5, <1>6, <1>7, <1>8, CallPlaces

LEMMA StartCallPlaces ==
  ASSUME PluginInv, PlaceInv, NEW c \in Calls, NEW s \in Working, NEW q \in Tools, StartCall(c, s, q)
  PROVE  PlaceInv'
<1> DEFINE v == Call(World, c, s, q)
           u == Ended(v, c, q.command)
<1>0. /\ c \in Tasks /\ s \in Sessions
      /\ Shape(World) /\ Mapped(World) /\ World.tasks = tasks /\ CanHold(World, s)
  BY HerePlaced, WorkingAssumption DEF Tasks
<1>1. Become(u, {}) /\ tasks[c].pc = "idle" /\ v = Call(World, c, s, q)
  BY DEF StartCall
<1>2. tasks[c].session = Nothing
  BY <1>0, <1>1, HerePlaced DEF Owned
<1>3. Shape(v) /\ \A t \in Tasks \ {c} : v.tasks[t] = tasks[t]
  BY <1>0, CallPlaced DEF Placed, Moves, Sends
<1> HIDE DEF v
<1>4. Within(World, v, s, {}) /\ Owned(v, c) /\ v.tasks[c].session = s
  BY <1>0, <1>1, CallDoes
<1>5. u = Ended(v, c, q.command) /\ {} \subseteq Moved(u, {})
  OBVIOUS
<1> HIDE DEF u
<1> DEFINE S == {}
<1>6. Within(World, v, s, S) /\ S \subseteq Moved(u, {})
  BY <1>4
<1> HIDE DEF S
<1>7. QED
  BY <1>0, <1>1, <1>2, <1>3, <1>4, <1>5, <1>6, EndedPlaces

LEMMA WakeCallPlaces ==
  ASSUME PluginInv, PlaceInv, NEW c \in Calls, WakeCall(c)
  PROVE  PlaceInv'
<1> DEFINE v == Calling(World, c)
           u == Ended(v, c, tasks[c].call.command)
           s == tasks[c].session
<1>0. /\ c \in Tasks /\ Shape(World) /\ Mapped(World) /\ World.tasks = tasks /\ CanHold(World, s)
  BY HerePlaced DEF Tasks
<1>1. /\ Become(u, {}) /\ v = Calling(World, c) /\ u = Ended(v, c, tasks[c].call.command)
      /\ Pending(World, c) /\ tasks[c].slot \in Slots /\ Settled(Answer(World, c))
  BY <1>0, Here DEF WakeCall, Wakes, Answer
<1>2. Ready(World, c) /\ s \in Sessions
  BY <1>0, <1>1, HerePlaced DEF Owned
<1>3. Stands(World, c, writes[c], granted[c])
  BY DEF PluginInv, WorldInv
<1>4. World.tasks[c].pc \in {"resolving", "selecting", "searching", "writing", "reading",
                             "applying", "checking", "looking"}
  BY <1>0, <1>1, <1>3, SlotsAssumption
     DEF Stands, Says, Waits, Pcs, Unwritten, Writers, Pending
<1>5. Shape(v) /\ \A t \in Tasks \ {c} : v.tasks[t] = tasks[t]
  <2>1. Moves(c, World, v) \/ Sends(c, World, v)
    BY <1>0, <1>1, <1>3, Here, CallingStands
  <2> HIDE DEF v
  <2>2. QED
    BY <1>0, <2>1 DEF Moves, Sends
<1> HIDE DEF v
<1> DEFINE S == Announced(c, World, v)
<1>6. Within(World, v, s, S) /\ Owned(v, c) /\ v.tasks[c].session = s
  BY <1>0, <1>1, <1>2, <1>4, CallingAnnounces DEF Announces
<1>7. u.tasks = v.tasks
  BY <1>1, <1>5, EndedCalm DEF Calm
<1>8. S \subseteq Moved(u, {})
  BY <1>0, <1>7 DEF Announced, Moved, Told
<1> HIDE DEF S, u, s
<1>9. QED
  BY <1>1, <1>2, <1>5, <1>6, <1>8, EndedPlaces DEF s

\* A call that went on and gave no object a new generation.
LEMMA StayedPlaces ==
  ASSUME PluginInv, PlaceInv, NEW c \in Calls, Pending(World, c),
         NEW w, Shape(w), \A t \in Tasks \ {c} : w.tasks[t] = tasks[t],
         Stays(c, World, w), Become(w, {})
  PROVE  PlaceInv'
<1>0. Mapped(World) /\ World.tasks = tasks
  BY HerePlaced
<1> DEFINE S == {}
<1>1. Mapped(w) /\ Steady(World, w, S) /\ S \subseteq Moved(w, {})
  BY <1>0, SameMapped DEF Stays
<1>2. Owned(w, c) /\ w.tasks[c].session = tasks[c].session
  BY <1>0 DEF Stays
<1> HIDE DEF S
<1>3. QED
  BY <1>1, <1>2, CallPlaces

\* The same of one that has ended, perhaps with its label.
LEMMA StayedEnds ==
  ASSUME PluginInv, PlaceInv, NEW c \in Calls, NEW v, Shape(v), NEW command,
         tasks[c].session \in Sessions, Stays(c, World, v),
         \A t \in Tasks \ {c} : v.tasks[t] = tasks[t],
         NEW w, w = Ended(v, c, command), Become(w, {})
  PROVE  PlaceInv'
<1> DEFINE s == tasks[c].session
           S == {}
<1>0. /\ Mapped(World) /\ CanHold(World, s) /\ World.tasks = tasks
  BY HerePlaced
<1>1. v.tasks[c].session = s /\ Owned(v, c) /\ s \in Sessions /\ Same(World, v)
  BY <1>0 DEF Stays
<1>2. Within(World, World, s, S)
  BY <1>0 DEF Within, Steady
<1>3. S \subseteq Moved(w, {}) /\ (tasks[c].session # Nothing => tasks[c].session = s)
  OBVIOUS
<1> HIDE DEF s, S
<1>4. Within(World, v, s, S)
  BY <1>1, <1>2, WithinSame
<1>5. QED
  BY <1>1, <1>3, <1>4, EndedPlaces

LEMMA UserAgreesPlaces ==
  ASSUME PluginInv, PlaceInv, NEW c \in Calls, UserAgrees(c)
  PROVE  PlaceInv'
<1> DEFINE v == Agreed(World, c)
           s == tasks[c].session
           g == IF tasks[c].call.op = "apply" THEN Database ELSE tasks[c].targets.repository
<1>0. /\ c \in Tasks /\ Shape(World) /\ Mapped(World) /\ World.tasks = tasks /\ CanHold(World, s)
  BY HerePlaced DEF Tasks
<1>1. Become(v, {}) /\ v = Agreed(World, c) /\ World.tasks[c].pc = "asking"
  BY <1>0 DEF UserAgrees
<1>2. Ready(World, c)
  BY <1>0, <1>1, HerePlaced DEF Pending
<1>3. Stands(World, c, writes[c], granted[c])
  BY DEF PluginInv, WorldInv
<1>4. Open(World.tasks[c]) /\ World.tasks[c].slot = Nothing
  <2> HIDE DEF v, g, s
  <2>1. Says(World.tasks[c], writes[c], granted[c]) /\ World.tasks[c].pc = "asking"
    BY <1>1, <1>3 DEF Stands
  <2>2. QED
    BY <2>1 DEF Says, Waits, Open
<1>5. Placed(c, World, v, g)
  BY <1>0, <1>4, AgreedPlaced
<1> HIDE DEF v, g
<1>6. Shape(v) /\ \A t \in Tasks \ {c} : v.tasks[t] = tasks[t]
  BY <1>0, <1>5 DEF Placed, Moves, Sends
<1> DEFINE S == Announced(c, World, v)
<1>7. Within(World, v, s, S) /\ Owned(v, c) /\ v.tasks[c].session = s
  BY <1>0, <1>1, <1>2, AgreedAnnounces DEF Announces
<1>8. S \subseteq Moved(v, {})
  BY <1>0 DEF Announced, Moved, Told
<1>9. Mapped(v) /\ Steady(World, v, S)
  BY <1>7 DEF Within
<1> HIDE DEF S
<1>10. QED
  BY <1>1, <1>6, <1>7, <1>8, <1>9, CallPlaces

LEMMA UserDeniesPlaces ==
  ASSUME PluginInv, PlaceInv, NEW c \in Calls, UserDenies(c)
  PROVE  PlaceInv'
<1> DEFINE v == End(World, c, "denied")
<1>0. c \in Tasks /\ Shape(World) /\ World.tasks = tasks
  BY HerePlaced DEF Tasks
<1>1. Become(v, {}) /\ v = End(World, c, "denied") /\ World.tasks[c].pc = "asking"
  BY <1>0 DEF UserDenies
<1>2. Ready(World, c) /\ Pending(World, c)
  BY <1>0, <1>1, HerePlaced DEF Pending
<1>3. Moves(c, World, v)
  BY <1>0, EndMoves
<1> HIDE DEF v
<1>4. Stays(c, World, v)
  BY <1>0, <1>1, <1>2, EndStays
<1>5. Shape(v) /\ \A t \in Tasks \ {c} : v.tasks[t] = tasks[t]
  BY <1>0, <1>3 DEF Moves
<1>6. QED
  BY <1>1, <1>2, <1>4, <1>5, StayedPlaces

LEMMA UserAbortsPlaces ==
  ASSUME PluginInv, PlaceInv, NEW c \in Calls, UserAborts(c)
  PROVE  PlaceInv'
<1> DEFINE stopped == [World EXCEPT !.requests =
             [i \in Slots |-> IF @[i] # Nothing /\ @[i].call = c THEN Stopped(@[i]) ELSE @[i]]]
           v == [stopped EXCEPT !.tasks[c].aborted = TRUE]
<1>0. c \in Tasks /\ Shape(World) /\ Mapped(World) /\ World.tasks = tasks
  BY HerePlaced DEF Tasks
<1>1. Become(v, {}) /\ Pending(World, c)
  BY DEF UserAborts
<1>2. /\ v.objects = World.objects /\ v.sessions = World.sessions /\ v.disposed = World.disposed
      /\ DOMAIN v = DOMAIN World /\ DOMAIN v.requests = Slots /\ DOMAIN v.tasks = Tasks
      /\ v.tasks[c] = [tasks[c] EXCEPT !.aborted = TRUE]
      /\ \A t \in Tasks \ {c} : v.tasks[t] = tasks[t]
      /\ \A i \in Slots : Kept(World.requests[i], v.requests[i])
  BY <1>0 DEF Shape, Kept
<1> HIDE DEF v, stopped
<1>3. DOMAIN tasks[c] = TaskFields
  BY <1>0 DEF Shape
<1>4. /\ DOMAIN v.tasks[c] = TaskFields
      /\ v.tasks[c].pc = tasks[c].pc /\ v.tasks[c].object = tasks[c].object
      /\ v.tasks[c].session = tasks[c].session /\ v.tasks[c].report = tasks[c].report
  BY <1>2, <1>3 DEF TaskFields
<1>5. Shape(v)
  <2>1. \A i \in Slots : v.requests[i] # Nothing => IsRequest(v.requests[i])
    BY <1>0, <1>2, StoppedShape DEF Shape
  <2>2. QED
    BY <1>0, <1>2, <1>4, <2>1 DEF Shape
<1>6. Same(World, v)
  BY <1>0, <1>2, SameObjects
<1>7. Owned(v, c)
  <2>1. Owned(World, c)
    BY <1>0, HerePlaced
  <2>2. QED
    BY <1>0, <1>2, <1>4, <2>1 DEF Owned, Pending
<1>8. Stays(c, World, v)
  BY <1>0, <1>4, <1>6, <1>7 DEF Stays
<1>9. QED
  BY <1>1, <1>2, <1>5, <1>8, StayedPlaces

\* The host has told an object where its session is.
LEMMA KnownSame ==
  ASSUME NEW w, Shape(w), Mapped(w), NEW o, NEW v, v = [w EXCEPT !.objects[o].directory = TRUE]
  PROVE  Same(w, v) /\ Calm(w, v)
<1> DEFINE g == [w.objects[o] EXCEPT !.directory = TRUE]
<1>1. /\ v.objects = [w.objects EXCEPT ![o] = g]
      /\ v.sessions = w.sessions /\ v.disposed = w.disposed
      /\ v.tasks = w.tasks /\ v.requests = w.requests /\ DOMAIN v = DOMAIN w
  BY DEF Shape
<1>2. o \in Objects =>
        /\ DOMAIN g = ObjectFields /\ g.session = w.objects[o].session
        /\ g.generation = w.objects[o].generation
  BY DEF Mapped, Listed, ObjectFields
<1> HIDE DEF g
<1>3. Same(w, v)
  BY <1>1, <1>2 DEF Same, Mapped, Listed
<1>4. QED
  BY <1>1, <1>3, OthersCalm

LEMMA HostAnswersHook ==
  ASSUME PluginInv, PlaceInv, NEW x \in Transforms, HostAnswers(x)
  PROVE  PlaceInv'
<1> DEFINE known == [World EXCEPT !.objects[tasks[x].object].directory = TRUE]
           v == Located(known, x)
           s == tasks[x].session
           S == Overtaken(known, s, tasks[x].object, tasks[x].message)
<1>0. /\ x \in Tasks /\ Shape(World) /\ Mapped(World) /\ World.tasks = tasks
      /\ World.disposed = disposed /\ World.objects = objects /\ CanHold(World, s)
  BY HerePlaced DEF Tasks
<1>1. Become(v, S) /\ tasks[x].pc \in {"locating", "relocating"}
  BY DEF HostAnswers
<1>2. tasks[x].pc = "locating"
  BY <1>0, <1>1 DEF PluginInv, WorldInv, Hooked
<1>3. Ready(World, x)
  BY <1>0, <1>2, HerePlaced DEF Pending
<1>4. known = [World EXCEPT !.objects[tasks[x].object].directory = TRUE] /\ v = Located(known, x)
  OBVIOUS
<1> HIDE DEF known, v, S
<1>5. Same(World, known) /\ Calm(World, known)
  BY <1>0, <1>4, KnownSame
<1>6. Shape(known) /\ Mapped(known) /\ known.tasks = tasks /\ CanHold(known, s)
  BY <1>0, <1>5, SameMapped DEF Calm
<1>7. Ready(known, x)
  BY <1>0, <1>3, <1>5, <1>6, WorldCarries, CarriesReady
<1>8. s = known.tasks[x].session /\ s \in Sessions /\ s # Nothing
  BY <1>3, <1>0, <1>6, NothingAssumption DEF Ready, Owned
<1>17. Covers(known, x, s, S)
  BY <1>6 DEF S, Covers
<1> HIDE DEF s
<1>9. /\ Within(known, v, s, S)
      /\ Owned(v, x) /\ v.tasks[x].session = s
      /\ known.tasks[x].object \in In(known) /\ ~known.disposed => Settles(v, x)
  <2>1. /\ x \in Tasks /\ Ready(known, x) /\ s = known.tasks[x].session /\ CanHold(known, s)
        /\ v = Located(known, x)
    BY <1>0, <1>4, <1>6, <1>7, <1>8
  <2>2. QED
    BY <1>17, <2>1, LocatedDoes
<1>10. Moves(x, known, v)
  BY <1>0, <1>4, <1>6, LocatedMoves
<1>11. Shape(v) /\ \A t \in Tasks \ {x} : v.tasks[t] = tasks[t]
  BY <1>6, <1>10 DEF Moves
<1>12. Mapped(v) /\ v.disposed = disposed /\ In(known) = In(World) /\ known.disposed = disposed
  BY <1>0, <1>5, <1>9, SameSteady DEF Within, Same
<1>13. Steady(World, v, S) /\ S \subseteq S
  <2>1. Steady(World, known, {}) /\ Steady(known, v, S)
    BY <1>5, <1>9, SameSteady DEF Within
  <2>2. Steady(World, v, {} \cup S) /\ {} \cup S = S
    BY <2>1, SteadyTwice
  <2>3. QED
    BY <2>2
<1>14. HookStands(v, x, superseded')
  <2>1. HookStands(World, x, superseded)
    BY DEF PlaceInv, Places
  <2>2. CASE disposed
    BY <1>12, <2>2 DEF HookStands
  <2>3. CASE tasks[x].object \in In(World) /\ ~disposed
    BY <1>6, <1>9, <1>12, <2>3 DEF HookStands
  <2>4. CASE x \in superseded /\ tasks[x].object \notin In(World)
    <3>1. tasks[x].object \notin In(v)
      <4>1. tasks[x].object \in In(v) => tasks[x].object \in Objects
        BY <1>12, InListed DEF Mapped
      <4>2. tasks[x].object \in Objects => World.objects[tasks[x].object].session # Nothing
        BY <1>0, <1>3, <1>8, <1>6, NothingAssumption DEF Ready, Owned
      <4>3. QED
        BY <1>13, <2>4, <4>1, <4>2 DEF Steady
    <3>2. x \notin Taking(v)
      BY <3>1 DEF Taking, InSessions, In
    <3>3. QED
      BY <1>1, <2>4, <3>2, SupersededThen DEF HookStands
  <2>6. Settles(World, x) => tasks[x].object \in In(World)
    BY <1>0, <1>2 DEF Settles
  <2>7. QED
    BY <1>0, <2>1, <2>2, <2>3, <2>4, <2>6 DEF HookStands
<1>15. tasks[x].session # Nothing => v.tasks[x].session = tasks[x].session
  BY <1>6, <1>8, <1>9
<1>16. QED
  BY <1>1, <1>9, <1>11, <1>12, <1>13, <1>14, <1>15, HookPlaces

LEMMA HostAnswersCall ==
  ASSUME PluginInv, PlaceInv, NEW c \in Calls, HostAnswers(c)
  PROVE  PlaceInv'
<1> DEFINE known == [World EXCEPT !.objects[tasks[c].object].directory = TRUE]
           targeted == Targets(known, c)
           ended == Ended(targeted, c, tasks[c].call.command)
           work == Work(known, c)
           invalid == End(known, c, "not_started")
           s == tasks[c].session
<1>0. /\ c \in Tasks /\ c \notin Transforms
      /\ Shape(World) /\ Mapped(World) /\ World.tasks = tasks /\ CanHold(World, s)
  BY HerePlaced, TasksAssumption DEF Tasks
<1>1. /\ tasks[c].pc \in {"locating", "relocating"}
      /\ Become(ended, {}) \/ Become(work, {}) \/ Become(invalid, {})
  BY <1>0 DEF HostAnswers, Invalid, Refuse
<1>2. Pending(World, c) /\ Ready(World, c)
  BY <1>0, <1>1, HerePlaced DEF Pending
<1>3. Stands(World, c, writes[c], granted[c])
  BY DEF PluginInv, WorldInv
<1>4. /\ known = [World EXCEPT !.objects[tasks[c].object].directory = TRUE]
      /\ targeted = Targets(known, c) /\ work = Work(known, c)
      /\ invalid = End(known, c, "not_started")
      /\ ended = Ended(targeted, c, tasks[c].call.command)
  OBVIOUS
<1> HIDE DEF known, targeted, work, invalid, ended
<1>5. Same(World, known) /\ Calm(World, known)
  BY <1>0, <1>4, KnownSame
<1>6. Shape(known) /\ Mapped(known) /\ known.tasks = tasks /\ CanHold(known, s)
  BY <1>0, <1>5, SameMapped DEF Calm
<1>7. Carries(c, World, known) /\ Ready(known, c)
  BY <1>0, <1>2, <1>5, <1>6, WorldCarries, CarriesReady
<1>8. s \in Sessions
  BY <1>0, <1>2 DEF Ready, Owned
<1>9. Open(known.tasks[c])
  <2>1. Says(tasks[c], writes[c], granted[c])
    BY <1>0, <1>3 DEF Stands
  <2>2. QED
    BY <1>1, <1>6, <2>1 DEF Says, Open
<1>10. ASSUME NEW v, Stays(c, known, v), Shape(v), \A t \in Tasks \ {c} : v.tasks[t] = known.tasks[t]
       PROVE  /\ Stays(c, World, v) /\ Shape(v) /\ \A t \in Tasks \ {c} : v.tasks[t] = tasks[t]
  BY <1>6, <1>7, <1>10, CarriesStays
<1>11. CASE Become(work, {})
  <2>1. Stays(c, known, work)
    BY <1>0, <1>4, <1>7, WorkStays
  <2>2. Placed(c, known, work, IF known.tasks[c].call.op = "remember" THEN known.tasks[c].targets.repository ELSE Nothing)
    BY <1>4, <1>6, <1>9, WorkPlaced
  <2>3. Shape(work) /\ \A t \in Tasks \ {c} : work.tasks[t] = known.tasks[t]
    BY <2>2 DEF Placed, Moves, Sends
  <2>4. QED
    BY <1>2, <1>10, <1>11, <2>1, <2>3, StayedPlaces
<1>12. CASE Become(invalid, {})
  <2>1. Stays(c, known, invalid)
    BY <1>0, <1>4, <1>7, EndStays
  <2>2. Moves(c, known, invalid)
    BY <1>0, <1>4, <1>6, EndMoves
  <2>3. Shape(invalid) /\ \A t \in Tasks \ {c} : invalid.tasks[t] = known.tasks[t]
    BY <2>2 DEF Moves
  <2>4. QED
    BY <1>2, <1>10, <1>12, <2>1, <2>3, StayedPlaces
<1>13. CASE Become(ended, {})
  <2>1. Stays(c, known, targeted)
    BY <1>0, <1>4, <1>7, TargetsStays
  <2>2. Placed(c, known, targeted, Nothing)
    BY <1>4, <1>6, <1>9, TargetsPlaced
  <2>3. Shape(targeted) /\ \A t \in Tasks \ {c} : targeted.tasks[t] = known.tasks[t]
    BY <2>2 DEF Placed, Moves, Sends
  <2>4. Stays(c, World, targeted) /\ \A t \in Tasks \ {c} : targeted.tasks[t] = tasks[t]
    BY <1>10, <2>1, <2>3
  <2>5. QED
    BY <1>0, <1>4, <1>8, <1>13, <2>3, <2>4, StayedEnds
<1>14. QED
  BY <1>1, <1>11, <1>12, <1>13

LEMMA HostFailsCall ==
  ASSUME PluginInv, PlaceInv, NEW c \in Calls, HostFails(c)
  PROVE  PlaceInv'
<1> DEFINE v == End(World, c, "not_started")
           w == Ended(v, c, tasks[c].call.command)
<1>0. /\ c \in Tasks /\ c \notin Transforms
      /\ Shape(World) /\ Mapped(World) /\ World.tasks = tasks
      /\ CanHold(World, tasks[c].session)
  BY HerePlaced, TasksAssumption DEF Tasks
<1>1. tasks[c].pc \in {"locating", "relocating"} /\ Become(w, {})
  BY <1>0 DEF HostFails, Invalid, Refuse
<1>2. Ready(World, c) /\ tasks[c].session \in Sessions
  BY <1>0, <1>1, HerePlaced DEF Pending, Owned
<1>3. Moves(c, World, v)
  BY <1>0, EndMoves
<1>4. v = End(World, c, "not_started") /\ w = Ended(v, c, tasks[c].call.command)
  OBVIOUS
<1> HIDE DEF v, w
<1>5. Stays(c, World, v)
  BY <1>0, <1>2, <1>4, EndStays
<1>6. Shape(v) /\ \A t \in Tasks \ {c} : v.tasks[t] = tasks[t]
  BY <1>0, <1>3 DEF Moves
<1>7. QED
  BY <1>0, <1>1, <1>2, <1>4, <1>5, <1>6, StayedEnds

LEMMA HostFailsHook ==
  ASSUME PluginInv, PlaceInv, NEW x \in Transforms, HostFails(x)
  PROVE  PlaceInv'
<1> DEFINE v == Unlocated(World, x)
           s == tasks[x].session
<1>0. /\ x \in Tasks /\ Shape(World) /\ Mapped(World) /\ World.tasks = tasks
      /\ World.disposed = disposed /\ CanHold(World, s)
  BY HerePlaced DEF Tasks
<1>1. Become(v, {}) /\ tasks[x].pc \in {"locating", "relocating"}
  BY DEF HostFails
<1>2. Ready(World, x) /\ s = World.tasks[x].session
  BY <1>0, <1>1, HerePlaced DEF Pending
<1>3. Moves(x, World, v) /\ v = Unlocated(World, x)
  BY <1>0, UnlocatedMoves
<1> HIDE DEF v, s
<1>4. /\ Within(World, v, s, {})
      /\ Owned(v, x) /\ v.tasks[x].session = s
      /\ ~World.disposed => Settles(v, x)
  BY <1>0, <1>2, <1>3, UnlocatedDoes
<1>5. Shape(v) /\ \A t \in Tasks \ {x} : v.tasks[t] = tasks[t]
  BY <1>0, <1>3 DEF Moves
<1> DEFINE S == {}
<1>6. Mapped(v) /\ Steady(World, v, S) /\ S \subseteq {}
  BY <1>4 DEF Within
<1>7. HookStands(v, x, superseded')
  BY <1>4 DEF Within, HookStands
<1>8. tasks[x].session # Nothing => v.tasks[x].session = tasks[x].session
  BY <1>4 DEF s
<1> HIDE DEF S
<1>9. QED
  BY <1>1, <1>4, <1>5, <1>6, <1>7, <1>8, HookPlaces

LEMMA SessionPlaces ==
  ASSUME PluginInv, PlaceInv, NEW s \in Sessions,
         NewMessage(s) \/ QuietCommand(s) \/ InspectCommand(s) \/ Compact(s)
  PROVE  PlaceInv'
<1>0. s # Nothing /\ Shape(World) /\ Mapped(World) /\ CanHold(World, s)
  BY HerePlaced, NothingAssumption
<1> DEFINE S == {s}
           E == {}
<1>1. CASE NewMessage(s)
  <2> DEFINE v == Capture(World, s, latest'[s])
  <2>1. Become(v, S)
    BY <1>1 DEF NewMessage
  <2>2. Calm(World, v) /\ Within(World, v, s, S)
    BY <1>0, CaptureCalm, CaptureWithin
  <2> HIDE DEF v, S
  <2>3. QED
    BY <2>1, <2>2, CalmPlaces DEF Within
<1>2. CASE QuietCommand(s)
  <2> DEFINE v == CaptureQuiet(World, s)
  <2>1. Become(v, S)
    BY <1>2 DEF QuietCommand
  <2>2. Calm(World, v) /\ Within(World, v, s, S)
    BY <1>0, CaptureQuietCalm, CaptureQuietWithin
  <2> HIDE DEF v, S
  <2>3. QED
    BY <2>1, <2>2, CalmPlaces DEF Within
<1>3. CASE InspectCommand(s)
  <2> DEFINE w == StateFor(World, s)
             v == [w EXCEPT !.objects[Latest(w)].message = Label]
  <2>1. Become(v, E)
    BY <1>3 DEF InspectCommand
  <2>2. Calm(World, w) /\ Within(World, w, s, E)
    BY <1>0, StateForWithin
  <2> HIDE DEF w
  <2>3. Shape(w) /\ Mapped(w)
    BY <2>2 DEF Calm, Within
  <2>4. Same(w, v) /\ Calm(w, v)
    BY <2>3, LabelSame
  <2> HIDE DEF v, E
  <2>5. Calm(World, v) /\ Within(World, v, s, E)
    BY <1>0, <2>2, <2>4, CalmTwice, WithinSame
  <2>6. QED
    BY <2>1, <2>5, CalmPlaces DEF Within, E
<1>4. CASE Compact(s)
  <2> DEFINE v == Clear(World, s)
  <2>1. Become(v, E) /\ v = Clear(World, s)
    BY <1>4 DEF Compact
  <2>2. Calm(World, v)
    BY <1>0, ClearCalm
  <2> HIDE DEF v
  <2>3. /\ Listed(v) /\ v.disposed = World.disposed
        /\ Len(v.sessions) <= Len(World.sessions)
        /\ In(v) = In(World) \ Held(World, s)
        /\ \A o \in Objects : /\ v.objects[o].session = World.objects[o].session
                              /\ v.objects[o].generation = World.objects[o].generation
    BY <1>0, <2>1, ClearMapped DEF Mapped
  <2>4. Len(v.sessions) \in Nat /\ Len(World.sessions) \in Nat
    BY <1>0, <2>3 DEF Mapped, Listed
  <2>5. Mapped(v)
    BY <1>0, <2>3, <2>4, SessionsAssumption DEF Mapped
  <2>6. Steady(World, v, E)
    BY <2>3 DEF Steady
  <2> HIDE DEF E
  <2>7. QED
    BY <2>1, <2>2, <2>5, <2>6, CalmPlaces
<1>5. QED
  BY <1>1, <1>2, <1>3, <1>4

LEMMA DisposePlaces ==
  ASSUME PluginInv, PlaceInv, Dispose
  PROVE  PlaceInv'
<1> DEFINE v == ClearAll(World)
           S == {}
<1>1. Become(v, S)
  BY DEF Dispose
<1>2. Calm(World, v) /\ Mapped(v) /\ Steady(World, v, S)
  BY HerePlaced, ClearAllCalm, ClearAllMapped
<1> HIDE DEF v, S
<1>3. QED
  BY <1>1, <1>2, CalmPlaces

\* A step that touches neither objects nor tasks.
LEMMA ElsewherePlaces ==
  ASSUME PlaceInv, UNCHANGED <<objects, sessions, disposed, tasks, superseded>>
  PROVE  PlaceInv'
<1>1. /\ World'.objects = World.objects /\ World'.sessions = World.sessions
      /\ World'.disposed = World.disposed /\ World'.tasks = World.tasks
      /\ superseded' = superseded
  BY DEF World
<1>2. Mapped(World') /\ Spare(World')
  BY <1>1 DEF PlaceInv, Places, Mapped, Listed, In, Spare
<1>3. \A t \in Tasks : Owned(World', t)
  BY <1>1 DEF PlaceInv, Places, Owned, Pending
<1>4. \A x \in Transforms : HookStands(World', x, superseded')
  BY <1>1 DEF PlaceInv, Places, HookStands, Settles, Fresh, In
<1>5. QED
  BY <1>2, <1>3, <1>4 DEF PlaceInv, Places

LEMMA PlaceInit ==
  ASSUME PluginInit
  PROVE  PlaceInv
<1>1. /\ World.objects = [o \in Objects |-> Blank] /\ World.sessions = <<>>
      /\ World.tasks = [t \in Tasks |-> Idle]
  BY DEF World, PluginInit
<1>2. Mapped(World)
  <2>1. <<>> \in Seq(Objects) /\ Len(<<>>) = 0 /\ DOMAIN <<>> = {}
    OBVIOUS
  <2>2. \A o \in Objects : DOMAIN World.objects[o] = ObjectFields
    BY <1>1 DEF Blank, NewObject, ObjectFields
  <2>3. In(World) = {}
    BY <1>1, <2>1 DEF In, ToSet
  <2>4. QED
    BY <1>1, <2>1, <2>2, <2>3, SessionsAssumption DEF Mapped, Listed
<1>3. Spare(World)
  <2>1. Objects # {}
    BY ObjectsAssumption, SessionsAssumption, FS_EmptySet, FS_CardinalityType
  <2>2. \A o \in Objects : World.objects[o].session = Nothing
    BY <1>1 DEF Blank, NewObject
  <2>3. QED
    BY <2>1, <2>2 DEF Spare
<1>4. \A t \in Tasks : Owned(World, t)
  BY <1>1 DEF Owned, Pending, Idle
<1>5. \A x \in Transforms : HookStands(World, x, superseded)
  BY <1>1 DEF HookStands, Settles, Idle, Tasks
<1>6. QED
  BY <1>2, <1>3, <1>4, <1>5 DEF PlaceInv, Places

LEMMA PlaceNext ==
  ASSUME PluginInv, PlaceInv, PluginNext
  PROVE  PlaceInv'
<1>1. ASSUME NEW x \in Transforms,
             WakeTransform(x) \/ Recorded(x) \/ \E s \in Working : StartTransform(x, s)
      PROVE  PlaceInv'
  BY <1>1, WakeTransformPlaces, RecordedPlaces, StartTransformPlaces
<1>2. ASSUME NEW c \in Calls,
             \/ WakeCall(c) \/ UserAgrees(c) \/ UserDenies(c) \/ UserAborts(c)
             \/ \E s \in Working, q \in Tools : StartCall(c, s, q)
      PROVE  PlaceInv'
  BY <1>2, WakeCallPlaces, UserAgreesPlaces, UserDeniesPlaces, UserAbortsPlaces, StartCallPlaces
<1>3. ASSUME NEW t \in Tasks, HostAnswers(t) \/ HostFails(t)
      PROVE  PlaceInv'
  BY <1>3, HostAnswersHook, HostAnswersCall, HostFailsHook, HostFailsCall DEF Tasks
<1>4. ASSUME NEW s \in Sessions, NewMessage(s) \/ QuietCommand(s) \/ InspectCommand(s) \/ Compact(s)
      PROVE  PlaceInv'
  BY <1>4, SessionPlaces
<1>5. ASSUME NEW i \in Slots, BridgeStep(i)
      PROVE  PlaceInv'
  BY <1>5, ElsewherePlaces DEF BridgeStep, others
<1>6. ASSUME Dispose
      PROVE  PlaceInv'
  BY <1>6, DisposePlaces
<1>7. QED
  BY <1>1, <1>2, <1>3, <1>4, <1>5, <1>6 DEF PluginNext

\* A hook that looks for a recall ends without a part on its message only when
\* the plugin was disposed of or, since it captured its message, its session
\* was given another one, changed, dropped, or taken over by a hook that
\* captured its own (src/plugin/recall.js:142, 186, 189).
THEOREM PluginNeverSilent == PluginSpec => []NeverSilent
<1>1. PluginInit => PlaceInv
  BY PlaceInit
<1>2. PluginInv /\ PlaceInv /\ [PluginNext]_pluginVars => PlaceInv'
  <2>1. PlaceInv /\ UNCHANGED pluginVars => PlaceInv'
    BY ElsewherePlaces DEF pluginVars, memory, host
  <2>2. QED
    BY <2>1, PlaceNext
<1>3. PlaceInv => NeverSilent
  <2>1. World.tasks = tasks /\ World.disposed = disposed
    BY DEF World
  <2>2. QED
    BY <2>1 DEF PlaceInv, Places, HookStands, Settles, NeverSilent
<1>4. QED
  BY <1>1, <1>2, <1>3, PluginInvariant, PTL DEF PluginSpec
=============================================================================
