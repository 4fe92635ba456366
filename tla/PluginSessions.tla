--------------------------- MODULE PluginSessions ----------------------------
(***************************************************************************)
(* The plugin inside its host (src/plugin): per session it remembers the   *)
(* targets, the terms of the message and a recall; transforms add that     *)
(* recall to the message, tools and commands use and change it, and the    *)
(* host captures messages, compacts, deletes and disposes in between.      *)
(*                                                                         *)
(* JavaScript runs to completion: a step is everything from one await of   *)
(* something outside (a process, the host, the user) to the next, and no   *)
(* outside event happens while a settled request has somebody to wake.     *)
(*                                                                         *)
(* Abstractions: a message is its number in its session and so are its     *)
(* terms; a recall is the terms and targets it asked for; what the requests*)
(* that record an injection's activity answer is not used, so they are a   *)
(* pause that ends; toasts, the inspecting commands and the policy text    *)
(* change nothing here.                                                    *)
(***************************************************************************)
EXTENDS PluginBridge, FiniteSets
LOCAL INSTANCE SequencesExt

CONSTANTS
  Sessions,
  Working,     \* bound: the sessions whose hooks and tools run
  Transforms,  \* calls of the transform hook, numbered as they start
  Repositories,
  Home,        \* the repository of a session's directory
  Tools,       \* the calls that may be made
  MaxSessions, \* 128
  MaxMessages, \* bound: messages of a session
  MaxPending,  \* bound: hooks and calls under way at once
  MaxEvents,   \* bound: what the host and the user do to sessions and calls
  Objects      \* bound: session objects alive at once

Tasks == Transforms \cup Calls

ASSUME SessionsAssumption == MaxSessions \in Nat \ {0}
ASSUME MessagesAssumption == MaxMessages \in Nat
ASSUME TasksAssumption == Transforms \cap Calls = {}
ASSUME NothingAssumption == Nothing \notin Objects \cup Sessions
ASSUME WorkingAssumption == Working \subseteq Sessions
\* There is always an object to be made: the map, the tasks and the approvals
\* they wait for hold fewer.
ASSUME ObjectsAssumption ==
  /\ IsFiniteSet(Objects) /\ IsFiniteSet(Tasks)
  /\ Cardinality(Objects) > MaxSessions + 2 * Cardinality(Tasks)
ASSUME SlotsAssumption == Slots = Tasks \X {"shared", "own"} /\ Nothing \notin Slots

\* The writing tools ask the user; what the user types is not asked for again.
ASSUME ToolsAssumption == \A q \in Tools : q.command => q.op \in {"scope", "recall"}

VARIABLES
  objects,    \* the session objects, in the map or held by a task
  sessions,   \* the map, least recently used first
  approvals,  \* WeakMap: per array of targets, what its approval was for
  disposed,
  tasks,      \* the hooks, tools and commands under way
  latest,     \* the host's last real message of each session
  quiet,      \* whether a help or organize command came after it
  asked,      \* history: per session, the terms asked for in this message
  chosen,     \* history: per session, the repository in force
  superseded, \* history: transforms whose session has changed since
  outdated,   \* history: calls put to the user whose session has changed since
  happened,   \* history: how many such events there were
  granted,    \* history: the repository the user approved in each call
  automatic   \* the plugin's option: whether hooks recall by themselves

memory == <<objects, sessions, approvals, disposed, tasks, requests>>
host == <<latest, quiet, asked, chosen, superseded, outdated, happened, granted, automatic, writes>>
pluginVars == <<memory, host>>

\* A step of the plugin is a function of this record.
World == [objects |-> objects, sessions |-> sessions, approvals |-> approvals,
          disposed |-> disposed, tasks |-> tasks, requests |-> requests]

Undefined == 0
Query == MaxMessages + 1      \* the terms of a tool's query
Fallback == MaxMessages + 2   \* ["memory"]
Label == MaxMessages + 1      \* the message of a tool or command

Database == "database"
NoTargets == [repository |-> Nothing, id |-> Nothing]

-----------------------------------------------------------------------------
(* Session objects.                                                        *)

NewObject(s) ==
  [session |-> s, directory |-> FALSE, targets |-> NoTargets, aborted |-> FALSE, generation |-> 1,
   message |-> Undefined, terms |-> Undefined, cache |-> Nothing, resolving |-> Nothing]

\* An object that nobody holds.
Blank == NewObject(Nothing)

Held(w, s) == {o \in ToSet(w.sessions) : w.objects[o].session = s}
Latest(w) == Last(w.sessions)
Unused(w) == CHOOSE o \in Objects : w.objects[o].session = Nothing

\* AbortController.abort of some objects: every process listening is stopped.
Abort(w, O) ==
  LET listens(r) ==
        r # Nothing /\ r.object \in O /\ r.generation = w.objects[r.object].generation
  IN [w EXCEPT !.requests = [i \in Slots |-> IF listens(@[i]) THEN Stopped(@[i]) ELSE @[i]]]

Clear(w, s) ==
  IF Held(w, s) = {} THEN w
  ELSE LET o == CHOOSE o \in Held(w, s) : TRUE
       IN [Abort(w, {o}) EXCEPT !.objects[o].aborted = TRUE, !.sessions = RemoveFirst(@, o)]

\* stateFor: found or made, moved to the end, the oldest cleared beyond the
\* limit.
StateFor(w, s) ==
  LET found == Held(w, s)
      o == IF found = {} THEN Unused(w) ELSE CHOOSE x \in found : TRUE
      moved == [w EXCEPT !.sessions = Append(RemoveFirst(@, o), o),
                         !.objects[o] = IF found = {} THEN NewObject(s) ELSE @]
  IN IF Len(moved.sessions) > MaxSessions
     THEN Clear(moved, moved.objects[Head(moved.sessions)].session)
     ELSE moved

\* A new controller, a new generation, and no recall.
Renewal(b) == [b EXCEPT !.aborted = FALSE, !.generation = b.generation + 1, !.cache = Nothing]
Invalidate(w, o) == [Abort(w, {o}) EXCEPT !.objects[o] = Renewal(@)]

\* capture of a user message with text.
Capture(w, s, n) ==
  LET w1 == StateFor(w, s)
      o == Latest(w1)
      w2 == IF w1.objects[o].message # n THEN Invalidate(w1, o) ELSE w1
  IN [w2 EXCEPT !.objects[o].message = n, !.objects[o].terms = n]

\* capture and transform of a help or organize command.
CaptureQuiet(w, s) ==
  LET w1 == StateFor(w, s)
      o == Latest(w1)
  IN [Invalidate(w1, o) EXCEPT !.objects[o].message = Label]

-----------------------------------------------------------------------------
(* Tasks and their requests.                                               *)

Idle ==
  [pc |-> "idle", call |-> Nothing, session |-> Nothing, message |-> Undefined, object |-> Nothing,
   generation |-> 0, slot |-> Nothing, targets |-> NoTargets, terms |-> Undefined,
   aborted |-> FALSE, receipt |-> Nothing, report |-> "none"]

Pending(w, t) == w.tasks[t].pc \notin {"idle", "done"}

\* The task ends; only what it reported remains, and whether it was aborted.
End(w, t, report) ==
  [w EXCEPT !.tasks[t] = [Idle EXCEPT !.pc = "done", !.session = w.tasks[t].session,
                                      !.aborted = w.tasks[t].aborted, !.report = report]]

Goto(w, t, pc) == [w EXCEPT !.tasks[t].pc = pc]

\* What a task waits for.
Answer(w, t) == w.requests[w.tasks[t].slot]

\* Whether the signal of a call in a generation of an object was aborted.
Aborted(w, o, g, c) ==
  \/ o # Nothing /\ (w.objects[o].aborted \/ w.objects[o].generation # g)
  \/ c # Nothing /\ w.tasks[c].aborted

\* request and the bridge: under the controller of object o, if any, and
\* the signal of call c, if any.  A task waits for one request at a time;
\* only the resolution it shares may have to outlive the next.
SlotOf(t, op) == <<t, IF op = "select" THEN "shared" ELSE "own">>

Send(w, t, op, targets, terms, o, c) ==
  LET i == SlotOf(t, op)
      g == IF o = Nothing THEN 0 ELSE w.objects[o].generation
  IN [w EXCEPT !.requests[i] = Request(op, targets, terms, o, g, c, Aborted(w, o, g, c)),
               !.tasks[t].slot = i]

\* selected, up to its await: one resolution is shared by all who ask.
Select(w, t, c) ==
  LET o == w.tasks[t].object
      array == [repository |-> Home[w.objects[o].session], id |-> o]
      w1 == Send(w, t, "select", array, Undefined, o, c)
  IN IF w.objects[o].resolving # Nothing
     THEN [w EXCEPT !.tasks[t].slot = w.objects[o].resolving]
     ELSE [w1 EXCEPT !.objects[o].resolving = w1.tasks[t].slot]

\* and after it.
Selected(w, t) ==
  LET o == w.tasks[t].object
      r == Answer(w, t)
  IN [w EXCEPT !.objects[o].resolving = Nothing,
               !.objects[o].targets = IF r.outcome = "ok" THEN r.targets ELSE @]

\* Two arrays of the same targets make the same key.
Key(w, o) == [message |-> w.objects[o].message, targets |-> w.objects[o].targets.repository,
              terms |-> w.objects[o].terms]

Receipt(targets, terms) == [repository |-> targets.repository, terms |-> terms]

\* seed: a tool's recall becomes the session's.
Seed(w, o, terms, receipt) ==
  LET w1 == [w EXCEPT !.objects[o].terms = terms]
  IN [w1 EXCEPT !.objects[o].cache = [key |-> Key(w1, o), slot |-> Nothing, receipt |-> receipt]]

-----------------------------------------------------------------------------
(* The transform hook.                                                     *)

InSessions(w, o) == o \in ToSet(w.sessions)

\* Whether the transform's session is still as it found it.
Unchanged(w, x) ==
  LET t == w.tasks[x] IN
  ~w.disposed /\ t.generation = w.objects[t.object].generation /\ InSessions(w, t.object)

\* inject, up to the recording of its activity.
Inject(w, x, receipt) ==
  LET t == w.tasks[x]
      known == \E o \in ToSet(w.sessions) : w.objects[o].session = t.session
      kept == [w EXCEPT !.tasks[x].receipt = receipt]
  IN IF w.disposed \/ t.generation # w.objects[t.object].generation \/ ~known
     THEN End(w, x, "silent")
     ELSE Goto([kept EXCEPT !.tasks[x].slot = Nothing], x, "recording")

\* Fault: the part is added without looking at the session again.
InjectedRegardless(w, x) ==
  End(w, x, "part")

\* and after it: the checks again, then the part is added.
Injected(w, x) ==
  IF ~Unchanged(w, x) THEN End(w, x, "silent")
  ELSE End(w, x, "part")

\* Fault: an error is swallowed.
FailedSilently(w, x) == End(w, x, "silent")

\* The catch of transform: a part that says so, unless superseded.
Failed(w, x) ==
  LET t == w.tasks[x] IN
  IF ~Unchanged(w, x) THEN End(w, x, "silent")
  ELSE End([w EXCEPT !.objects[t.object].message = t.message], x, "part")

\* automatic after selected: the recall of this key, or a new one, which
\* fails before it is sent when a failure left the message without terms.
Automatic(w, x) ==
  LET o == w.tasks[x].object
      key == Key(w, o)
      cache == w.objects[o].cache
      sent == IF key.terms = Undefined THEN w
              ELSE Send(w, x, "recall", w.objects[o].targets, key.terms, o, Nothing)
      slot == IF key.terms = Undefined THEN Nothing ELSE sent.tasks[x].slot
      cacheHit == cache # Nothing /\ cache.key = key
      entry == IF cacheHit THEN cache ELSE [key |-> key, slot |-> slot, receipt |-> Nothing]
      w1 == IF cacheHit THEN w ELSE [sent EXCEPT !.objects[o].cache = entry]
  IN IF entry.slot = Nothing THEN Inject(w1, x, entry.receipt)
     ELSE Goto([w1 EXCEPT !.tasks[x].slot = entry.slot], x, "recalling")

Recalled(w, x) ==
  LET r == Answer(w, x) IN
  Inject(w, x, IF r.outcome = "ok" THEN Receipt(r.targets, r.terms) ELSE Nothing)

\* transform once the session's directory is known.  Without the option only
\* a recall that a tool left is added.
Located(w, x) ==
  LET t == w.tasks[x]
      o == t.object
      w1 == IF w.objects[o].message # t.message THEN Capture(w, t.session, t.message) ELSE w
      w2 == [w1 EXCEPT !.tasks[x].generation = w1.objects[o].generation]
  IN IF ~automatic /\ w1.objects[o].cache = Nothing THEN End(w1, x, "off")
     ELSE IF w2.objects[o].targets = NoTargets THEN Goto(Select(w2, x, Nothing), x, "selecting")
     ELSE Automatic(w2, x)

Transform(w, x, s, n) ==
  LET w1 == StateFor(w, s)
      w2 == [w1 EXCEPT !.tasks[x] =
              [Idle EXCEPT !.pc = "locating", !.session = s, !.message = n, !.object = Latest(w1)]]
  IN IF w1.objects[Latest(w1)].directory THEN Located(w2, x) ELSE w2

\* The host does not know the session: the failure is reported in the
\* session's present object.
Unlocated(w, x) ==
  LET t == w.tasks[x]
      w1 == StateFor(w, t.session)
  IN IF w.disposed THEN End(w, x, "silent")
     ELSE End([w1 EXCEPT !.objects[Latest(w1)].message = t.message], x, "part")

\* What a settled request continues.
Transforming(w, x) ==
  CASE w.tasks[x].pc = "selecting" ->
         IF Answer(w, x).outcome = "ok" THEN Automatic(Selected(w, x), x)
         ELSE Failed(Selected(w, x), x)
    [] w.tasks[x].pc = "recalling" -> Recalled(w, x)

-----------------------------------------------------------------------------
(* Tools and commands.  A call's request is a record [op, repository,      *)
(* query, command]: the repository it names, if any, whether it has a      *)
(* query, and whether the user typed it, so that nobody is asked.          *)

Refuse(w, c, outcome) == End(w, c, outcome)
Invalid(w, c) == Refuse(w, c, "not_started")

CallOf(w, c) == w.tasks[c].call
SignalAborted(w, c) == Aborted(w, w.tasks[c].object, w.tasks[c].generation, c)

Terms(w, c) ==
  LET terms == w.objects[w.tasks[c].object].terms IN
  IF CallOf(w, c).query THEN Query ELSE IF terms = Undefined THEN Fallback ELSE terms

\* Fault: the targets of the session, not those that were allowed.
WorkAnywhere(w, c) ==
  LET t == w.tasks[c]
      op == CallOf(w, c).op
      targets == w.objects[t.object].targets
      w1 == [w EXCEPT !.tasks[c].generation = w.objects[t.object].generation,
                      !.tasks[c].terms = Terms(w, c)]
  IN IF op = "remember" THEN Goto(Send(w1, c, "remember", targets, Undefined, t.object, c), c, "writing")
     ELSE Goto(Send(w1, c, "recall", t.targets, Terms(w, c), t.object, c), c, "searching")

\* The work of a call, once its targets are allowed.
Work(w, c) ==
  LET t == w.tasks[c]
      op == CallOf(w, c).op
      w1 == [w EXCEPT !.tasks[c].generation = w.objects[t.object].generation,
                      !.tasks[c].terms = Terms(w, c)]
  IN IF op = "remember" THEN Goto(Send(w1, c, "remember", t.targets, Undefined, t.object, c), c, "writing")
     ELSE Goto(Send(w1, c, "recall", t.targets, Terms(w, c), t.object, c), c, "searching")

\* targets once they are known: refused if the session moved on, else
\* noted as this generation's approval and put to the user.
Targeted(w, c, targets) ==
  LET t == w.tasks[c]
      w1 == [w EXCEPT !.tasks[c].targets = targets]
      noted == [w1 EXCEPT !.approvals[targets.id] =
                 [object |-> t.object, generation |-> t.generation, call |-> c]]
  IN IF SignalAborted(w, c) THEN Invalid(w, c)
     ELSE IF ~CallOf(w, c).command THEN Goto([noted EXCEPT !.tasks[c].slot = Nothing], c, "asking")
     ELSE Work(IF CallOf(w, c).op = "scope" THEN noted ELSE w1, c)

\* current and targets: the named repository is resolved for this call, the
\* session's own with whoever else needs it.
Targets(w, c) ==
  LET t == w.tasks[c]
      o == t.object
      w1 == [w EXCEPT !.objects[o].message = IF @ = Undefined THEN Label ELSE @,
                      !.tasks[c].generation = w.objects[o].generation]
      array == [repository |-> CallOf(w, c).repository, id |-> c]
  IN IF CallOf(w, c).repository # Nothing
     THEN Goto(Send(w1, c, "resolve", array, Undefined, o, c), c, "resolving")
     ELSE IF w.objects[o].targets # NoTargets THEN Targeted(w1, c, w.objects[o].targets)
     ELSE Goto(Select(w1, c, c), c, "selecting")

Call(w, c, s, q) ==
  LET w1 == StateFor(w, s)
      start == [Idle EXCEPT !.call = q, !.session = s]
      w2 == [w1 EXCEPT !.tasks[c] = [start EXCEPT !.pc = "locating", !.object = Latest(w1)]]
  IN IF q.op = "apply" THEN [w EXCEPT !.tasks[c] = [start EXCEPT !.pc = "asking"]]
     ELSE IF w1.objects[Latest(w1)].directory THEN Targets(w2, c) ELSE w2

\* Fault: what was asked for an earlier generation still counts.
ApprovedForObject(w, c) ==
  LET t == w.tasks[c]
      a == w.approvals[t.targets.id]
  IN a # Nothing /\ a.object = t.object /\ ~w.objects[t.object].aborted

\* approved: what was asked must have been for this object and generation.
Approved(w, c) ==
  LET t == w.tasks[c]
      a == w.approvals[t.targets.id]
  IN a # Nothing /\ a.object = t.object /\ ~Aborted(w, a.object, a.generation, a.call)

\* The user agrees: the session is found again, and the approval checked.
Agreed(w, c) ==
  LET t == w.tasks[c]
      w1 == StateFor(w, t.session)
      o == Latest(w1)
      w2 == [w1 EXCEPT !.tasks[c].object = o]
      apply == Send(Invalidate(w1, o), c, "apply", [repository |-> Database, id |-> Nothing],
                    Undefined, Nothing, c)
  IN IF CallOf(w, c).op = "apply" THEN Goto(apply, c, "applying")
     ELSE IF ~w1.objects[o].directory THEN Goto(w2, c, "relocating")
     ELSE IF ~Approved(w2, c) THEN Invalid(w2, c)
     ELSE Work(w2, c)

\* scope and recall: their answer becomes the session's recall.
Searched(w, c) ==
  LET t == w.tasks[c]
      r == Answer(w, c)
      w1 == Invalidate(w, t.object)
      w2 == IF CallOf(w, c).op = "scope" THEN [w1 EXCEPT !.objects[t.object].targets = t.targets] ELSE w1
  IN IF r.outcome # "ok" THEN Refuse(w, c, r.outcome)
     ELSE IF SignalAborted(w, c) THEN Invalid(w, c)
     ELSE End(Seed(w2, t.object, t.terms, Receipt(r.targets, r.terms)), c, "ok")

\* remember: the session's recall is out of date, and the record is listed.
Written(w, c) ==
  LET t == w.tasks[c]
      w1 == Invalidate(w, t.object)
  IN IF Answer(w, c).outcome # "ok" THEN Refuse(w, c, Answer(w, c).outcome)
     ELSE Goto(Send(w1, c, "list", t.targets, Undefined, t.object, c), c, "reading")

\* organize apply: whatever is not known to have been undone is read back.
Applied(w, c) ==
  LET r == Answer(w, c)
      read == Send(w, c, "read", r.targets, Undefined, Nothing, c)
  IN IF r.outcome \in {"not_started", "rejected"} THEN Refuse(w, c, r.outcome)
     ELSE Goto(read, c, IF r.outcome = "ok" THEN "checking" ELSE "looking")

\* What a settled request continues.
Calling(w, c) ==
  LET pc == w.tasks[c].pc
      outcome == Answer(w, c).outcome
  IN CASE pc = "resolving" ->
            IF outcome = "ok" THEN Targeted(w, c, Answer(w, c).targets) ELSE Refuse(w, c, outcome)
       [] pc = "selecting" ->
            IF outcome = "ok" THEN Targeted(Selected(w, c), c, Answer(w, c).targets)
            ELSE Refuse(Selected(w, c), c, outcome)
       [] pc = "searching" -> Searched(w, c)
       [] pc = "writing" -> Written(w, c)
       [] pc = "reading" -> End(w, c, "inserted")
       [] pc = "applying" -> Applied(w, c)
       [] pc = "checking" -> End(w, c, IF outcome = "ok" THEN "committed" ELSE "outcome_unknown")
       [] pc = "looking" -> End(w, c, "outcome_unknown")

-----------------------------------------------------------------------------
(* Steps.                                                                  *)

\* Garbage: objects, requests and approvals that nothing can reach any more.
\* Of a generation it only matters whether it is still its object's: 1.
Swept(w) ==
  LET reached == {t \in Tasks : Pending(w, t)}
      asking == {t \in reached : w.tasks[t].pc \in {"asking", "relocating"}}
      arrays == {w.tasks[t].targets.id : t \in asking} \ {Nothing}
      kept == ToSet(w.sessions) \cup ({w.tasks[t].object : t \in reached} \ {Nothing})
              \cup {w.approvals[a].object : a \in arrays}
      cached(o) == IF w.objects[o].cache = Nothing THEN Nothing ELSE w.objects[o].cache.slot
      slots == {w.tasks[t].slot : t \in reached} \cup {cached(o) : o \in kept}
               \cup {w.objects[o].resolving : o \in kept}
      current(r) == IF r.object # Nothing /\ r.generation = w.objects[r.object].generation THEN 1 ELSE 0
      renumbered(r) == [r EXCEPT !.generation = current(r)]
      needed(r, inUse) == IF inUse /\ r # Nothing THEN renumbered(r) ELSE Nothing
  IN [w EXCEPT !.objects = [o \in Objects |-> IF o \in kept THEN [@[o] EXCEPT !.generation = 1] ELSE Blank],
               !.tasks = [t \in Tasks |-> renumbered(@[t])],
               !.requests = [i \in Slots |-> needed(@[i], i \in slots)],
               !.approvals = [a \in Objects \cup Calls |-> needed(@[a], a \in arrays)]]

\* What a step of the plugin means to its users: which calls have just told
\* the session something new, and which sessions were dropped.
Told(w) ==
  {c \in Calls : tasks[c].pc # w.tasks[c].pc /\
     (w.tasks[c].report = "ok" \/ w.tasks[c].pc \in {"reading", "applying"})}

Dropped(w) == {s \in Sessions : Held(World, s) # {} /\ Held(w, s) # Held(World, s)}

\* A hook captures its message only when the host has told it where the
\* session is, and so takes over whatever the session was doing.
Taking(w) ==
  {x \in Transforms : tasks[x].pc = "locating" /\ w.tasks[x].pc # "locating"
                       /\ InSessions(w, tasks[x].object)}

\* It then asks for the terms of its own message, which is not the last one
\* if it was waiting when that one came.
Capturing(w) ==
  {x \in Transforms : tasks[x].pc = "locating" /\ w.tasks[x].pc # "locating"
                       /\ w.tasks[x].report # "part"}

\* And so does a call that waits for the user: what is put to the user now
\* also stands for the calls that wait with the same targets.
Waiting(w) == {c \in Calls : w.tasks[c].pc \in {"asking", "relocating"}}
AskedAnew(w) ==
  {c \in Calls : \E d \in Waiting(w) \ Waiting(World) : w.tasks[d].targets.id = w.tasks[c].targets.id}

\* A hook whose message is not its session's takes the session over from the
\* hooks that captured another.
Overtaken(w, s, o, n) ==
  IF w.objects[o].message # n /\ \E p \in Held(w, s) : w.objects[p].message # n THEN {s} ELSE {}

Become(w0, touched) ==
  LET w == Swept(w0)
      dropped == Dropped(w0)
      told == Told(w0)
      moved == touched \cup dropped \cup {tasks[c].session : c \in told}
      found(s) == {c \in told : tasks[c].session = s /\ w0.tasks[c].report = "ok"}
      scoped(s) == {c \in found(s) : tasks[c].call.op = "scope"}
      late(s) == {x \in Capturing(w0) : tasks[x].session = s}
  IN /\ objects' = w.objects /\ sessions' = w.sessions /\ approvals' = w.approvals
     /\ disposed' = w.disposed /\ tasks' = w.tasks /\ requests' = w.requests
     /\ superseded' = (superseded \cup {x \in Transforms : Pending(World, x) /\ tasks[x].session \in moved})
                     \ Taking(w0)
     /\ outdated' = {c \in (Waiting(World) \cap Waiting(w0)) \ AskedAnew(w0) :
                      c \in outdated \/ tasks[c].session \in moved}
     /\ asked' = [s \in Sessions |->
          IF s \in dropped \/ latest'[s] # latest[s] THEN {latest'[s]}
          ELSE asked[s] \cup {tasks[c].terms : c \in found(s)} \cup {tasks[x].message : x \in late(s)}]
     /\ chosen' = [s \in Sessions |->
          IF s \in dropped THEN Home[s]
          ELSE IF scoped(s) = {} THEN chosen[s]
          ELSE tasks[CHOOSE c \in scoped(s) : TRUE].call.repository]
     /\ UNCHANGED <<automatic, writes>>

\* A finished command labels the session with its own message.
Ended(w, c, command) ==
  LET w1 == StateFor(w, w.tasks[c].session) IN
  IF w.tasks[c].pc = "done" /\ command
  THEN [w1 EXCEPT !.objects[Latest(w1)].message = Label] ELSE w

Wakes(t) == Pending(World, t) /\ tasks[t].slot \in Slots /\ Settled(requests[tasks[t].slot])
Quiescent == \A t \in Tasks : ~Wakes(t)

WakeTransform(x) ==
  /\ Wakes(x)
  /\ UNCHANGED <<happened, latest, quiet, granted>>
  /\ Become(Transforming(World, x), {})

WakeCall(c) ==
  /\ Wakes(c)
  /\ UNCHANGED <<happened, latest, quiet, granted>>
  /\ Become(Ended(Calling(World, c), c, tasks[c].call.command), {})

Event == Quiescent /\ happened < MaxEvents /\ happened' = happened + 1

\* chat.message with a message of the user's.
NewMessage(s) ==
  /\ Event /\ latest[s] < MaxMessages
  /\ latest' = [latest EXCEPT ![s] = @ + 1]
  /\ quiet' = [quiet EXCEPT ![s] = FALSE]
  /\ UNCHANGED granted
  /\ Become(Capture(World, s, latest'[s]), {s})

\* /memory help or organize: its message follows the last real one.
QuietCommand(s) ==
  /\ Event /\ ~quiet[s]
  /\ quiet' = [quiet EXCEPT ![s] = TRUE]
  /\ UNCHANGED <<latest, granted>>
  /\ Become(CaptureQuiet(World, s), {s})

\* /memory status and the other inspecting commands.
InspectCommand(s) ==
  LET w == StateFor(World, s) IN
  /\ Event
  /\ UNCHANGED <<latest, quiet, granted>>
  /\ Become([w EXCEPT !.objects[Latest(w)].message = Label], {})

Room == Cardinality({t \in Tasks : Pending(World, t)}) < MaxPending

\* The transform hook, given the session's messages.
StartTransform(x, s) ==
  LET w == StateFor(World, s) IN
  /\ Quiescent /\ Room /\ tasks[x].pc = "idle" /\ ~disposed
  /\ \A y \in Transforms : y < x => tasks[y].pc # "idle"
  /\ UNCHANGED <<happened, latest, quiet, granted>>
  /\ IF quiet[s]
     THEN Become(End(Invalidate(w, Latest(w)), x, "quiet"), {s})
     ELSE Become(Transform(World, x, s, latest[s]),
                 IF w.objects[Latest(w)].directory THEN Overtaken(World, s, Latest(w), latest[s]) ELSE {})

StartCall(c, s, q) ==
  /\ Quiescent /\ Room /\ tasks[c].pc = "idle"
  /\ UNCHANGED <<happened, latest, quiet, granted>>
  /\ Become(Ended(Call(World, c, s, q), c, q.command), {})

\* session.get answers, or fails.
HostAnswers(t) ==
  LET known == [World EXCEPT !.objects[tasks[t].object].directory = TRUE] IN
  /\ Quiescent /\ tasks[t].pc \in {"locating", "relocating"}
  /\ UNCHANGED <<happened, latest, quiet, granted>>
  /\ Become(IF t \in Transforms THEN Located(known, t)
            ELSE IF tasks[t].pc = "locating" THEN Ended(Targets(known, t), t, tasks[t].call.command)
            ELSE IF Approved(known, t) THEN Work(known, t) ELSE Invalid(known, t),
            IF t \in Transforms THEN Overtaken(known, tasks[t].session, tasks[t].object, tasks[t].message)
            ELSE {})

HostFails(t) ==
  /\ Event /\ tasks[t].pc \in {"locating", "relocating"}
  /\ UNCHANGED <<latest, quiet, granted>>
  /\ Become(IF t \in Transforms THEN Unlocated(World, t) ELSE Ended(Invalid(World, t), t, tasks[t].call.command), {})

\* The activity of an injection is recorded, or not.
Recorded(x) ==
  /\ Quiescent /\ tasks[x].pc = "recording"
  /\ UNCHANGED <<happened, latest, quiet, granted>>
  /\ Become(Injected(World, x), {})

UserAgrees(c) ==
  /\ Quiescent /\ tasks[c].pc = "asking"
  /\ granted' = [granted EXCEPT ![c] =
       IF tasks[c].call.op = "apply" THEN Database ELSE tasks[c].targets.repository]
  /\ UNCHANGED <<happened, latest, quiet>>
  /\ Become(Agreed(World, c), {})

UserDenies(c) ==
  /\ Quiescent /\ tasks[c].pc = "asking"
  /\ UNCHANGED <<happened, latest, quiet, granted>>
  /\ Become(End(World, c, "denied"), {})

\* The user cancels a tool.
UserAborts(c) ==
  LET stopped == [World EXCEPT !.requests =
                   [i \in Slots |-> IF @[i] # Nothing /\ @[i].call = c THEN Stopped(@[i]) ELSE @[i]]]
  IN /\ Event /\ Pending(World, c) /\ ~tasks[c].call.command /\ ~tasks[c].aborted
     /\ UNCHANGED <<latest, quiet, granted>>
     /\ Become([stopped EXCEPT !.tasks[c].aborted = TRUE], {})

\* Compaction, deletion or an error of the session.
Compact(s) ==
  /\ Event /\ Held(World, s) # {}
  /\ UNCHANGED <<latest, quiet, granted>>
  /\ Become(Clear(World, s), {})

\* The plugin is disposed of, each session as by Clear; what is under way
\* ends on its own.
ClearAll(w) ==
  LET all == ToSet(w.sessions) IN
  [Abort(w, all) EXCEPT
     !.objects = [o \in Objects |-> IF o \in all THEN [@[o] EXCEPT !.aborted = TRUE] ELSE @[o]],
     !.sessions = <<>>, !.disposed = TRUE]

Dispose ==
  /\ Event /\ ~disposed
  /\ UNCHANGED <<latest, quiet, granted>>
  /\ Become(ClearAll(World), {})

others == <<objects, sessions, approvals, disposed, tasks,
            latest, quiet, asked, chosen, superseded, outdated, happened, granted, automatic>>

BridgeStep(i) == Quiescent /\ Bridge(i) /\ UNCHANGED others

\* The plugin is loaded into a host whose sessions have a message each.
PluginInit ==
  /\ objects = [o \in Objects |-> Blank] /\ sessions = <<>>
  /\ approvals = [a \in Objects \cup Calls |-> Nothing]
  /\ disposed = FALSE
  /\ tasks = [t \in Tasks |-> Idle]
  /\ requests = [i \in Slots |-> Nothing]
  /\ latest = [s \in Sessions |-> 1] /\ quiet = [s \in Sessions |-> FALSE]
  /\ asked = [s \in Sessions |-> {1}] /\ chosen = Home
  /\ superseded = {} /\ outdated = {} /\ happened = 0 /\ automatic \in BOOLEAN
  /\ granted = [c \in Calls |-> Nothing] /\ writes = [c \in Calls |-> <<>>]

PluginNext ==
  \/ \E x \in Transforms : WakeTransform(x) \/ Recorded(x) \/ \E s \in Working : StartTransform(x, s)
  \/ \E c \in Calls : WakeCall(c) \/ UserAgrees(c) \/ UserDenies(c) \/ UserAborts(c)
                      \/ \E s \in Working, q \in Tools : StartCall(c, s, q)
  \/ \E t \in Tasks : HostAnswers(t) \/ HostFails(t)
  \/ \E s \in Sessions : NewMessage(s) \/ QuietCommand(s) \/ InspectCommand(s) \/ Compact(s)
  \/ \E i \in Slots : BridgeStep(i)
  \/ Dispose

PluginSpec == PluginInit /\ [][PluginNext]_pluginVars

-----------------------------------------------------------------------------
(* Properties.                                                             *)

\* A reference added to a message (src/plugin/recall.js:128) was recalled for
\* terms the session has asked for since its last message came, by a tool or
\* by a hook, and for the repository in force, by a hook whose session was
\* neither given a message nor changed, dropped or disposed of meanwhile.
InjectedFresh ==
  [][\A x \in Transforms :
       tasks[x].receipt # Nothing /\ tasks'[x].report = "part" =>
         /\ x \notin superseded /\ ~disposed
         /\ tasks[x].receipt.terms \in asked[tasks[x].session]
         /\ tasks[x].receipt.repository = chosen[tasks[x].session]]_pluginVars

\* "new real user turns invalidate" (src/tests/plugin-recall.test.cjs:63): no
\* reference added to a message was recalled for an earlier one.
TurnsInvalidate ==
  [][\A x \in Transforms :
       tasks[x].receipt # Nothing /\ tasks'[x].report = "part" =>
         tasks[x].receipt.terms >= tasks[x].message]_pluginVars

\* A hook that looks for a recall never ends without a part on the message, a
\* reference or a visible failure (src/plugin/recall.js:188), unless since it
\* captured its message its session was given another message, changed,
\* dropped, or taken over by a hook that captured its own.
NeverSilent ==
  \A x \in Transforms : tasks[x].report = "silent" => disposed \/ x \in superseded

\* What a call commits was granted by the user in that call, to that
\* repository, at most once (src/plugin/operations.js:35).
WritesGranted ==
  \A c \in Calls :
    /\ Len(writes[c]) <= 1
    /\ \A k \in DOMAIN writes[c] : writes[c][k] = granted[c]

\* A tool's work begins after the user agreed only if, since its targets were
\* put to the user, its session was given no message, not changed, dropped or
\* taken over by a hook (src/plugin/operations.js:38).
ApprovalsHold ==
  [][\A c \in Calls :
       tasks[c].pc \in {"asking", "relocating"} /\ tasks'[c].pc \in {"writing", "searching"} =>
         c \notin outdated]_pluginVars

\* A call that reports it did not start, was denied or rejected has written
\* nothing, and one that reports a write has made it.
OutcomeTruthful ==
  \A c \in Calls :
    /\ tasks[c].report \in {"not_started", "denied", "rejected"} => writes[c] = <<>>
    /\ tasks[c].report \in {"inserted", "committed"} => Len(writes[c]) = 1
=============================================================================
