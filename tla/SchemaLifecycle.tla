-------------------------- MODULE SchemaLifecycle ---------------------------
(***************************************************************************)
(* The database file and the commands that open it                         *)
(* (src/store/schema.rs): a missing or empty file gets schema 2.2, a 2.1   *)
(* file is upgraded, anything else is refused, always in one immediate     *)
(* transaction.  Several processes may open the file at once, and any may  *)
(* die between opening it and committing.                                  *)
(*                                                                         *)
(* Abstractions: a schema is its minor version (0: no valid metadata, or   *)
(* another major) and the kinds of things found besides the required       *)
(* objects; the text of the required ones is compared token by token in    *)
(* the code and counts as "changed" here.                                  *)
(***************************************************************************)
EXTENDS Naturals

CONSTANTS
  Openers,          \* processes that open the file for writing
  Missing, Empty,   \* no file, a file without schema objects
  InitialDatabases  \* what a run may start from

VARIABLES
  database,  \* the committed content of the file
  opener     \* per process, how far it has got

schemaVars == <<database, opener>>

\* "addition": a column that inserts may leave out, an index that is not unique;
\* "changed": a required object that is gone or reads differently, a column or
\* index that constrains; "identity": an object with a name that 2.2 adds.
Additions == {"addition", "changed", "identity"}

Schema(minor, found) == [minor |-> minor, found |-> found]
Baseline == Schema(2, {})

Schemas == [minor : 0 .. 3, found : SUBSET Additions]

ASSUME FilesAssumption == Missing # Empty /\ Missing \notin Schemas /\ Empty \notin Schemas
ASSUME DatabasesAssumption == InitialDatabases \subseteq {Missing, Empty} \cup Schemas

Files(d) == d \notin {Missing, Empty}

\* The required objects are there as they should be and nothing constrains.
Current(d, identity) ==
  /\ "changed" \notin d.found
  /\ ~identity => "identity" \notin d.found

\* validate: the versions this build knows, with the structure of that version.
Validated(d) ==
  /\ Files(d)
  /\ d.minor \in {1, 2}
  /\ Current(d, d.minor = 2)

NeedsUpgrade(d) == d.minor = 1

\* What preparing the file comes to for one that reads d.
Lifecycle(d) ==
  CASE d = Empty -> "creating"
    [] Validated(d) /\ NeedsUpgrade(d) -> "upgrading"
    [] Validated(d) /\ ~NeedsUpgrade(d) -> "checking"
    [] OTHER -> "refusing"

\* The strict reader behind `memocap status --read-only`.
Inspected(d) ==
  CASE d = Missing -> "not_initialized"
    [] d # Missing /\ ~Validated(d) -> "error"
    [] Validated(d) /\ NeedsUpgrade(d) -> "upgrade_needed"
    [] OTHER -> "ready"

SchemaInit ==
  /\ database \in InitialDatabases
  /\ opener = [o \in Openers |-> "idle"]

-----------------------------------------------------------------------------
Reaches(o, stage) == opener' = [opener EXCEPT ![o] = stage]

\* The file is opened with CREATE before the transaction begins.
OpenFile(o) ==
  /\ opener[o] = "idle"
  /\ database' = IF database = Missing THEN Empty ELSE database
  /\ Reaches(o, "opened")

InTransaction(o) == opener[o] \in {"creating", "upgrading", "checking", "refusing"}

\* Fault: a DEFERRED transaction reads first and locks at its first write.
ReadsUnlocked(o) == TRUE

\* IMMEDIATE: the write lock is taken before anything is read.
WriteLockFree(o) == \A other \in Openers \ {o} : ~InTransaction(other)

BeginPrepare(o) ==
  /\ opener[o] = "opened"
  /\ WriteLockFree(o)
  /\ Reaches(o, Lifecycle(database))
  /\ UNCHANGED database

\* CREATE TABLE fails on a table that is there, and every case must end with
\* what validates as 2.2.
Succeeds(o) ==
  CASE opener[o] = "creating" -> database = Empty
    [] opener[o] = "upgrading" -> NeedsUpgrade(database)
    [] opener[o] = "checking" -> TRUE
    [] opener[o] = "refusing" -> FALSE

Prepared(o) ==
  CASE opener[o] = "creating" -> Baseline
    [] opener[o] = "upgrading" -> [database EXCEPT !.minor = 2]
    [] opener[o] = "checking" -> database

Outcome(o) ==
  CASE opener[o] = "creating" -> "created"
    [] opener[o] = "upgrading" -> "upgraded"
    [] opener[o] = "checking" -> "ready"

EndPrepare(o) ==
  /\ InTransaction(o)
  /\ \/ /\ Succeeds(o)
        /\ database' = Prepared(o)
        /\ Reaches(o, Outcome(o))
     \/ /\ ~Succeeds(o)
        /\ Reaches(o, "refused")
        /\ UNCHANGED database

\* The process dies, or waits for the lock longer than its busy timeout.
GiveUp(o) ==
  /\ opener[o] = "opened" \/ InTransaction(o)
  /\ Reaches(o, "gone")
  /\ UNCHANGED database

SchemaNext == \E o \in Openers : OpenFile(o) \/ BeginPrepare(o) \/ EndPrepare(o) \/ GiveUp(o)

-----------------------------------------------------------------------------
\* Processes that open the same file at once agree: it is only refused when
\* none of them could use it, is created or upgraded by one of them, and is
\* never taken back or changed when refused (schema.rs:81-105).
Forward ==
  {<<Missing, Empty>>, <<Empty, Baseline>>}
    \cup {<<Schema(1, f), Schema(2, f)>> : f \in SUBSET Additions}

OpenersAgree ==
  [][/\ database' # database => <<database, database'>> \in Forward
     /\ \A o \in Openers :
          opener'[o] = "refused" /\ opener[o] # "refused" =>
            database # Empty /\ ~Validated(database)]_schemaVars
=============================================================================
