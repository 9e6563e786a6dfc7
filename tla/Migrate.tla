-------------------------------- MODULE Migrate --------------------------------
(***************************************************************************)
(* The schema migrator (cmd/migrate).  Every statement of a file is        *)
(* executed on its own, without a transaction, and the version of a file   *)
(* is recorded, or its record deleted, after its last statement.  A run    *)
(* that is interrupted, by a crash or an error, leaves what it did; the    *)
(* next one goes by the recorded versions.  One migrator runs at a time.   *)
(***************************************************************************)
EXTENDS Integers, Sequences

CONSTANTS
  Newest,          \* the versions are 1 .. Newest, in the order of their file names
  UpFile,        \* UpFile[v]: the statements of v's up file
  DownFile,      \* DownFile[v]: the statements of v's down file
  Table,
  Feature,       \* what a table may have: a shape, columns, an index
  MaxTrouble,    \* bound of interruptions and roll-backs
  None

Version == 1 .. Newest

\* lenient: IF EXISTS, or IF NOT EXISTS.
Statement == [op : {"create", "drop", "add", "remove"}, table : Table,
              features : SUBSET Feature, lenient : BOOLEAN]

ASSUME MigrateAssumption ==
  /\ Newest \in Nat \ {0}
  /\ UpFile \in [Version -> Seq(Statement)]
  /\ DownFile \in [Version -> Seq(Statement)]
  /\ MaxTrouble \in Nat

VARIABLES
  schema,    \* schema[t]: the features of table t, {} if there is no such table
  recorded,  \* the versions in schema_migrations
  run,       \* the migrator that runs, or None
  outcome,   \* how the last run ended
  trouble,   \* how many interruptions and roll-backs there were
  undone,    \* history: recorded versions that a roll-back has begun to undo
  refused    \* history: versions with a statement that the database refused

vars == <<schema, recorded, run, outcome, trouble, undone, refused>>
history == <<undone, refused>>

-----------------------------------------------------------------------------

Direction == {"up", "down"}

\* left: the versions still to do; next: the statement of the first of them.
Run == [direction : Direction, left : (SUBSET Version) \ {{}},
        pc : {"check", "execute", "record"}, next : Nat \ {0}]

MigrateType ==
  /\ schema \in [Table -> SUBSET Feature]
  /\ recorded \subseteq Version
  /\ run \in Run \cup {None}
  /\ outcome \in {"none", "up", "down", "failed"}
  /\ trouble \in 0 .. MaxTrouble
  /\ undone \subseteq Version /\ refused \subseteq Version

\* ensureMigrationTable creates schema_migrations if it is not there.
Init ==
  /\ schema = [t \in Table |-> {}]
  /\ recorded = {}
  /\ run = None
  /\ outcome = "none"
  /\ trouble = 0
  /\ undone = {} /\ refused = {}

-----------------------------------------------------------------------------

\* The statement s on the schema sch: whether the database refuses it, and what is left.
Refuses(sch, s) ==
  \/ s.op = "create" /\ sch[s.table] # {} /\ ~s.lenient
  \/ s.op = "drop" /\ sch[s.table] = {} /\ ~s.lenient
  \/ s.op = "add" /\ (sch[s.table] = {} \/ s.features \cap sch[s.table] # {})
  \/ s.op = "remove" /\ ~(s.features \subseteq sch[s.table])

Applied(sch, s) ==
  [sch EXCEPT ![s.table] =
     CASE s.op = "create" -> IF @ = {} THEN s.features ELSE @
       [] s.op = "drop" -> {}
       [] s.op = "add" -> @ \cup s.features
       [] s.op = "remove" -> @ \ s.features]

Begin(direction, left, pc) ==
  /\ run = None
  /\ run' = [direction |-> direction, left |-> left, pc |-> pc, next |-> 1]
  /\ outcome' = "none"

\* Mutant: a run that failed has to be cleared by hand.
MigrateUpDirty ==
  /\ outcome # "failed"
  /\ Begin("up", Version, "check")
  /\ UNCHANGED <<schema, recorded, trouble, history>>

MigrateUp ==
  /\ Begin("up", Version, "check")
  /\ UNCHANGED <<schema, recorded, trouble, history>>

\* Mutant: the lowest of the recorded versions are rolled back.
LatestLowest(vs) == \A v \in vs, w \in recorded \ vs : v < w

\* The versions vs are the last ones of those recorded, as many as --steps says.
Latest(vs) == \A v \in vs, w \in recorded \ vs : w < v

MigrateDown(vs) ==
  /\ vs # {} /\ vs \subseteq recorded /\ Latest(vs)
  /\ trouble < MaxTrouble
  /\ Begin("down", vs, "execute")
  /\ trouble' = trouble + 1
  /\ UNCHANGED <<schema, recorded, history>>

-----------------------------------------------------------------------------

At(pc) == run # None /\ run.pc = pc

\* The files are gone through in the order of their names, the recorded versions
\* from the last one.
IsCurrent(v) ==
  /\ v \in run.left
  /\ \A w \in run.left : IF run.direction = "up" THEN v <= w ELSE v >= w

File(v) == IF run.direction = "up" THEN UpFile[v] ELSE DownFile[v]

\* Mutant: the run does not end.
GoOnEmpty(v) ==
  /\ run' = [direction |-> run.direction, left |-> run.left \ {v},
             pc |-> IF run.direction = "up" THEN "check" ELSE "execute", next |-> 1]
  /\ UNCHANGED outcome

\* On to the versions left after v, or to the end of the run.
GoOn(v) ==
  IF run.left = {v}
  THEN run' = None /\ outcome' = run.direction
  ELSE /\ run' = [direction |-> run.direction, left |-> run.left \ {v},
                  pc |-> IF run.direction = "up" THEN "check" ELSE "execute", next |-> 1]
       /\ UNCHANGED outcome

MigrationApplied(v) ==
  /\ At("check") /\ IsCurrent(v)
  /\ \/ v \in recorded /\ GoOn(v)
     \/ /\ v \notin recorded
        /\ run' = [run EXCEPT !.pc = "execute"]
        /\ UNCHANGED outcome
  /\ UNCHANGED <<schema, recorded, trouble, history>>

ExecFile(v) ==
  /\ At("execute") /\ IsCurrent(v)
  /\ run.next <= Len(File(v))
  /\ LET s == File(v)[run.next]
     IN \/ /\ Refuses(schema, s)
           /\ run' = None /\ outcome' = "failed"
           /\ refused' = refused \cup {v}
           /\ UNCHANGED <<schema, undone>>
        \/ /\ ~Refuses(schema, s)
           /\ schema' = Applied(schema, s)
           /\ run' = [run EXCEPT !.next = @ + 1]
           /\ undone' = IF run.direction = "down" THEN undone \cup {v} ELSE undone
           /\ UNCHANGED <<outcome, refused>>
  /\ UNCHANGED <<recorded, trouble>>

\* Mutant: the version is recorded while the file is executed.
ExecFileEndSkips(v) ==
  /\ At("execute") /\ IsCurrent(v)
  /\ run' = [run EXCEPT !.pc = "record"]
  /\ UNCHANGED <<schema, recorded, outcome, trouble, history>>

ExecFileEnd(v) ==
  /\ At("execute") /\ IsCurrent(v)
  /\ run.next > Len(File(v))
  /\ run' = [run EXCEPT !.pc = "record"]
  /\ UNCHANGED <<schema, recorded, outcome, trouble, history>>

\* The record of a version that is inserted or deleted.
RecordVersion(v) ==
  /\ At("record") /\ IsCurrent(v)
  /\ recorded' = IF run.direction = "up" THEN recorded \cup {v} ELSE recorded \ {v}
  /\ undone' = undone \ {v}
  /\ GoOn(v)
  /\ UNCHANGED <<schema, trouble, refused>>

\* The process or its connection ends, or a statement is reported as failed, whether
\* it was applied or not.
Interrupt ==
  /\ run # None
  /\ trouble < MaxTrouble
  /\ run' = None /\ outcome' = "failed"
  /\ trouble' = trouble + 1
  /\ UNCHANGED <<schema, recorded, history>>

Step == \E v \in Version :
  MigrationApplied(v) \/ ExecFile(v) \/ ExecFileEnd(v) \/ RecordVersion(v)

Next ==
  \/ MigrateUp
  \/ \E vs \in SUBSET Version : MigrateDown(vs)
  \/ Step
  \/ Interrupt

Spec == Init /\ [][Next]_vars

\* A run goes on until it ends, and the migrator is run at every deployment.
FairSpec == Spec /\ WF_vars(Step) /\ WF_vars(MigrateUp)

-----------------------------------------------------------------------------

\* What is recorded is the first versions, without a gap, however runs and roll-backs
\* are interrupted: the next version to apply and the last one to undo are always the
\* right ones (migrateUp, migrateDown).
RecordedPrefix == \A v \in recorded : \A w \in 1 .. v : w \in recorded

\* The versions whose files alter what is there, and cannot be executed twice.
Altering == {v \in Version : \E f \in {UpFile[v], DownFile[v]} :
               \E k \in DOMAIN f : f[k].op \in {"add", "remove"}}

\* The files that do not alter a table can be started again wherever they were
\* interrupted (migrations.md asks for migrations that can be repeated).
RefusedOnlyAltering == refused \subseteq Altering

\* The schema sch after the statements of the file f, one after the other.
Executed(f, sch) ==
  LET after[k \in 0 .. Len(f)] == IF k = 0 THEN sch ELSE Applied(after[k - 1], f[k])
  IN after[Len(f)]

BuiltUpTo[v \in 0 .. Newest] ==
  IF v = 0 THEN [t \in Table |-> {}] ELSE Executed(UpFile[v], BuiltUpTo[v - 1])

\* The schema that the files describe.
Built == BuiltUpTo[Newest]

\* A run that reports success leaves the schema that the files describe, unless a
\* roll-back of a version that is still recorded was begun and not finished.
SuccessMeansCurrent == outcome = "up" /\ run = None /\ undone = {} => schema = Built

\* When the trouble is over, the migrator gets to the last version, unless the
\* database refused a statement.
EventuallyCurrent == <>[](recorded = Version) \/ <>(refused # {})

=============================================================================
