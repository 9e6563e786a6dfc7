------------------------------ MODULE MigrateProofs -----------------------------
(***************************************************************************)
(* Proofs about Migrate.  Whatever the files say, and wherever runs and    *)
(* roll-backs are interrupted, the recorded versions have no gap.  Of      *)
(* files that can be repeated the database refuses no statement, and files *)
(* that converge leave, after a run that succeeds, the schema that they    *)
(* describe.  The repository's files are shown to be such.                 *)
(***************************************************************************)
EXTENDS Migrate, MigrationFiles, WellFoundedInduction, FiniteSetTheorems, SequenceTheorems,
        TLAPS

\* What a run relies on: an up run has recorded what it left behind, and a roll-back
\* works on the last ones of the recorded versions.
RunFits ==
  run # None =>
    /\ run.direction = "up" => Version \ run.left \subseteq recorded
    /\ run.direction = "down" =>
         /\ run.pc # "check"
         /\ run.left \subseteq recorded
         /\ \A v \in run.left, w \in recorded \ run.left : w < v

IInv == MigrateType /\ RecordedPrefix /\ RunFits

LEMMA RunType ==
  ASSUME NEW d \in Direction, NEW left \in SUBSET Version, left # {},
         NEW pc \in {"check", "execute", "record"}, NEW n \in Nat \ {0}
  PROVE  [direction |-> d, left |-> left, pc |-> pc, next |-> n] \in Run
  BY DEF Run

USE DEF Version

LEMMA InitEstablishes == Init => IInv
  BY MigrateAssumption DEF Init, IInv, MigrateType, RecordedPrefix, RunFits

LEMMA AppliedType ==
  ASSUME MigrateType, NEW s \in Statement
  PROVE  Applied(schema, s) \in [Table -> SUBSET Feature]
  BY DEF MigrateType, Applied, Statement

\* A step that leaves the versions recorded and what is left of the run.
LEMMA SameLeft ==
  ASSUME IInv, MigrateType', UNCHANGED recorded,
         run' = None \/ (/\ run # None /\ run' # None
                         /\ run'.direction = run.direction /\ run'.left = run.left
                         /\ run'.pc # "check")
  PROVE  IInv'
  BY DEF IInv, RecordedPrefix, RunFits

\* Going on after version v, which is recorded now in an up run, and not in a roll-back.
LEMMA GoOnFits ==
  ASSUME IInv, run # None, NEW v \in Version, IsCurrent(v), GoOn(v),
         run.direction = "up" =>
           recorded' \in {recorded, recorded \cup {v}} /\ v \in recorded',
         run.direction = "down" => recorded' = recorded \ {v}
  PROVE  /\ RecordedPrefix' /\ RunFits'
         /\ run' \in Run \cup {None} /\ outcome' \in {"none", "up", "down", "failed"}
  <1>1. run \in Run /\ recorded \subseteq Version /\ outcome \in {"none", "up", "down", "failed"}
    BY DEF IInv, MigrateType
  <1>2. v \in run.left /\ run.left \subseteq Version /\ run.direction \in {"up", "down"}
    BY <1>1 DEF IsCurrent, Run, Direction
  <1>3. RecordedPrefix'
    <2>1. CASE run.direction = "up"
      <3>1. \A w \in Version : w \notin run.left => w \in recorded
        BY <2>1 DEF IInv, RunFits
      <3>2. \A w \in run.left : v <= w
        BY <2>1 DEF IsCurrent
      <3>3. ASSUME NEW w \in Version, w < v PROVE w \in recorded
        <4>1. w \notin run.left  BY <3>2, <3>3, MigrateAssumption
        <4>2. QED  BY <3>1, <4>1
      <3>4. recorded' = recorded \/ recorded' = recorded \cup {v}
        BY <2>1
      <3>5. ASSUME NEW x \in recorded', NEW w \in 1 .. x PROVE w \in recorded'
        <4>1. x \in Version  BY <1>1, <3>4, <3>5
        <4>2. CASE x \in recorded
          <5>1. w \in recorded  BY <4>2, <3>5 DEF IInv, RecordedPrefix
          <5>2. QED  BY <3>4, <5>1
        <4>3. CASE x = v
          <5>1. CASE w = v  BY <2>1, <5>1
          <5>2. CASE w # v
            <6>1. w \in Version /\ w < v  BY <4>1, <4>3, <5>2, MigrateAssumption
            <6>2. QED  BY <3>3, <3>4, <6>1
          <5>3. QED  BY <5>1, <5>2
        <4>4. QED  BY <3>4, <3>5, <4>2, <4>3
      <3>6. QED  BY <3>5 DEF RecordedPrefix
    <2>2. CASE run.direction = "down"
      <3>1. \A w \in run.left : w <= v
        BY <1>2, <2>2, MigrateAssumption DEF IsCurrent
      <3>2. \A w \in recorded \ run.left : w < v
        BY <1>2, <2>2 DEF IInv, RunFits
      <3>3. ASSUME NEW w \in recorded PROVE w <= v
        <4>1. w \in Nat /\ v \in Nat  BY <1>1, MigrateAssumption
        <4>2. CASE w \in run.left  BY <3>1, <4>2
        <4>3. CASE w \notin run.left
          <5>1. w < v  BY <3>2, <4>3
          <5>2. QED  BY <4>1, <5>1
        <4>4. QED  BY <4>2, <4>3
      <3>4. ASSUME NEW x \in recorded', NEW w \in 1 .. x PROVE w \in recorded'
        <4>1. x \in recorded /\ x # v  BY <2>2
        <4>2. x < v /\ x \in Version  BY <1>1, <3>3, <4>1, MigrateAssumption
        <4>3. w \in recorded  BY <4>1 DEF IInv, RecordedPrefix
        <4>4. w # v  BY <4>2, MigrateAssumption
        <4>5. QED  BY <2>2, <4>3, <4>4
      <3>5. QED  BY <3>4 DEF RecordedPrefix
    <2>3. QED  BY <1>2, <2>1, <2>2
  <1>4. CASE run.left = {v}
    <2>1. run' = None /\ outcome' = run.direction  BY <1>4 DEF GoOn
    <2>2. QED  BY <1>2, <1>3, <2>1 DEF RunFits
  <1>5. CASE run.left # {v}
    <2>1. /\ run' = [direction |-> run.direction, left |-> run.left \ {v},
                     pc |-> IF run.direction = "up" THEN "check" ELSE "execute", next |-> 1]
          /\ outcome' = outcome
      BY <1>5 DEF GoOn
    <2>2. run.left \ {v} # {}  BY <1>2, <1>5
    <2>3. run' \in Run
      <3>1. run.left \ {v} \in SUBSET Version  BY <1>2
      <3>2. (IF run.direction = "up" THEN "check" ELSE "execute") \in {"check", "execute", "record"}
        OBVIOUS
      <3>3. QED  BY <1>2, <2>1, <2>2, <3>1, <3>2, RunType DEF Direction
    <2>4. RunFits'
      <3>1. CASE run.direction = "up"
        BY <1>2, <2>1, <3>1 DEF IInv, RunFits
      <3>2. CASE run.direction = "down"
        BY <1>1, <1>2, <2>1, <3>2, MigrateAssumption DEF IInv, RunFits, IsCurrent
      <3>3. QED  BY <1>2, <3>1, <3>2
    <2>5. QED  BY <1>1, <1>3, <2>1, <2>3, <2>4
  <1>6. QED  BY <1>4, <1>5

LEMMA MigrateUpKeeps == IInv /\ MigrateUp => IInv'
  <1> SUFFICES ASSUME IInv, MigrateUp PROVE IInv'  OBVIOUS
  <1>1. run' = [direction |-> "up", left |-> Version, pc |-> "check", next |-> 1]
    BY DEF MigrateUp, Begin
  <1>2. 1 \in Version  BY MigrateAssumption
  <1>3. run' \in Run
    <2>1. Version # {} /\ Version \in SUBSET Version  BY <1>2
    <2>2. "up" \in Direction /\ 1 \in Nat \ {0}  BY DEF Direction
    <2>3. [direction |-> "up", left |-> Version, pc |-> "check", next |-> 1] \in Run
      BY <2>1, <2>2, RunType, Zenon
    <2>4. QED  BY <1>1, <2>3
  <1>4. MigrateType'  BY <1>3 DEF IInv, MigrateType, MigrateUp, Begin, history
  <1>5. QED  BY <1>1, <1>4 DEF IInv, RecordedPrefix, RunFits, MigrateUp

LEMMA MigrateDownKeeps ==
  ASSUME NEW vs \in SUBSET Version
  PROVE  IInv /\ MigrateDown(vs) => IInv'
  <1> SUFFICES ASSUME IInv, MigrateDown(vs) PROVE IInv'  OBVIOUS
  <1>1. run' = [direction |-> "down", left |-> vs, pc |-> "execute", next |-> 1]
    BY DEF MigrateDown, Begin
  <1>2. run' \in Run
    <2>1. vs # {}  BY DEF MigrateDown
    <2>2. QED  BY <1>1, <2>1, RunType DEF Direction
  <1>3. trouble' \in 0 .. MaxTrouble
    BY MigrateAssumption DEF IInv, MigrateType, MigrateDown
  <1>4. MigrateType'
    BY <1>2, <1>3 DEF IInv, MigrateType, MigrateDown, Begin, history
  <1>5. QED
    BY <1>1, <1>4 DEF IInv, RecordedPrefix, RunFits, MigrateDown, Latest, history

LEMMA MigrationAppliedKeeps ==
  ASSUME NEW v \in Version
  PROVE  IInv /\ MigrationApplied(v) => IInv'
  <1> SUFFICES ASSUME IInv, MigrationApplied(v) PROVE IInv'  OBVIOUS
  <1>1. /\ run # None /\ run \in Run /\ run.pc = "check" /\ run.direction = "up"
        /\ IsCurrent(v) /\ UNCHANGED <<schema, recorded, trouble, undone, refused>>
    BY DEF IInv, MigrateType, RunFits, MigrationApplied, At, history, Run, Direction
  <1>2. CASE v \in recorded /\ GoOn(v)
    <2>1. /\ RecordedPrefix' /\ RunFits'
          /\ run' \in Run \cup {None} /\ outcome' \in {"none", "up", "down", "failed"}
      BY <1>1, <1>2, GoOnFits
    <2>2. QED  BY <1>1, <2>1 DEF IInv, MigrateType
  <1>3. CASE run' = [run EXCEPT !.pc = "execute"] /\ UNCHANGED outcome
    <2>1. /\ run' \in Run /\ run'.direction = "up" /\ run'.left = run.left
      BY <1>1, <1>3 DEF Run
    <2>2. QED
      BY <1>1, <1>3, <2>1 DEF IInv, MigrateType, RecordedPrefix, RunFits
  <1>4. QED  BY <1>2, <1>3 DEF MigrationApplied

LEMMA ExecFileKeeps ==
  ASSUME NEW v \in Version
  PROVE  IInv /\ ExecFile(v) => IInv'
  <1> SUFFICES ASSUME IInv, ExecFile(v) PROVE IInv'  OBVIOUS
  <1>1. /\ run # None /\ run \in Run /\ run.pc = "execute" /\ run.next <= Len(File(v))
        /\ UNCHANGED <<recorded, trouble>>
    BY DEF IInv, MigrateType, ExecFile, At
  <1>2. File(v) \in Seq(Statement) /\ run.next \in Nat \ {0}
    BY <1>1, MigrateAssumption DEF File, Run
  <1> DEFINE s == File(v)[run.next]
  <1>3. CASE run' = None /\ outcome' = "failed" /\ refused' = refused \cup {v}
             /\ UNCHANGED <<schema, undone>>
    <2>1. MigrateType'  BY <1>1, <1>3 DEF IInv, MigrateType
    <2>2. QED  BY <1>1, <1>3, <2>1, SameLeft
  <1>4. CASE /\ schema' = Applied(schema, s) /\ run' = [run EXCEPT !.next = @ + 1]
             /\ undone' = IF run.direction = "down" THEN undone \cup {v} ELSE undone
             /\ UNCHANGED <<outcome, refused>> /\ schema' \in [Table -> SUBSET Feature]
    <2>1. /\ run' \in Run /\ run'.direction = run.direction /\ run'.left = run.left
          /\ run'.pc = run.pc
      BY <1>1, <1>2, <1>4 DEF Run
    <2>2. MigrateType'  BY <1>1, <1>4, <2>1 DEF IInv, MigrateType
    <2>3. run' # None \/ run' = None  OBVIOUS
    <2>4. QED  BY <1>1, <2>1, <2>2, <2>3, SameLeft
  <1>5. QED
    <2>1. CASE Refuses(schema, s)  BY <1>3, <2>1 DEF ExecFile
    <2>2. CASE ~Refuses(schema, s)
      <3>1. s \in Statement
        <4>1. run.next \in 1 .. Len(File(v))  BY <1>1, <1>2
        <4>2. QED  BY <1>2, <4>1
      <3>2. schema' = Applied(schema, s)  BY <2>2 DEF ExecFile
      <3>3. schema' \in [Table -> SUBSET Feature]  BY <3>1, <3>2, AppliedType DEF IInv
      <3>4. QED  BY <1>4, <2>2, <3>3 DEF ExecFile
    <2>3. QED  BY <2>1, <2>2

LEMMA ExecFileEndKeeps ==
  ASSUME NEW v \in Version
  PROVE  IInv /\ ExecFileEnd(v) => IInv'
  <1> SUFFICES ASSUME IInv, ExecFileEnd(v) PROVE IInv'  OBVIOUS
  <1>1. /\ run # None /\ run \in Run /\ run' = [run EXCEPT !.pc = "record"]
        /\ UNCHANGED <<schema, recorded, outcome, trouble, undone, refused>>
    BY DEF IInv, MigrateType, ExecFileEnd, At, history
  <1>2. /\ run' \in Run /\ run'.direction = run.direction /\ run'.left = run.left
        /\ run'.pc = "record"
    BY <1>1 DEF Run
  <1>3. MigrateType'  BY <1>1, <1>2 DEF IInv, MigrateType
  <1>4. QED  BY <1>1, <1>2, <1>3, SameLeft

LEMMA RecordVersionKeeps ==
  ASSUME NEW v \in Version
  PROVE  IInv /\ RecordVersion(v) => IInv'
  <1> SUFFICES ASSUME IInv, RecordVersion(v) PROVE IInv'  OBVIOUS
  <1>1. /\ run # None /\ run \in Run /\ IsCurrent(v) /\ GoOn(v)
        /\ recorded' = IF run.direction = "up" THEN recorded \cup {v} ELSE recorded \ {v}
        /\ undone' = undone \ {v} /\ UNCHANGED <<schema, trouble, refused>>
    BY DEF IInv, MigrateType, RecordVersion, At
  <1>2. run.direction \in {"up", "down"}  BY <1>1 DEF Run, Direction
  <1>3. /\ RecordedPrefix' /\ RunFits'
        /\ run' \in Run \cup {None} /\ outcome' \in {"none", "up", "down", "failed"}
    BY <1>1, <1>2, GoOnFits
  <1>4. QED  BY <1>1, <1>3 DEF IInv, MigrateType

LEMMA InterruptKeeps == IInv /\ Interrupt => IInv'
  <1> SUFFICES ASSUME IInv, Interrupt PROVE IInv'  OBVIOUS
  <1>1. trouble' \in 0 .. MaxTrouble
    BY MigrateAssumption DEF IInv, MigrateType, Interrupt
  <1>2. MigrateType'  BY <1>1 DEF IInv, MigrateType, Interrupt, history
  <1>3. QED  BY <1>2, SameLeft DEF Interrupt

\* What the theorems below follow from.
LEMMA Inductive == Spec => []IInv
  <1>1. IInv /\ [Next]_vars => IInv'
    <2> SUFFICES ASSUME IInv, [Next]_vars PROVE IInv'  OBVIOUS
    <2>1. CASE MigrateUp  BY <2>1, MigrateUpKeeps
    <2>2. ASSUME NEW vs \in SUBSET Version, MigrateDown(vs) PROVE IInv'
      BY <2>2, MigrateDownKeeps
    <2>3. CASE Step
      <3>1. PICK v \in Version :
              MigrationApplied(v) \/ ExecFile(v) \/ ExecFileEnd(v) \/ RecordVersion(v)
        BY <2>3 DEF Step
      <3>2. QED
        BY <3>1, MigrationAppliedKeeps, ExecFileKeeps, ExecFileEndKeeps, RecordVersionKeeps
    <2>4. CASE Interrupt  BY <2>4, InterruptKeeps
    <2>5. CASE UNCHANGED vars
      BY <2>5 DEF vars, history, IInv, MigrateType, RecordedPrefix, RunFits
    <2>6. QED  BY <2>1, <2>2, <2>3, <2>4, <2>5 DEF Next
  <1>2. QED  BY InitEstablishes, <1>1, PTL DEF Spec

\* The state of the database and of the run keeps its type.
THEOREM AlwaysMigrateType == Spec => []MigrateType
  BY Inductive, PTL DEF IInv

\* Whatever the files say and wherever runs are interrupted, the recorded versions
\* are the first ones, without a gap (migrateUp, migrateDown).
THEOREM AlwaysRecordedPrefix == Spec => []RecordedPrefix
  BY Inductive, PTL DEF IInv

-----------------------------------------------------------------------------
(* Files that can be started again. *)

\* Table t is dropped by a statement of f before the n-th, and not created again by then.
Gone(f, n, t) ==
  \E j \in DOMAIN f :
    /\ j < n /\ f[j].op = "drop" /\ f[j].table = t
    /\ \A i \in DOMAIN f : j < i /\ i < n /\ f[i].op = "create" => f[i].table # t

\* What migrations.md asks for: a table is dropped IF EXISTS, and created IF NOT EXISTS or
\* after the same file dropped it.
Repeatable(f) ==
  \A n \in DOMAIN f :
    \/ f[n].op \in {"create", "drop"} /\ f[n].lenient
    \/ f[n].op = "create" /\ Gone(f, n, f[n].table)

RepeatableFiles ==
  \A v \in Version \ Altering : Repeatable(UpFile[v]) /\ Repeatable(DownFile[v])

\* What a file that is executed has dropped is not there.
DroppedIsGone ==
  run # None =>
    /\ run.pc = "check" => run.next = 1
    /\ run.pc = "execute" =>
         \A v \in Version \ Altering : IsCurrent(v) =>
           \A t \in Table : Gone(File(v), run.next, t) => schema[t] = {}

RepeatInv == IInv /\ DroppedIsGone /\ RefusedOnlyAltering

LEMMA NoneGoneAtFirst ==
  ASSUME NEW f \in Seq(Statement), NEW t
  PROVE  ~Gone(f, 1, t)
  BY DEF Gone

LEMMA FileType ==
  ASSUME NEW v \in Version
  PROVE  /\ File(v) \in Seq(Statement)
         /\ RepeatableFiles /\ v \notin Altering => Repeatable(File(v))
  BY MigrateAssumption DEF File, RepeatableFiles

\* A run that begins a file.
LEMMA BeginsFile ==
  ASSUME run' # None => run'.next = 1
  PROVE  DroppedIsGone'
  <1> SUFFICES ASSUME run' # None, NEW v \in Version, NEW t \in Table, Gone(File(v), run.next, t)'
               PROVE  FALSE
    BY DEF DroppedIsGone
  <1>1. PICK f \in Seq(Statement) : f = File(v)'
    BY MigrateAssumption DEF File
  <1>2. Gone(f, 1, t)
    BY <1>1
  <1>3. QED  BY <1>2, NoneGoneAtFirst

\* The statements of a repeatable file are not refused, ...
LEMMA NotRefused ==
  ASSUME NEW f \in Seq(Statement), Repeatable(f), NEW n \in DOMAIN f,
         NEW sch, \A t \in Table : Gone(f, n, t) => sch[t] = {}
  PROVE  ~Refuses(sch, f[n])
  <1>1. f[n] \in Statement  OBVIOUS
  <1>2. f[n].table \in Table  BY <1>1 DEF Statement
  <1>3. CASE f[n].op \in {"create", "drop"} /\ f[n].lenient
    BY <1>3 DEF Refuses
  <1>4. CASE f[n].op = "create" /\ Gone(f, n, f[n].table)
    BY <1>2, <1>4 DEF Refuses
  <1>5. QED  BY <1>3, <1>4 DEF Repeatable

\* ... and what they drop is gone.
LEMMA StatementDrops ==
  ASSUME NEW f \in Seq(Statement), Repeatable(f), NEW n \in DOMAIN f,
         NEW sch \in [Table -> SUBSET Feature],
         \A t \in Table : Gone(f, n, t) => sch[t] = {},
         NEW t \in Table, Gone(f, n + 1, t)
  PROVE  Applied(sch, f[n])[t] = {}
  <1>1. DOMAIN f \subseteq Nat /\ n \in Nat  OBVIOUS
  <1>2. f[n] \in Statement /\ f[n].op \in {"create", "drop"}
    BY DEF Repeatable
  <1>3. PICK j \in DOMAIN f :
          /\ j < n + 1 /\ f[j].op = "drop" /\ f[j].table = t
          /\ \A i \in DOMAIN f : j < i /\ i < n + 1 /\ f[i].op = "create" => f[i].table # t
    BY DEF Gone
  <1>4. CASE j = n
    BY <1>3, <1>4 DEF Applied
  <1>5. CASE j # n
    <2>1. j < n  BY <1>1, <1>3, <1>5
    <2>2. Gone(f, n, t)  BY <1>1, <1>3, <2>1 DEF Gone
    <2>3. f[n].op = "create" => f[n].table # t  BY <1>1, <1>3, <2>1
    <2>4. CASE f[n].table # t
      BY <1>2, <2>2, <2>4 DEF Applied, Statement
    <2>5. CASE f[n].op = "drop" /\ f[n].table = t
      BY <2>5 DEF Applied
    <2>6. QED  BY <1>2, <2>3, <2>4, <2>5
  <1>6. QED  BY <1>4, <1>5

LEMMA ExecFileRepeats ==
  ASSUME RepeatableFiles, RepeatInv, NEW v \in Version, ExecFile(v)
  PROVE  DroppedIsGone' /\ RefusedOnlyAltering'
  <1>1. /\ run \in Run /\ run # None /\ run.pc = "execute" /\ IsCurrent(v)
        /\ run.next \in Nat \ {0} /\ run.next <= Len(File(v))
        /\ schema \in [Table -> SUBSET Feature]
    BY DEF RepeatInv, IInv, MigrateType, ExecFile, At, Run
  <1>2. PICK f \in Seq(Statement) : /\ f = File(v)
                                    /\ v \notin Altering => Repeatable(f)
    BY FileType
  <1>3. PICK n \in DOMAIN f : n = run.next
    BY <1>1, <1>2
  <1>4. v \notin Altering => \A t \in Table : Gone(f, n, t) => schema[t] = {}
    BY <1>1, <1>2, <1>3 DEF RepeatInv, DroppedIsGone
  <1>5. CASE Refuses(schema, f[n])
    <2>1. v \in Altering  BY <1>2, <1>4, <1>5, NotRefused
    <2>2. run' = None /\ refused' = refused \cup {v}
      BY <1>2, <1>3, <1>5 DEF ExecFile
    <2>3. QED  BY <2>1, <2>2 DEF RepeatInv, DroppedIsGone, RefusedOnlyAltering, Altering
  <1>6. CASE ~Refuses(schema, f[n])
    <2>1. /\ schema' = Applied(schema, f[n]) /\ run' = [run EXCEPT !.next = @ + 1]
          /\ refused' = refused
      BY <1>2, <1>3, <1>6 DEF ExecFile
    <2>2. /\ run'.next = n + 1 /\ run'.pc = "execute"
          /\ run'.direction = run.direction /\ run'.left = run.left
      BY <1>1, <1>3, <2>1 DEF Run
    <2>3. ASSUME NEW w \in Version \ Altering, IsCurrent(w)', NEW t \in Table,
                 Gone(File(w), run.next, t)'
          PROVE  schema'[t] = {}
      <3>1. w = v
        BY <1>1, <2>2, <2>3, MigrateAssumption DEF IsCurrent
      <3>2. Gone(f, n + 1, t)
        <4>1. File(w)' = f  BY <1>2, <2>2, <3>1 DEF File
        <4>2. QED  BY <2>2, <2>3, <4>1
      <3>3. QED  BY <1>1, <1>2, <1>4, <2>1, <2>3, <3>1, <3>2, StatementDrops
    <2>4. DroppedIsGone'  BY <2>2, <2>3 DEF DroppedIsGone
    <2>5. QED  BY <2>1, <2>4 DEF RepeatInv, RefusedOnlyAltering, Altering
  <1>7. QED  BY <1>5, <1>6

LEMMA RepeatInvNext ==
  ASSUME RepeatableFiles, RepeatInv, [Next]_vars, IInv'
  PROVE  RepeatInv'
  <1>1. SUFFICES DroppedIsGone' /\ RefusedOnlyAltering'
    BY DEF RepeatInv
  <1>2. ASSUME UNCHANGED refused PROVE RefusedOnlyAltering'
    BY <1>2 DEF RepeatInv, RefusedOnlyAltering, Altering
  <1>3. CASE MigrateUp
    BY <1>2, <1>3, BeginsFile DEF MigrateUp, Begin, history
  <1>4. ASSUME NEW vs \in SUBSET Version, MigrateDown(vs)
        PROVE  DroppedIsGone' /\ RefusedOnlyAltering'
    BY <1>2, <1>4, BeginsFile DEF MigrateDown, Begin, history
  <1>5. ASSUME NEW v \in Version, GoOn(v), UNCHANGED refused
        PROVE  DroppedIsGone' /\ RefusedOnlyAltering'
    <2>1. run' # None => run'.next = 1
      BY <1>5 DEF GoOn
    <2>2. QED  BY <1>2, <1>5, <2>1, BeginsFile
  <1>6. ASSUME NEW v \in Version, MigrationApplied(v)
        PROVE  DroppedIsGone' /\ RefusedOnlyAltering'
    <2>1. UNCHANGED refused
      BY <1>6 DEF MigrationApplied, history
    <2>2. CASE GoOn(v)
      BY <1>5, <2>1, <2>2
    <2>3. CASE run' = [run EXCEPT !.pc = "execute"]
      <3>1. run \in Run /\ run.next = 1
        BY <1>6 DEF MigrationApplied, At, RepeatInv, DroppedIsGone, IInv, MigrateType
      <3>2. run'.next = 1
        BY <2>3, <3>1 DEF Run
      <3>3. QED  BY <1>2, <2>1, <3>2, BeginsFile
    <2>4. QED  BY <1>6, <2>2, <2>3 DEF MigrationApplied
  <1>7. ASSUME NEW v \in Version, ExecFile(v)
        PROVE  DroppedIsGone' /\ RefusedOnlyAltering'
    BY <1>7, ExecFileRepeats
  <1>8. ASSUME NEW v \in Version, ExecFileEnd(v)
        PROVE  DroppedIsGone' /\ RefusedOnlyAltering'
    <2>1. run \in Run /\ run' = [run EXCEPT !.pc = "record"] /\ UNCHANGED refused
      BY <1>8 DEF ExecFileEnd, At, RepeatInv, IInv, MigrateType, history
    <2>2. run'.pc = "record"
      BY <2>1 DEF Run
    <2>3. DroppedIsGone'
      BY <2>2 DEF DroppedIsGone
    <2>4. QED  BY <1>2, <2>1, <2>3
  <1>9. ASSUME NEW v \in Version, RecordVersion(v)
        PROVE  DroppedIsGone' /\ RefusedOnlyAltering'
    BY <1>5, <1>9 DEF RecordVersion
  <1>10. CASE Interrupt
    BY <1>2, <1>10, BeginsFile DEF Interrupt, history
  <1>11. CASE UNCHANGED vars
    <2>1. /\ schema' = schema /\ run' = run /\ refused' = refused
      BY <1>11 DEF vars, history
    <2>2. DroppedIsGone'
      BY <2>1 DEF RepeatInv, DroppedIsGone, IsCurrent, File
    <2>3. QED  BY <1>2, <2>1, <2>2
  <1>12. QED
    BY <1>3, <1>4, <1>6, <1>7, <1>8, <1>9, <1>10, <1>11 DEF Next, Step

\* If the files that do not alter a table can be repeated, the database refuses none of
\* their statements, wherever runs and roll-backs are interrupted.
THEOREM AlwaysRefusedOnlyAltering ==
  ASSUME RepeatableFiles
  PROVE  Spec => []RefusedOnlyAltering
  <1>1. Init => RepeatInv
    <2>1. Init => DroppedIsGone /\ RefusedOnlyAltering
      BY DEF Init, DroppedIsGone, RefusedOnlyAltering
    <2>2. QED  BY <2>1, InitEstablishes DEF RepeatInv
  <1>2. RepeatInv /\ IInv' /\ [Next]_vars => RepeatInv'
    BY RepeatInvNext
  <1>3. RepeatInv => RefusedOnlyAltering
    BY DEF RepeatInv
  <1>4. QED  BY <1>1, <1>2, <1>3, Inductive, PTL DEF Spec

-----------------------------------------------------------------------------
(* The files of the repository. *)

Lenient(f) == \A n \in DOMAIN f : f[n].op \in {"create", "drop"} /\ f[n].lenient

\* The tables of T are dropped by f, and not created again.
Drops(f, T) == \A t \in T : Gone(f, Len(f) + 1, t)

\* A file may go on with statements that are lenient, ...
LEMMA GoneGoesOn ==
  ASSUME NEW f \in Seq(Statement), NEW g \in Seq(Statement), NEW n \in 1 .. Len(f) + 1, NEW t
  PROVE  Gone(f, n, t) <=> Gone(f \o g, n, t)
  <1>1. /\ DOMAIN f = 1 .. Len(f) /\ DOMAIN (f \o g) = 1 .. Len(f) + Len(g)
        /\ Len(f) \in Nat /\ Len(g) \in Nat
        /\ \A i \in 1 .. Len(f) : (f \o g)[i] = f[i]
    OBVIOUS
  <1>2. \A i \in DOMAIN (f \o g) : i < n => i \in DOMAIN f
    BY <1>1
  <1>3. \A i \in DOMAIN f : i \in DOMAIN (f \o g)
    BY <1>1
  <1>4. QED  BY <1>1, <1>2, <1>3 DEF Gone

LEMMA RepeatableGoesOn ==
  ASSUME NEW f \in Seq(Statement), NEW g \in Seq(Statement), Repeatable(f),
         \A n \in DOMAIN g :
           \/ g[n].op \in {"create", "drop"} /\ g[n].lenient
           \/ g[n].op = "create" /\ Gone(f \o g, Len(f) + n, g[n].table)
  PROVE  Repeatable(f \o g)
  <1> DEFINE h == f \o g
  <1>1. /\ DOMAIN f = 1 .. Len(f) /\ DOMAIN g = 1 .. Len(g) /\ DOMAIN h = 1 .. Len(f) + Len(g)
        /\ Len(f) \in Nat /\ Len(g) \in Nat
        /\ \A i \in 1 .. Len(f) : h[i] = f[i]
        /\ \A i \in 1 .. Len(g) : h[Len(f) + i] = g[i]
    OBVIOUS
  <1> SUFFICES ASSUME NEW n \in DOMAIN h
               PROVE  \/ h[n].op \in {"create", "drop"} /\ h[n].lenient
                      \/ h[n].op = "create" /\ Gone(h, n, h[n].table)
    BY DEF Repeatable
  <1>2. CASE n <= Len(f)
    <2>1. n \in DOMAIN f /\ n \in 1 .. Len(f) + 1 /\ h[n] = f[n]
      BY <1>1, <1>2
    <2>2. \/ f[n].op \in {"create", "drop"} /\ f[n].lenient
          \/ f[n].op = "create" /\ Gone(f, n, f[n].table)
      BY <2>1 DEF Repeatable
    <2>3. QED  BY <2>1, <2>2, GoneGoesOn
  <1>3. CASE n > Len(f)
    <2>1. PICK k \in DOMAIN g : n = Len(f) + k
      <3>1. n - Len(f) \in DOMAIN g /\ n = Len(f) + (n - Len(f))
        BY <1>1, <1>3
      <3>2. QED  BY <3>1
    <2>2. h[n] = g[k]
      BY <1>1, <2>1
    <2>3. QED  BY <2>1, <2>2
  <1>4. QED  BY <1>1, <1>2, <1>3

\* ... and with the creation of tables that it has dropped.
LEMMA CreatesAgain ==
  ASSUME NEW f \in Seq(Statement), NEW g \in Seq(Statement), Repeatable(f),
         NEW T, Drops(f, T),
         \A n \in DOMAIN g : g[n].op = "create" /\ g[n].table \in T,
         \A n \in DOMAIN g, k \in DOMAIN g : g[n].table = g[k].table => n = k
  PROVE  /\ Repeatable(f \o g)
         /\ Drops(f \o g, T \ {g[n].table : n \in DOMAIN g})
  <1> DEFINE h == f \o g
  <1>1. /\ DOMAIN f = 1 .. Len(f) /\ DOMAIN g = 1 .. Len(g) /\ DOMAIN h = 1 .. Len(f) + Len(g)
        /\ Len(f) \in Nat /\ Len(g) \in Nat /\ Len(h) = Len(f) + Len(g)
        /\ \A i \in 1 .. Len(f) : h[i] = f[i]
        /\ \A i \in 1 .. Len(g) : h[Len(f) + i] = g[i]
    OBVIOUS
  <1>2. ASSUME NEW t \in T, NEW m \in Nat, m <= Len(h) + 1, Len(f) < m,
               \A k \in DOMAIN g : Len(f) + k < m => g[k].table # t
        PROVE  Gone(h, m, t)
    <2>1. PICK j \in DOMAIN f :
            /\ f[j].op = "drop" /\ f[j].table = t
            /\ \A i \in DOMAIN f : j < i /\ i < Len(f) + 1 /\ f[i].op = "create" => f[i].table # t
      BY DEF Drops, Gone
    <2>2. j \in DOMAIN h /\ j < m /\ h[j] = f[j]
      BY <1>1, <1>2, <2>1
    <2>3. ASSUME NEW i \in DOMAIN h, j < i, i < m, h[i].op = "create" PROVE h[i].table # t
      <3>1. CASE i <= Len(f)
        <4>1. i \in DOMAIN f /\ i < Len(f) + 1 /\ h[i] = f[i]
          BY <1>1, <3>1
        <4>2. QED  BY <2>1, <2>3, <4>1
      <3>2. CASE i > Len(f)
        <4>1. PICK k \in DOMAIN g : i = Len(f) + k
          <5>1. i - Len(f) \in DOMAIN g /\ i = Len(f) + (i - Len(f))
            BY <1>1, <3>2
          <5>2. QED  BY <5>1
        <4>2. h[i] = g[k] /\ Len(f) + k < m
          BY <1>1, <2>3, <4>1
        <4>3. QED  BY <1>2, <4>2
      <3>3. QED  BY <1>1, <3>1, <3>2
    <2>4. QED  BY <2>1, <2>2, <2>3 DEF Gone
  <1>3. ASSUME NEW n \in DOMAIN g PROVE Gone(h, Len(f) + n, g[n].table)
    <2>1. /\ Len(f) + n \in Nat /\ Len(f) + n <= Len(h) + 1 /\ Len(f) < Len(f) + n
          /\ g[n].table \in T
      BY <1>1
    <2>2. \A k \in DOMAIN g : Len(f) + k < Len(f) + n => g[k].table # g[n].table
      BY <1>1
    <2>3. QED  BY <1>2, <2>1, <2>2
  <1>4. ASSUME NEW t \in T \ {g[n].table : n \in DOMAIN g} PROVE Gone(h, Len(h) + 1, t)
    BY <1>1, <1>2
  <1>5. Repeatable(h)
    BY <1>3, RepeatableGoesOn
  <1>6. QED  BY <1>4, <1>5 DEF Drops

LEMMA LenientIsRepeatable ==
  ASSUME NEW f, Lenient(f)
  PROVE  Repeatable(f)
  BY DEF Lenient, Repeatable

\* A drop of another table IF EXISTS before.
LEMMA DropsMore ==
  ASSUME NEW f \in Seq(Statement), NEW T, Drops(f, T), Lenient(f), NEW u \in Table,
         \A i \in DOMAIN f : f[i].op = "drop"
  PROVE  /\ <<DropIfExists(u)>> \o f \in Seq(Statement)
         /\ Lenient(<<DropIfExists(u)>> \o f)
         /\ Drops(<<DropIfExists(u)>> \o f, T \cup {u})
         /\ \A i \in DOMAIN (<<DropIfExists(u)>> \o f) : (<<DropIfExists(u)>> \o f)[i].op = "drop"
  <1>1. PICK s \in Statement : /\ s = DropIfExists(u)
                               /\ s.op = "drop" /\ s.table = u /\ s.lenient
    <2>1. PICK s : s = DropIfExists(u)
      OBVIOUS
    <2>2. s = [op |-> "drop", table |-> u, features |-> {}, lenient |-> TRUE]
      BY <2>1 DEF DropIfExists
    <2>3. s \in Statement
      BY <2>2 DEF Statement
    <2>4. s.op = "drop" /\ s.table = u /\ s.lenient
      BY <2>2
    <2>5. QED  BY <2>1, <2>3, <2>4
  <1>2. PICK h \in Seq(Statement) : h = <<s>> \o f
    <2>1. <<s>> \in Seq(Statement)
      OBVIOUS
    <2>2. <<s>> \o f \in Seq(Statement)
      BY <2>1
    <2>3. QED  BY <2>2
  <1>3. /\ DOMAIN f = 1 .. Len(f) /\ DOMAIN h = 1 .. 1 + Len(f)
        /\ Len(f) \in Nat /\ Len(h) = 1 + Len(f)
        /\ h[1] = s
        /\ \A i \in 1 .. Len(f) : h[1 + i] = f[i]
    BY <1>2
  <1>4. ASSUME NEW i \in DOMAIN h
        PROVE  h[i].op = "drop" /\ h[i].lenient
    <2>1. CASE i = 1
      BY <1>1, <1>3, <2>1
    <2>2. CASE i # 1
      <3>1. PICK k \in DOMAIN f : i = 1 + k
        <4>1. i - 1 \in DOMAIN f /\ i = 1 + (i - 1)
          BY <1>3, <2>2
        <4>2. QED  BY <4>1
      <3>2. h[i] = f[k]
        BY <1>3, <3>1
      <3>3. QED  BY <3>2 DEF Lenient
    <2>3. QED  BY <2>1, <2>2
  <1>5. ASSUME NEW t \in T \cup {u}
        PROVE  Gone(h, Len(h) + 1, t)
    <2>1. CASE t = u
      BY <1>1, <1>3, <1>4, <2>1 DEF Gone
    <2>2. CASE t \in T
      <3>1. PICK j \in DOMAIN f : f[j].op = "drop" /\ f[j].table = t
        BY <2>2 DEF Drops, Gone
      <3>2. 1 + j \in DOMAIN h /\ 1 + j < Len(h) + 1 /\ h[1 + j] = f[j]
        BY <1>3
      <3>3. QED  BY <1>4, <3>1, <3>2 DEF Gone
    <2>3. QED  BY <2>1, <2>2
  <1>6. QED  BY <1>1, <1>2, <1>4, <1>5 DEF Lenient, Drops

RepositoryFiles ==
  /\ Newest = 6 /\ UpFile = Up /\ DownFile = Down
  /\ Table = Tables /\ Feature = Features

\* A file of statements that are all lenient.
LEMMA LenientFiles ==
  /\ Lenient(CmsUp) /\ Lenient(CmsDown)
  /\ Lenient(RegistryUp) /\ Lenient(RegistryDown)
  /\ Lenient(SessionsUp) /\ Lenient(SessionsDown)
  <1>1. \A t, features : /\ CreateIfNotExists(t, features).op = "create"
                         /\ CreateIfNotExists(t, features).lenient
                         /\ DropIfExists(t).op = "drop" /\ DropIfExists(t).lenient
    BY DEF CreateIfNotExists, DropIfExists
  <1>2. Lenient(CmsUp)  BY <1>1 DEF Lenient, CmsUp
  <1>3. Lenient(CmsDown)  BY <1>1 DEF Lenient, CmsDown
  <1>4. Lenient(RegistryUp)  BY <1>1 DEF Lenient, RegistryUp
  <1>5. Lenient(RegistryDown)  BY <1>1 DEF Lenient, RegistryDown
  <1>6. Lenient(SessionsUp)  BY <1>1 DEF Lenient, SessionsUp
  <1>7. Lenient(SessionsDown)  BY <1>1 DEF Lenient, SessionsDown
  <1>8. QED  BY <1>2, <1>3, <1>4, <1>5, <1>6, <1>7

V1Tables == {"plugin_audit_events", "plugin_routes", "plugin_instances", "plugin_services"}
V2Tables == V1Tables \cup {"plugin_signature_nonces"}
V3Tables == V2Tables \cup {"plugin_route_claims"}

\* The files of v2 and v3 begin with the drop of all their tables.
LEMMA FilesDrop ==
  ASSUME RepositoryFiles
  PROVE  /\ DropV2 \in Seq(Statement) /\ Lenient(DropV2) /\ Drops(DropV2, V2Tables)
         /\ DropV3 \in Seq(Statement) /\ Lenient(DropV3) /\ Drops(DropV3, V3Tables)
  <1>1. /\ V3Tables \subseteq Table
        /\ "plugin_audit_events" \in Table /\ "plugin_routes" \in Table
        /\ "plugin_instances" \in Table /\ "plugin_services" \in Table
        /\ "plugin_signature_nonces" \in Table /\ "plugin_route_claims" \in Table
    BY DEF RepositoryFiles, Tables, V1Tables, V2Tables, V3Tables
  <1>2. \A t \in Table : /\ DropIfExists(t) \in Statement
                         /\ DropIfExists(t).op = "drop" /\ DropIfExists(t).lenient
                         /\ DropIfExists(t).table = t
    BY DEF DropIfExists, Statement
  <1>3. PICK a \in Statement, b \in Statement, c \in Statement, d \in Statement :
          /\ a = DropIfExists("plugin_audit_events") /\ b = DropIfExists("plugin_routes")
          /\ c = DropIfExists("plugin_instances") /\ d = DropIfExists("plugin_services")
    BY <1>1, <1>2
  <1>4. /\ a.op = "drop" /\ b.op = "drop" /\ c.op = "drop" /\ d.op = "drop"
        /\ a.lenient /\ b.lenient /\ c.lenient /\ d.lenient
        /\ a.table = "plugin_audit_events" /\ b.table = "plugin_routes"
        /\ c.table = "plugin_instances" /\ d.table = "plugin_services"
    BY <1>1, <1>2, <1>3
  <1>5. PICK f \in Seq(Statement) : f = <<a, b, c, d>> /\ f = DropV1
    <2>1. <<a, b, c, d>> \in Seq(Statement)
      OBVIOUS
    <2>2. DropV1 = <<a, b, c, d>>
      BY <1>3 DEF DropV1
    <2>3. QED  BY <2>1, <2>2
  <1>6. /\ Len(f) = 4 /\ DOMAIN f = 1 .. 4
        /\ f[1] = a /\ f[2] = b /\ f[3] = c /\ f[4] = d
    BY <1>5
  <1>7. Lenient(f) /\ \A i \in DOMAIN f : f[i].op = "drop"
    BY <1>4, <1>6 DEF Lenient
  <1>8. \A j \in DOMAIN f : Gone(f, Len(f) + 1, f[j].table)
    BY <1>6, <1>7 DEF Gone
  <1>9. Drops(f, V1Tables)
    <2>1. V1Tables = {a.table, b.table, c.table, d.table}
      BY <1>4 DEF V1Tables
    <2>2. \A t \in V1Tables : \E j \in DOMAIN f : t = f[j].table
      BY <1>6, <2>1
    <2>3. QED  BY <1>8, <2>2 DEF Drops
  <1>10. /\ DropV2 \in Seq(Statement) /\ Lenient(DropV2) /\ Drops(DropV2, V2Tables)
         /\ \A i \in DOMAIN DropV2 : DropV2[i].op = "drop"
    <2>1. /\ DropV1 \in Seq(Statement) /\ Lenient(DropV1) /\ Drops(DropV1, V1Tables)
          /\ \A i \in DOMAIN DropV1 : DropV1[i].op = "drop"
      BY <1>5, <1>7, <1>9
    <2>2. QED  BY <1>1, <2>1, DropsMore DEF DropV2, V2Tables
  <1>11. DropV3 \in Seq(Statement) /\ Lenient(DropV3) /\ Drops(DropV3, V3Tables)
    BY <1>1, <1>10, DropsMore DEF DropV3, V3Tables
  <1>12. QED  BY <1>10, <1>11

\* The tables that v2 and v3 create.
LEMMA FilesCreate ==
  ASSUME RepositoryFiles, NEW shape \in Feature
  PROVE  /\ \A g \in {CreateShape(shape), CreateLogs(shape),
                      <<CreateTable("plugin_route_claims", {shape})>>} :
              /\ g \in Seq(Statement)
              /\ \A n \in DOMAIN g : g[n].op = "create"
              /\ \A n, k \in DOMAIN g : g[n].table = g[k].table => n = k
         /\ {CreateShape(shape)[n].table : n \in DOMAIN CreateShape(shape)} =
              {"plugin_services", "plugin_instances", "plugin_routes"}
         /\ {CreateLogs(shape)[n].table : n \in DOMAIN CreateLogs(shape)} =
              {"plugin_audit_events", "plugin_signature_nonces"}
  <1>1. /\ "plugin_audit_events" \in Table /\ "plugin_routes" \in Table
        /\ "plugin_instances" \in Table /\ "plugin_services" \in Table
        /\ "plugin_signature_nonces" \in Table /\ "plugin_route_claims" \in Table
        /\ "health" \in Feature
    BY DEF RepositoryFiles, Tables, Features
  <1>2. \A t \in Table, features \in SUBSET Feature :
          /\ CreateTable(t, features) \in Statement
          /\ CreateTable(t, features).op = "create"
          /\ CreateTable(t, features).table = t
    BY DEF CreateTable, Statement
  <1>3. /\ {shape} \in SUBSET Feature
        /\ {shape, "health"} \in SUBSET Feature
    BY <1>1
  <1>4. PICK a \in Statement, b \in Statement, c \in Statement :
          /\ a = CreateTable("plugin_services", {shape})
          /\ b = CreateTable("plugin_instances", {shape, "health"})
          /\ c = CreateTable("plugin_routes", {shape})
    BY <1>1, <1>2, <1>3
  <1>5. /\ a.op = "create" /\ b.op = "create" /\ c.op = "create"
        /\ a.table = "plugin_services" /\ b.table = "plugin_instances"
        /\ c.table = "plugin_routes"
    BY <1>1, <1>2, <1>3, <1>4
  <1>6. PICK f \in Seq(Statement) : f = <<a, b, c>> /\ f = CreateShape(shape)
    <2>1. <<a, b, c>> \in Seq(Statement)
      OBVIOUS
    <2>2. CreateShape(shape) = <<a, b, c>>
      BY <1>4 DEF CreateShape
    <2>3. QED  BY <2>1, <2>2
  <1>7. DOMAIN f = 1 .. 3 /\ f[1] = a /\ f[2] = b /\ f[3] = c
    BY <1>6
  <1>8. /\ \A n \in DOMAIN f : f[n].op = "create"
        /\ \A n, k \in DOMAIN f : f[n].table = f[k].table => n = k
    BY <1>5, <1>7
  <1>9. {f[n].table : n \in DOMAIN f} = {"plugin_services", "plugin_instances", "plugin_routes"}
    BY <1>5, <1>7
  <1>10. PICK p \in Statement, q \in Statement, r \in Statement :
           /\ p = CreateTable("plugin_audit_events", {shape})
           /\ q = CreateTable("plugin_signature_nonces", {shape})
           /\ r = CreateTable("plugin_route_claims", {shape})
    BY <1>1, <1>2, <1>3
  <1>11. /\ p.op = "create" /\ q.op = "create" /\ r.op = "create"
         /\ p.table = "plugin_audit_events" /\ q.table = "plugin_signature_nonces"
    BY <1>1, <1>2, <1>3, <1>10
  <1>12. PICK g \in Seq(Statement) : g = <<p, q>> /\ g = CreateLogs(shape)
    <2>1. <<p, q>> \in Seq(Statement)
      OBVIOUS
    <2>2. CreateLogs(shape) = <<p, q>>
      BY <1>10 DEF CreateLogs
    <2>3. QED  BY <2>1, <2>2
  <1>13. DOMAIN g = 1 .. 2 /\ g[1] = p /\ g[2] = q
    BY <1>12
  <1>14. /\ \A n \in DOMAIN g : g[n].op = "create"
         /\ \A n, k \in DOMAIN g : g[n].table = g[k].table => n = k
    BY <1>11, <1>13
  <1>15. {g[n].table : n \in DOMAIN g} = {"plugin_audit_events", "plugin_signature_nonces"}
    BY <1>11, <1>13
  <1>16. PICK h \in Seq(Statement) :
           h = <<r>> /\ h = <<CreateTable("plugin_route_claims", {shape})>>
    <2>1. <<r>> \in Seq(Statement)
      OBVIOUS
    <2>2. QED  BY <1>10, <2>1
  <1>17. DOMAIN h = 1 .. 1 /\ h[1] = r
    BY <1>16
  <1>18. /\ \A n \in DOMAIN h : h[n].op = "create"
         /\ \A n, k \in DOMAIN h : h[n].table = h[k].table => n = k
    BY <1>11, <1>17
  <1>19. ASSUME NEW x \in {CreateShape(shape), CreateLogs(shape),
                            <<CreateTable("plugin_route_claims", {shape})>>}
         PROVE  /\ x \in Seq(Statement)
                /\ \A n \in DOMAIN x : x[n].op = "create"
                /\ \A n, k \in DOMAIN x : x[n].table = x[k].table => n = k
    <2>1. x = f \/ x = g \/ x = h
      BY <1>6, <1>12, <1>16
    <2>2. QED  BY <1>8, <1>14, <1>18, <2>1
  <1>20. \A x \in {CreateShape(shape), CreateLogs(shape),
                   <<CreateTable("plugin_route_claims", {shape})>>} :
           /\ x \in Seq(Statement)
           /\ \A n \in DOMAIN x : x[n].op = "create"
           /\ \A n, k \in DOMAIN x : x[n].table = x[k].table => n = k
    BY <1>19
  <1>21. {CreateShape(shape)[n].table : n \in DOMAIN CreateShape(shape)} =
           {"plugin_services", "plugin_instances", "plugin_routes"}
    BY <1>6, <1>9
  <1>22. {CreateLogs(shape)[n].table : n \in DOMAIN CreateLogs(shape)} =
           {"plugin_audit_events", "plugin_signature_nonces"}
    BY <1>12, <1>15
  <1>23. QED  BY <1>20, <1>21, <1>22, Zenon

\* Statements after a file that are lenient.
LEMMA LenientGoesOn ==
  ASSUME NEW f \in Seq(Statement), NEW g \in Seq(Statement), Lenient(f), Lenient(g)
  PROVE  Repeatable(f \o g)
  <1>1. Repeatable(f)  BY LenientIsRepeatable
  <1>2. QED  BY <1>1, RepeatableGoesOn DEF Lenient

LEMMA V2DownRepeatable == RepositoryFiles => Repeatable(V2Down)
  <1> SUFFICES ASSUME RepositoryFiles PROVE Repeatable(V2Down)  OBVIOUS
  <1> DEFINE g == << CreateIfNotExists("plugin_services", {"v1"}),
                     CreateIfNotExists("plugin_instances", {"v1", "health", "health_index"}),
                     CreateIfNotExists("plugin_routes", {"v1"}),
                     CreateIfNotExists("plugin_audit_events", {"v1"}) >>
  <1>1. \A t \in Table, features \in SUBSET Feature :
          /\ CreateIfNotExists(t, features) \in Statement
          /\ CreateIfNotExists(t, features).op = "create"
          /\ CreateIfNotExists(t, features).lenient
    BY DEF CreateIfNotExists, Statement
  <1>2. /\ "plugin_audit_events" \in Table /\ "plugin_routes" \in Table
        /\ "plugin_instances" \in Table /\ "plugin_services" \in Table
        /\ {"v1"} \in SUBSET Feature /\ {"v1", "health", "health_index"} \in SUBSET Feature
    BY DEF RepositoryFiles, Tables, Features
  <1>3. PICK a \in Statement, b \in Statement, c \in Statement, d \in Statement :
          /\ g = <<a, b, c, d>>
          /\ a.op = "create" /\ b.op = "create" /\ c.op = "create" /\ d.op = "create"
          /\ a.lenient /\ b.lenient /\ c.lenient /\ d.lenient
    BY <1>1, <1>2
  <1>4. g \in Seq(Statement) /\ Lenient(g)
    <2>1. <<a, b, c, d>> \in Seq(Statement)
      OBVIOUS
    <2>2. Lenient(<<a, b, c, d>>)
      BY <1>3 DEF Lenient
    <2>3. QED  BY <1>3, <2>1, <2>2
  <1>5. V2Down = DropV2 \o g
    BY DEF V2Down
  <1> HIDE DEF g
  <1>6. QED  BY <1>4, <1>5, FilesDrop, LenientGoesOn

\* The tables are dropped, and created in three groups or two.
LEMMA ShapesRepeatable ==
  ASSUME RepositoryFiles, NEW shape \in Feature, NEW f \in Seq(Statement), Lenient(f),
         NEW T, Drops(f, T)
  PROVE  /\ V2Tables \subseteq T => Repeatable(f \o CreateShape(shape) \o CreateLogs(shape))
         /\ V3Tables \subseteq T =>
              Repeatable(f \o CreateShape(shape)
                           \o <<CreateTable("plugin_route_claims", {shape})>> \o CreateLogs(shape))
  <1> DEFINE g == CreateShape(shape)
             h == CreateLogs(shape)
             c == <<CreateTable("plugin_route_claims", {shape})>>
  <1>1. Repeatable(f)  BY LenientIsRepeatable
  <1>2. /\ \A x \in {g, h, c} :
             /\ x \in Seq(Statement)
             /\ \A n \in DOMAIN x : x[n].op = "create"
             /\ \A n, k \in DOMAIN x : x[n].table = x[k].table => n = k
        /\ {g[n].table : n \in DOMAIN g} = {"plugin_services", "plugin_instances", "plugin_routes"}
        /\ {h[n].table : n \in DOMAIN h} = {"plugin_audit_events", "plugin_signature_nonces"}
    BY FilesCreate
  <1>3. \A n \in DOMAIN c : c[n].table = "plugin_route_claims"
    BY DEF CreateTable
  <1> HIDE DEF g, h, c
  <1>4. SUFFICES ASSUME V2Tables \subseteq T
                 PROVE  /\ Repeatable(f \o g \o h)
                        /\ V3Tables \subseteq T => Repeatable(f \o g \o c \o h)
    BY DEF g, h, c, V3Tables
  <1>5. /\ Repeatable(f \o g)
        /\ Drops(f \o g, T \ {g[n].table : n \in DOMAIN g})
    <2>1. {"plugin_services", "plugin_instances", "plugin_routes"} \subseteq T
      BY <1>4 DEF V2Tables, V1Tables
    <2>2. \A n \in DOMAIN g : g[n].table \in {g[k].table : k \in DOMAIN g}
      OBVIOUS
    <2>3. /\ g \in Seq(Statement)
          /\ \A n \in DOMAIN g : g[n].op = "create" /\ g[n].table \in T
          /\ \A n, k \in DOMAIN g : g[n].table = g[k].table => n = k
      BY <1>2, <2>1, <2>2
    <2>4. QED  BY <1>1, <2>3, CreatesAgain
  <1>6. PICK U : /\ U = T \ {"plugin_services", "plugin_instances", "plugin_routes"}
                 /\ Drops(f \o g, U)
    BY <1>2, <1>5
  <1>7. f \o g \in Seq(Statement)
    BY <1>2
  <1>8. \A n \in DOMAIN h : h[n].table \in {"plugin_audit_events", "plugin_signature_nonces"}
    BY <1>2
  <1>9. Repeatable((f \o g) \o h)
    <2>1. \A n \in DOMAIN h : h[n].table \in U
      BY <1>4, <1>6, <1>8 DEF V2Tables, V1Tables
    <2>2. QED  BY <1>2, <1>5, <1>6, <1>7, <2>1, CreatesAgain
  <1>10. ASSUME V3Tables \subseteq T PROVE Repeatable(((f \o g) \o c) \o h)
    <2>1. \A n \in DOMAIN c : c[n].table \in U
      BY <1>3, <1>6, <1>10 DEF V3Tables
    <2>2. /\ Repeatable((f \o g) \o c)
          /\ Drops((f \o g) \o c, U \ {c[n].table : n \in DOMAIN c})
      BY <1>2, <1>5, <1>6, <1>7, <2>1, CreatesAgain
    <2>3. \A n \in DOMAIN h : h[n].table \in U \ {c[k].table : k \in DOMAIN c}
      BY <1>3, <1>4, <1>6, <1>8 DEF V2Tables, V1Tables
    <2>4. (f \o g) \o c \in Seq(Statement)
      BY <1>2, <1>7
    <2>5. QED  BY <1>2, <2>2, <2>3, <2>4, CreatesAgain
  <1>11. QED  BY <1>9, <1>10

\* All files of the repository but those that alter a table are repeatable.
LEMMA RepositoryRepeatable == RepositoryFiles => RepeatableFiles
  <1> SUFFICES ASSUME RepositoryFiles PROVE RepeatableFiles  OBVIOUS
  <1>1. /\ Up[1] = CmsUp /\ Up[2] = RegistryUp /\ Up[3] = HardeningUp
        /\ Up[4] = SessionsUp /\ Up[5] = V2Up /\ Up[6] = V3Up
        /\ Down[1] = CmsDown /\ Down[2] = RegistryDown /\ Down[3] = HardeningDown
        /\ Down[4] = SessionsDown /\ Down[5] = V2Down /\ Down[6] = V3Down
    BY DEF Up, Down
  <1>2. 3 \in Altering
    <2>1. HardeningUp[1] = Alter("add", {"health"}) /\ 1 \in DOMAIN HardeningUp
      BY DEF HardeningUp
    <2>2. HardeningUp[1].op = "add"
      BY <2>1 DEF Alter
    <2>3. 3 \in Version /\ UpFile[3] = HardeningUp
      BY <1>1 DEF RepositoryFiles
    <2>4. QED  BY <2>1, <2>2, <2>3 DEF Altering
  <1>3. /\ Repeatable(CmsUp) /\ Repeatable(CmsDown)
        /\ Repeatable(RegistryUp) /\ Repeatable(RegistryDown)
        /\ Repeatable(SessionsUp) /\ Repeatable(SessionsDown)
    BY LenientFiles, LenientIsRepeatable
  <1>4. "v2" \in Feature /\ "v3" \in Feature
    BY DEF RepositoryFiles, Features
  <1>5. Repeatable(V2Up)
    BY <1>4, FilesDrop, ShapesRepeatable DEF V2Up
  <1>6. Repeatable(V3Up)
    BY <1>4, FilesDrop, ShapesRepeatable DEF V3Up
  <1>7. Repeatable(V3Down)
    BY <1>4, FilesDrop, ShapesRepeatable DEF V3Down, V3Tables
  <1>8. ASSUME NEW v \in Version \ Altering
        PROVE  Repeatable(UpFile[v]) /\ Repeatable(DownFile[v])
    <2>1. v \in {1, 2, 4, 5, 6}
      BY <1>2 DEF RepositoryFiles
    <2>2. UpFile[v] = Up[v] /\ DownFile[v] = Down[v]
      BY DEF RepositoryFiles
    <2>3. QED  BY <1>1, <1>3, <1>5, <1>6, <1>7, <2>1, <2>2, V2DownRepeatable
  <1>9. QED  BY <1>8 DEF RepeatableFiles

\* The database refuses no statement of the repository's migrations but of the one that
\* alters a table, wherever runs and roll-backs are interrupted.
THEOREM RepositoryRefusedOnlyAltering ==
  ASSUME RepositoryFiles
  PROVE  Spec => []RefusedOnlyAltering
  BY RepositoryRepeatable, AlwaysRefusedOnlyAltering

-----------------------------------------------------------------------------
(* What the files describe. *)

\* A set of natural numbers has a least one: else the intervals up to its members would
\* be finite sets without a minimal one.
LEMMA Least ==
  ASSUME NEW S \in SUBSET Nat, S # {}
  PROVE  \E n \in S : \A m \in S : n <= m
  <1> DEFINE T == {0 .. x : x \in S}
  <1>1. \A x \in S : 0 .. x \in FiniteSubsetsOf(Nat)
    BY FS_Interval DEF FiniteSubsetsOf
  <1>2. T \subseteq FiniteSubsetsOf(Nat) /\ T # {}
    BY <1>1
  <1>3. PICK X \in T : \A Y \in T : <<Y, X>> \notin StrictSubsetOrdering(Nat)
    BY <1>2, FS_StrictSubsetOrderingWellFounded, WFMin
  <1>4. PICK x \in S : X = 0 .. x
    BY <1>3
  <1>5. ASSUME NEW y \in S, y < x PROVE FALSE
    <2>1. <<0 .. y, 0 .. x>> \in StrictSubsetOrdering(Nat)
      BY <1>5 DEF StrictSubsetOrdering
    <2>2. QED  BY <1>3, <1>4, <2>1
  <1>6. QED  BY <1>5

\* g[k] takes the elements of S to elements of S.
Takes(n, S, g) == \A k \in 1 .. n : \A x \in S : g[k][x] \in S

\* f begins at base, and its k-th value comes from the one before by g[k].
Follows(f, n, S, base, g) ==
  /\ f \in [0 .. n -> S]
  /\ f[0] = base
  /\ \A k \in 1 .. n : f[k] = g[k][f[k - 1]]

\* There is a function that the recursion defines: there is a least number from which one
\* could not go on.
LEMMA RecursionDefines ==
  ASSUME NEW n \in Nat, NEW S, NEW base \in S, NEW g, Takes(n, S, g)
  PROVE  \E f : Follows(f, n, S, base, g)
  <1> DEFINE Stuck == {m \in 0 .. n : ~ \E f : Follows(f, m, S, base, g)}
  <1> SUFFICES ASSUME Stuck # {} PROVE FALSE
    <2>1. n \in 0 .. n
      OBVIOUS
    <2>2. QED  BY <2>1
  <1>1. PICK m \in Stuck : \A k \in Stuck : m <= k
    <2>1. Stuck \in SUBSET Nat
      OBVIOUS
    <2> HIDE DEF Stuck
    <2>2. QED  BY <2>1, Least
  <1>2. m # 0
    <2>1. Follows([k \in 0 .. 0 |-> base], 0, S, base, g)
      BY DEF Follows
    <2>2. QED  BY <2>1
  <1>3. m \in 1 .. n
    BY <1>2
  <1>4. m - 1 \in 0 .. n /\ m - 1 \notin Stuck
    <2>1. m - 1 \in 0 .. n /\ ~(m <= m - 1)
      BY <1>3
    <2> HIDE DEF Stuck
    <2>2. QED  BY <1>1, <2>1
  <1>5. PICK f : Follows(f, m - 1, S, base, g)
    BY <1>4
  <1> DEFINE h == [k \in 0 .. m |-> IF k = m THEN g[m][f[m - 1]] ELSE f[k]]
  <1>6. g[m][f[m - 1]] \in S
    BY <1>3, <1>5 DEF Follows, Takes
  <1>7. Follows(h, m, S, base, g)
    <2>1. h \in [0 .. m -> S]
      BY <1>3, <1>5, <1>6 DEF Follows
    <2>2. h[0] = base
      BY <1>3, <1>5 DEF Follows
    <2>3. ASSUME NEW k \in 1 .. m PROVE h[k] = g[k][h[k - 1]]
      <3>1. h[k - 1] = f[k - 1]
        BY <1>3
      <3>2. CASE k = m
        BY <3>1, <3>2
      <3>3. CASE k # m
        BY <1>3, <1>5, <3>1, <3>3 DEF Follows
      <3>4. QED  BY <3>2, <3>3
    <2>4. QED  BY <2>1, <2>2, <2>3 DEF Follows
  <1>8. QED  BY <1>7

\* A function that the recursion defines has its values in S.
LEMMA RecursionType ==
  ASSUME NEW n \in Nat, NEW S, NEW base \in S, NEW g, Takes(n, S, g),
         NEW f, f = [k \in 0 .. n |-> f[k]], f[0] = base,
         \A k \in 1 .. n : f[k - 1] \in S => f[k] = g[k][f[k - 1]]
  PROVE  Follows(f, n, S, base, g)
  <1> DEFINE Wrong == {k \in 0 .. n : f[k] \notin S}
  <1>1. Wrong = {}
    <2> SUFFICES ASSUME Wrong # {} PROVE FALSE
      OBVIOUS
    <2>1. PICK m \in Wrong : \A k \in Wrong : m <= k
      <3>1. Wrong \in SUBSET Nat
        OBVIOUS
      <3> HIDE DEF Wrong
      <3>2. QED  BY <3>1, Least
    <2>2. m \in 1 .. n
      OBVIOUS
    <2>3. m - 1 \in 0 .. n /\ ~(m <= m - 1)
      BY <2>2
    <2>4. f[m - 1] \in S
      BY <2>1, <2>3
    <2>5. f[m] \in S
      BY <2>2, <2>4 DEF Takes
    <2>6. QED  BY <2>5
  <1>2. \A k \in 0 .. n : f[k] \in S
    BY <1>1
  <1>3. \A k \in 1 .. n : f[k] = g[k][f[k - 1]]
    <2> SUFFICES ASSUME NEW k \in 1 .. n PROVE f[k] = g[k][f[k - 1]]
      OBVIOUS
    <2>1. k - 1 \in 0 .. n
      OBVIOUS
    <2>2. QED  BY <1>2, <2>1
  <1>4. f \in [0 .. n -> S]
    BY <1>2
  <1>5. QED  BY <1>3, <1>4 DEF Follows

\* What schema may be.
Schema == [Table -> SUBSET Feature]

\* A statement makes a schema of a schema.
LEMMA AppliedSchema ==
  ASSUME NEW sch \in Schema, NEW s \in Statement
  PROVE  Applied(sch, s) \in Schema
  BY DEF Applied, Statement, Schema

\* The schemas between the statements of a file.
LEMMA ExecutedDef ==
  ASSUME NEW f \in Seq(Statement), NEW sch \in Schema
  PROVE  \E a \in [0 .. Len(f) -> Schema] :
           /\ a[0] = sch
           /\ \A k \in 1 .. Len(f) : a[k] = Applied(a[k - 1], f[k])
           /\ a[Len(f)] = Executed(f, sch)
  <1>1. PICK n \in Nat : n = Len(f)
    OBVIOUS
  <1>2. PICK g : /\ Takes(n, Schema, g)
                 /\ \A k \in 1 .. n : \A x \in Schema : g[k][x] = Applied(x, f[k])
    <2> DEFINE g == [k \in 1 .. n |-> [x \in Schema |-> Applied(x, f[k])]]
    <2>1. \A k \in 1 .. n : \A x \in Schema : g[k][x] = Applied(x, f[k])
      OBVIOUS
    <2>2. Takes(n, Schema, g)
      BY <1>1, <2>1, AppliedSchema DEF Takes
    <2>3. QED  BY <2>1, <2>2
  <1>3. PICK a : Follows(a, n, Schema, sch, g)
    BY <1>2, RecursionDefines
  <1>4. a = [k \in 0 .. n |-> IF k = 0 THEN sch ELSE Applied(a[k - 1], f[k])]
    BY <1>2, <1>3 DEF Follows
  <1> DEFINE after == CHOOSE after : after = [k \in 0 .. Len(f) |->
                        IF k = 0 THEN sch ELSE Applied(after[k - 1], f[k])]
  <1>5. after = [k \in 0 .. n |-> IF k = 0 THEN sch ELSE Applied(after[k - 1], f[k])]
    BY <1>1, <1>4
  <1>6. Executed(f, sch) = after[n]
    BY <1>1 DEF Executed
  <1> HIDE DEF after
  <1>7. after[0] = sch /\ \A k \in 1 .. n : after[k] = Applied(after[k - 1], f[k])
    BY <1>5
  <1>8. Follows(after, n, Schema, sch, g)
    <2>1. after = [k \in 0 .. n |-> after[k]]
      BY <1>5
    <2>2. QED  BY <1>2, <1>7, <2>1, RecursionType
  <1>9. after \in [0 .. Len(f) -> Schema]
    BY <1>1, <1>8 DEF Follows
  <1>10. QED  BY <1>1, <1>6, <1>7, <1>9

\* ... and between the files.
LEMMA BuiltDef ==
  /\ BuiltUpTo \in [0 .. Newest -> Schema]
  /\ BuiltUpTo[0] = [t \in Table |-> {}]
  /\ \A v \in Version : BuiltUpTo[v] = Executed(UpFile[v], BuiltUpTo[v - 1])
  <1> DEFINE empty == [t \in Table |-> {}]
  <1>1. PICK g : /\ Takes(Newest, Schema, g)
                 /\ \A v \in Version : \A x \in Schema : g[v][x] = Executed(UpFile[v], x)
    <2> DEFINE g == [v \in Version |-> [x \in Schema |-> Executed(UpFile[v], x)]]
    <2>1. \A v \in Version : \A x \in Schema : g[v][x] = Executed(UpFile[v], x)
      OBVIOUS
    <2>2. \A v \in Version : \A x \in Schema : Executed(UpFile[v], x) \in Schema
      <3> SUFFICES ASSUME NEW v \in Version, NEW x \in Schema
                   PROVE  Executed(UpFile[v], x) \in Schema
        OBVIOUS
      <3>1. UpFile[v] \in Seq(Statement)
        BY MigrateAssumption
      <3>2. Len(UpFile[v]) \in 0 .. Len(UpFile[v])
        BY <3>1
      <3>3. QED  BY <3>1, <3>2, ExecutedDef
    <2>3. Takes(Newest, Schema, g)
      BY <2>1, <2>2 DEF Takes
    <2>4. QED  BY <2>1, <2>3
  <1>2. empty \in Schema /\ Newest \in Nat
    BY MigrateAssumption DEF Schema
  <1> HIDE DEF empty
  <1>3. PICK a : Follows(a, Newest, Schema, empty, g)
    BY <1>1, <1>2, RecursionDefines
  <1>4. a = [v \in 0 .. Newest |-> IF v = 0 THEN empty ELSE Executed(UpFile[v], a[v - 1])]
    BY <1>1, <1>2, <1>3 DEF Follows
  <1>5. BuiltUpTo = [v \in 0 .. Newest |->
                       IF v = 0 THEN empty ELSE Executed(UpFile[v], BuiltUpTo[v - 1])]
    BY <1>4 DEF BuiltUpTo, empty
  <1>6. /\ BuiltUpTo[0] = empty
        /\ \A v \in Version : BuiltUpTo[v] = Executed(UpFile[v], BuiltUpTo[v - 1])
    <2>1. PICK b : b = BuiltUpTo
      OBVIOUS
    <2>2. b = [v \in 0 .. Newest |-> IF v = 0 THEN empty ELSE Executed(UpFile[v], b[v - 1])]
      BY <1>5, <2>1
    <2>3. b[0] = empty /\ \A v \in Version : b[v] = Executed(UpFile[v], b[v - 1])
      <3>1. 0 \in 0 .. Newest /\ \A v \in Version : v \in 0 .. Newest /\ v # 0
        BY <1>2
      <3>2. \A v \in 0 .. Newest : b[v] = IF v = 0 THEN empty ELSE Executed(UpFile[v], b[v - 1])
        BY <2>2, Zenon
      <3>3. QED  BY <3>1, <3>2
    <2>4. QED  BY <2>1, <2>3
  <1>7. Follows(BuiltUpTo, Newest, Schema, empty, g)
    <2>1. BuiltUpTo = [v \in 0 .. Newest |-> BuiltUpTo[v]]
      BY <1>5
    <2>2. QED  BY <1>1, <1>2, <1>6, <2>1, RecursionType
  <1>8. QED  BY <1>6, <1>7 DEF Follows, empty

-----------------------------------------------------------------------------
(* What a file does to one table: statements change the table they name, by what it is. *)

\* A schema whose tables are all x: what a statement does to its table, and whether it is
\* refused, does not depend on the others.
Everywhere(x) == [u \in Table |-> x]

\* The table t, which is x, after the statement s; and whether s is refused because of it.
Turned(t, x, s) == Applied(Everywhere(x), s)[t]

\* The statement s is one of the table t, and is refused when it is x.
Stops(t, x, s) == s.table = t /\ Refuses(Everywhere(x), s)

\* The statement s does to every table of a schema, and is refused for it, as if it were alone.
LEMMA TableAlone ==
  ASSUME NEW sch \in Schema, NEW s \in Statement, NEW t \in Table
  PROVE  /\ Applied(sch, s)[t] = Turned(t, sch[t], s)
         /\ Stops(t, sch[t], s) => Refuses(sch, s)
         /\ Stops(s.table, sch[s.table], s) <=> Refuses(sch, s)
  <1>1. s.table \in Table /\ Everywhere(sch[t]) \in Schema
    BY DEF Statement, Schema, Everywhere
  <1>2. Applied(sch, s)[t] = Turned(t, sch[t], s)
    <2>1. PICK e \in Schema : e = Everywhere(sch[t]) /\ e[t] = sch[t]
      BY <1>1 DEF Everywhere
    <2>2. Applied(sch, s)[t] = Applied(e, s)[t]
      <3>1. CASE s.table = t
        <4>1. e[s.table] = sch[s.table]
          BY <2>1, <3>1
        <4>2. Applied(sch, s)[s.table] = Applied(e, s)[s.table]
          <5>1. s.op \in {"create", "drop", "add", "remove"}
            BY DEF Statement
          <5>2. CASE s.op = "create"
            BY <1>1, <4>1, <5>2 DEF Applied, Schema
          <5>3. CASE s.op = "drop"
            BY <1>1, <5>3 DEF Applied, Schema
          <5>4. CASE s.op = "add"
            BY <1>1, <4>1, <5>4 DEF Applied, Schema
          <5>5. CASE s.op = "remove"
            BY <1>1, <4>1, <5>5 DEF Applied, Schema
          <5>6. QED  BY <5>1, <5>2, <5>3, <5>4, <5>5
        <4>3. QED  BY <3>1, <4>2
      <3>2. CASE s.table # t
        <4>1. Applied(sch, s)[t] = sch[t] /\ Applied(e, s)[t] = e[t]
          BY <1>1, <3>2 DEF Applied, Schema
        <4>2. QED  BY <2>1, <4>1
      <3>3. QED  BY <3>1, <3>2
    <2>3. QED  BY <2>1, <2>2 DEF Turned
  <1>3. /\ Stops(t, sch[t], s) => Refuses(sch, s)
        /\ Stops(s.table, sch[s.table], s) <=> Refuses(sch, s)
    BY <1>1 DEF Stops, Refuses, Everywhere, Schema
  <1>4. QED  BY <1>2, <1>3

\* One statement and one table.
LEMMA TurnedOther ==
  ASSUME NEW t \in Table, NEW x \in SUBSET Feature, NEW s \in Statement, s.table # t
  PROVE  Turned(t, x, s) = x
  BY DEF Turned, Applied, Everywhere

LEMMA TurnedCreate ==
  ASSUME NEW t \in Table, NEW x \in SUBSET Feature, NEW s \in Statement,
         s.table = t, s.op = "create"
  PROVE  Turned(t, x, s) = IF x = {} THEN s.features ELSE x
  BY DEF Turned, Applied, Everywhere

LEMMA TurnedDrop ==
  ASSUME NEW t \in Table, NEW x \in SUBSET Feature, NEW s \in Statement,
         s.table = t, s.op = "drop"
  PROVE  Turned(t, x, s) = {}
  BY DEF Turned, Applied, Everywhere

LEMMA TurnedAdd ==
  ASSUME NEW t \in Table, NEW x \in SUBSET Feature, NEW s \in Statement,
         s.table = t, s.op = "add"
  PROVE  Turned(t, x, s) = x \cup s.features
  BY DEF Turned, Applied, Everywhere

LEMMA TurnedRemove ==
  ASSUME NEW t \in Table, NEW x \in SUBSET Feature, NEW s \in Statement,
         s.table = t, s.op = "remove"
  PROVE  Turned(t, x, s) = x \ s.features
  BY DEF Turned, Applied, Everywhere

\* The sets of what a table may be.
Values == SUBSET SUBSET Feature

\* The k-th statement of f takes table t from a value in mid[k - 1] to one in mid[k],
\* or, if heed holds, the database refuses it.
Carries(heed, f, t, mid) ==
  /\ mid \in [0 .. Len(f) -> Values]
  /\ \A k \in 1 .. Len(f) : \A x \in mid[k - 1] :
       (heed /\ Stops(t, x, f[k])) \/ Turned(t, x, f[k]) \in mid[k]

\* A file that begins with table t in P keeps it in M, and ends with it in Q.
Within(f, mid, P, M, Q) ==
  /\ P \subseteq mid[0]
  /\ \A k \in 0 .. Len(f) : mid[k] \subseteq M
  /\ mid[Len(f)] \subseteq Q

\* The file f takes table t from P to Q by way of M.
Runs(heed, f, t, P, M, Q) == \E mid : Carries(heed, f, t, mid) /\ Within(f, mid, P, M, Q)

\* What is known of any beginning is known of fewer, and what does not rest on refusals
\* holds with them.
Loosens(P, M, Q, P2, M2, Q2) == P2 \subseteq P /\ M \subseteq M2 /\ Q \subseteq Q2

LEMMA RunsLooser ==
  ASSUME NEW f \in Seq(Statement), NEW t, NEW P, NEW M, NEW Q, NEW P2, NEW M2, NEW Q2,
         Loosens(P, M, Q, P2, M2, Q2), Runs(FALSE, f, t, P, M, Q)
  PROVE  Runs(FALSE, f, t, P2, M2, Q2) /\ Runs(TRUE, f, t, P2, M2, Q2)
  <1>1. PICK mid : Carries(FALSE, f, t, mid) /\ Within(f, mid, P, M, Q)
    BY DEF Runs
  <1>2. Carries(TRUE, f, t, mid)
    BY <1>1 DEF Carries
  <1>3. Within(f, mid, P2, M2, Q2)
    BY <1>1 DEF Within, Loosens
  <1>4. QED  BY <1>1, <1>2, <1>3 DEF Runs

\* A file with no statement of the table leaves it as it is.
LEMMA RunsPast ==
  ASSUME NEW heed \in BOOLEAN, NEW f \in Seq(Statement), NEW t \in Table, NEW P \in Values,
         \A k \in DOMAIN f : f[k].table # t
  PROVE  Runs(heed, f, t, P, P, P)
  <1> DEFINE mid == [k \in 0 .. Len(f) |-> P]
  <1>1. Carries(heed, f, t, mid)
    <2>1. mid \in [0 .. Len(f) -> Values]
      OBVIOUS
    <2>2. ASSUME NEW k \in 1 .. Len(f), NEW x \in mid[k - 1]
          PROVE  Turned(t, x, f[k]) \in mid[k]
      <3>1. x \in P /\ x \in SUBSET Feature /\ mid[k] = P
        BY DEF Values
      <3>2. f[k] \in Statement /\ f[k].table # t
        OBVIOUS
      <3>3. Turned(t, x, f[k]) = x
        BY <3>1, <3>2, TurnedOther
      <3>4. QED  BY <3>1, <3>3
    <2>3. QED  BY <2>1, <2>2 DEF Carries
  <1>2. Within(f, mid, P, P, P)
    BY DEF Within
  <1>3. QED  BY <1>1, <1>2 DEF Runs

\* One statement.
LEMMA RunsOne ==
  ASSUME NEW heed \in BOOLEAN, NEW s \in Statement, NEW t \in Table,
         NEW P \in Values, NEW Q \in Values,
         \A x \in P : (heed /\ Stops(t, x, s)) \/ Turned(t, x, s) \in Q
  PROVE  Runs(heed, <<s>>, t, P, P \cup Q, Q)
  <1>1. PICK f \in Seq(Statement) : f = <<s>> /\ Len(f) = 1 /\ f[1] = s
    <2>1. <<s>> \in Seq(Statement)
      OBVIOUS
    <2>2. QED  BY <2>1
  <1> DEFINE mid == [k \in 0 .. 1 |-> IF k = 0 THEN P ELSE Q]
  <1>2. mid[0] = P /\ mid[1] = Q
    OBVIOUS
  <1>3. Carries(heed, f, t, mid)
    <2>1. mid \in [0 .. Len(f) -> Values]
      BY <1>1
    <2>2. \A k \in 1 .. Len(f) : k = 1 /\ k - 1 = 0
      BY <1>1
    <2> HIDE DEF mid
    <2>3. QED  BY <1>1, <1>2, <2>1, <2>2 DEF Carries
  <1>4. Within(f, mid, P, P \cup Q, Q)
    BY <1>1, <1>2 DEF Within
  <1>5. QED  BY <1>1, <1>3, <1>4 DEF Runs

\* One file after the other.
LEMMA RunsOn ==
  ASSUME NEW heed \in BOOLEAN, NEW f \in Seq(Statement), NEW g \in Seq(Statement),
         NEW t \in Table, NEW P, NEW M, NEW Q, NEW N, NEW R,
         Runs(heed, f, t, P, M, Q), Runs(heed, g, t, Q, N, R)
  PROVE  Runs(heed, f \o g, t, P, M \cup N, R)
  <1>1. PICK mf : Carries(heed, f, t, mf) /\ Within(f, mf, P, M, Q)
    BY DEF Runs
  <1>2. PICK mg : Carries(heed, g, t, mg) /\ Within(g, mg, Q, N, R)
    BY DEF Runs
  <1>3. PICK n \in Nat, m \in Nat : n = Len(f) /\ m = Len(g)
    OBVIOUS
  <1>4. PICK h \in Seq(Statement) :
          /\ h = f \o g /\ Len(h) = n + m
          /\ \A k \in 1 .. n : h[k] = f[k]
          /\ \A k \in 1 .. m : h[n + k] = g[k]
    <2>1. f \o g \in Seq(Statement) /\ Len(f \o g) = n + m
      BY <1>3
    <2>2. \A k \in 1 .. n : (f \o g)[k] = f[k]
      BY <1>3
    <2>3. \A k \in 1 .. m : (f \o g)[n + k] = g[k]
      BY <1>3
    <2>4. QED  BY <2>1, <2>2, <2>3
  <1> DEFINE mid == [k \in 0 .. n + m |-> IF k < n THEN mf[k] ELSE mg[k - n]]
  <1>5. mf[n] \subseteq mg[0]
    BY <1>1, <1>2, <1>3 DEF Within
  <1>6. /\ mf \in [0 .. n -> Values] /\ mg \in [0 .. m -> Values]
        /\ P \subseteq mf[0] /\ mg[m] \subseteq R
        /\ \A k \in 0 .. n : mf[k] \subseteq M
        /\ \A k \in 0 .. m : mg[k] \subseteq N
        /\ \A k \in 1 .. n : \A x \in mf[k - 1] :
             (heed /\ Stops(t, x, f[k])) \/ Turned(t, x, f[k]) \in mf[k]
        /\ \A k \in 1 .. m : \A x \in mg[k - 1] :
             (heed /\ Stops(t, x, g[k])) \/ Turned(t, x, g[k]) \in mg[k]
    BY <1>1, <1>2, <1>3 DEF Within, Carries
  <1>7. \A k \in 0 .. n + m : (k < n /\ mid[k] = mf[k] /\ k \in 0 .. n)
                              \/ (k >= n /\ mid[k] = mg[k - n] /\ k - n \in 0 .. m)
    OBVIOUS
  <1>8. mid[n + m] = mg[m] /\ \A k \in 0 .. n : mf[k] \subseteq mid[k]
    <2>1. mid[n + m] = mg[m]
      OBVIOUS
    <2>2. ASSUME NEW k \in 0 .. n PROVE mf[k] \subseteq mid[k]
      <3>1. CASE k = n
        BY <1>5, <3>1
      <3>2. CASE k # n
        BY <3>2
      <3>3. QED  BY <3>1, <3>2
    <2>3. QED  BY <2>1, <2>2
  <1>9. Carries(heed, h, t, mid)
    <2>1. mid \in [0 .. Len(h) -> Values]
      BY <1>4, <1>6, <1>7
    <2>2. ASSUME NEW k \in 1 .. n + m, NEW x \in mid[k - 1]
          PROVE  (heed /\ Stops(t, x, h[k])) \/ Turned(t, x, h[k]) \in mid[k]
      <3>1. CASE k <= n
        <4>1. k - 1 < n /\ k - 1 \in 0 .. n + m /\ k \in 1 .. n /\ k \in 0 .. n
          BY <3>1
        <4>2. x \in mf[k - 1]
          BY <1>7, <4>1
        <4> HIDE DEF mid
        <4>3. (heed /\ Stops(t, x, f[k])) \/ Turned(t, x, f[k]) \in mf[k]
          BY <1>6, <4>1, <4>2
        <4>4. h[k] = f[k] /\ mf[k] \subseteq mid[k]
          BY <1>4, <1>8, <4>1
        <4>5. QED  BY <4>3, <4>4
      <3>2. CASE k > n
        <4>1. PICK i \in 1 .. m : k = n + i
          <5>1. k - n \in 1 .. m /\ k = n + (k - n)
            BY <3>2
          <5>2. QED  BY <5>1
        <4>2. k - 1 >= n /\ k - 1 \in 0 .. n + m /\ (k - 1) - n = i - 1 /\ k - n = i
          BY <3>2, <4>1
        <4>3. x \in mg[i - 1] /\ mid[k] = mg[i]
          BY <1>7, <3>2, <4>2
        <4> HIDE DEF mid
        <4>4. (heed /\ Stops(t, x, g[i])) \/ Turned(t, x, g[i]) \in mg[i]
          BY <1>6, <4>1, <4>3
        <4>5. h[k] = g[i]
          BY <1>4, <4>1
        <4>6. QED  BY <4>3, <4>4, <4>5
      <3>3. QED  BY <3>1, <3>2
    <2>3. QED  BY <1>4, <2>1, <2>2 DEF Carries
  <1>10. Within(h, mid, P, M \cup N, R)
    <2>1. P \subseteq mid[0]
      <3>1. 0 \in 0 .. n
        OBVIOUS
      <3> HIDE DEF mid
      <3>2. QED  BY <1>6, <1>8, <3>1
    <2>2. \A k \in 0 .. n + m : mid[k] \subseteq M \cup N
      BY <1>6, <1>7
    <2>3. mid[n + m] \subseteq R
      BY <1>6, <1>8
    <2> HIDE DEF mid
    <2>4. QED  BY <1>4, <2>1, <2>2, <2>3 DEF Within
  <1>11. QED  BY <1>4, <1>9, <1>10 DEF Runs

-----------------------------------------------------------------------------
(* Files that come to the same schema whatever was interrupted. *)

\* What executing a file makes of a table.
LEMMA RunsExecuted ==
  ASSUME NEW f \in Seq(Statement), NEW sch \in Schema, NEW t \in Table,
         NEW P, NEW M, NEW Q, Runs(FALSE, f, t, P, M, Q), sch[t] \in P
  PROVE  Executed(f, sch)[t] \in Q
  <1>1. PICK mid : Carries(FALSE, f, t, mid) /\ Within(f, mid, P, M, Q)
    BY DEF Runs
  <1>2. PICK n \in Nat : n = Len(f)
    OBVIOUS
  <1>3. PICK a \in [0 .. n -> Schema] :
          /\ a[0] = sch
          /\ \A k \in 1 .. n : a[k] = Applied(a[k - 1], f[k])
          /\ a[n] = Executed(f, sch)
    BY <1>2, ExecutedDef
  <1> DEFINE Wrong == {k \in 0 .. n : a[k][t] \notin mid[k]}
  <1>4. Wrong = {}
    <2> SUFFICES ASSUME Wrong # {} PROVE FALSE
      OBVIOUS
    <2>1. PICK k \in Wrong : \A i \in Wrong : k <= i
      <3>1. Wrong \in SUBSET Nat
        OBVIOUS
      <3> HIDE DEF Wrong
      <3>2. QED  BY <3>1, Least
    <2>2. a[0][t] \in mid[0]
      BY <1>1, <1>3 DEF Within
    <2>3. k \in 1 .. n
      BY <2>2
    <2>4. k - 1 \in 0 .. n /\ ~(k <= k - 1)
      BY <2>3
    <2>5. a[k - 1][t] \in mid[k - 1]
      BY <2>1, <2>4
    <2>6. Turned(t, a[k - 1][t], f[k]) \in mid[k]
      BY <1>1, <1>2, <2>3, <2>5 DEF Carries
    <2>7. a[k][t] = Turned(t, a[k - 1][t], f[k])
      <3>1. a[k - 1] \in Schema /\ f[k] \in Statement
        BY <1>2, <2>3, <2>4
      <3>2. QED  BY <1>3, <2>3, <3>1, TableAlone
    <2>8. QED  BY <2>6, <2>7
  <1>5. n \in 0 .. n /\ mid[n] \subseteq Q
    BY <1>1, <1>2 DEF Within
  <1>6. QED  BY <1>3, <1>4, <1>5

\* The file f has a statement of table t.
Touches(f, t) == \E k \in DOMAIN f : f[k].table = t

\* ok[n] is what table t may be while the first n versions are recorded and no roll-back
\* that changes it is unfinished, and all is what it may be at any time.  An up file may be
\* started on any such table, and comes to one that is right for its version or is refused;
\* a down file makes right what it changes, from whatever is there.
ConvergesAt(t, ok, all) ==
  /\ {} \in ok[0]
  /\ \A n \in 0 .. Newest : ok[n] \in Values /\ ok[n] \subseteq all
  /\ ok[Newest] \subseteq {Built[t]}
  /\ \A v \in Version :
       /\ Runs(TRUE, UpFile[v], t, ok[v - 1], ok[v - 1], ok[v])
       /\ Runs(TRUE, UpFile[v], t, all, all, all)
       /\ IF Touches(DownFile[v], t)
          THEN Runs(TRUE, DownFile[v], t, all, all, ok[v - 1])
          ELSE ok[v] \subseteq ok[v - 1]

\* The tables and files are right by ok and all; the files are convergent if there are such.
Convergent(ok, all) == \A t \in Table : ConvergesAt(t, ok[t], all[t])

ConvergentFiles == \E ok, all : Convergent(ok, all)

\* What table t may be between the statements of a file.
Between(f, t, P, M, Q) == CHOOSE mid : Carries(TRUE, f, t, mid) /\ Within(f, mid, P, M, Q)

\* Between the statements of v's up file, begun where the versions before v are recorded, ...
UpRight(ok, v, t) == Between(UpFile[v], t, ok[t][v - 1], ok[t][v - 1], ok[t][v])

\* ... begun anywhere, ...
UpAny(all, v, t) == Between(UpFile[v], t, all[t], all[t], all[t])

\* ... and between those of its down file.
DownAny(ok, all, v, t) == Between(DownFile[v], t, all[t], all[t], ok[t][v - 1])

\* What Between chooses is what Runs says there is.
LEMMA BetweenIs ==
  ASSUME NEW f, NEW t, NEW P, NEW M, NEW Q, Runs(TRUE, f, t, P, M, Q)
  PROVE  Carries(TRUE, f, t, Between(f, t, P, M, Q)) /\ Within(f, Between(f, t, P, M, Q), P, M, Q)
  <1>1. \E mid : Carries(TRUE, f, t, mid) /\ Within(f, mid, P, M, Q)
    BY DEF Runs
  <1>2. QED  BY <1>1 DEF Between

\* An unfinished roll-back changes the table.
Dirty(t) == \E v \in undone : Touches(DownFile[v], t)

\* A table is one that may be there at any time, and one that is right for the versions
\* recorded unless a roll-back that changes it is unfinished.
Settled(ok, all) ==
  \A t \in Table :
    /\ schema[t] \in all[t]
    /\ ~Dirty(t) => \A n \in 0 .. Newest : recorded = 1 .. n => schema[t] \in ok[t][n]

\* A run that executes the file of version v.
Underway(ok, all, v) ==
  /\ run.next \in 1 .. Len(File(v)) + 1
  /\ run.pc = "record" => run.next = Len(File(v)) + 1
  /\ run.direction = "up" =>
       /\ v \notin recorded
       /\ \A t \in Table :
            /\ schema[t] \in UpAny(all, v, t)[run.next - 1]
            /\ ~Dirty(t) => schema[t] \in UpRight(ok, v, t)[run.next - 1]
  /\ run.direction = "down" =>
       \A t \in Table :
         Touches(DownFile[v], t) => schema[t] \in DownAny(ok, all, v, t)[run.next - 1]

\* A run that is past the check of its version is as far as its file has come.
Progress(ok, all) ==
  run # None /\ run.pc # "check" => \A v \in Version : IsCurrent(v) => Underway(ok, all, v)

\* Only recorded versions are being undone, and a run upwards ends with all recorded.
Books ==
  /\ undone \subseteq recorded
  /\ run # None => outcome = "none"
  /\ run # None /\ run.pc = "check" => run.next = 1
  /\ outcome = "up" => recorded = Version

\* What every step preserves: SuccessMeansCurrent is its instance for the last version.
ConvergeInv(ok, all) == IInv /\ Books /\ Settled(ok, all) /\ Progress(ok, all)

\* The recorded versions are those before the one that is applied, ...
LEMMA RecordedBefore ==
  ASSUME IInv, run # None, run.direction = "up", NEW v \in Version, IsCurrent(v), v \notin recorded
  PROVE  recorded = 1 .. v - 1
  <1>1. recorded \subseteq Version /\ Version \ run.left \subseteq recorded
    BY DEF IInv, MigrateType, RunFits
  <1>2. ASSUME NEW w \in Version, w < v PROVE w \in recorded
    <2>1. w \notin run.left
      BY <1>2, MigrateAssumption DEF IsCurrent
    <2>2. QED  BY <1>1, <2>1
  <1>3. ASSUME NEW w \in recorded PROVE w < v
    <2>1. w \in Version /\ \A u \in 1 .. w : u \in recorded
      BY <1>1 DEF IInv, RecordedPrefix
    <2>2. v \notin 1 .. w
      BY <2>1
    <2>3. QED  BY <2>1, <2>2, MigrateAssumption
  <1>4. \A w \in 1 .. v - 1 : w \in Version /\ w < v
    BY MigrateAssumption
  <1>5. \A w \in recorded : w \in 1 .. v - 1
    BY <1>1, <1>3, MigrateAssumption
  <1>6. QED  BY <1>2, <1>4, <1>5

\* ... and those up to the one that is undone.
LEMMA RecordedUpTo ==
  ASSUME IInv, run # None, run.direction = "down", NEW v \in Version, IsCurrent(v)
  PROVE  recorded = 1 .. v
  <1>1. /\ recorded \subseteq Version /\ run.left \subseteq recorded
        /\ \A u \in run.left, w \in recorded \ run.left : w < u
    BY DEF IInv, MigrateType, RunFits
  <1>2. v \in run.left /\ \A w \in run.left : w <= v
    BY <1>1, MigrateAssumption DEF IsCurrent
  <1>3. \A w \in 1 .. v : w \in recorded
    BY <1>1, <1>2 DEF IInv, RecordedPrefix
  <1>4. ASSUME NEW w \in recorded PROVE w \in 1 .. v
    <2>1. w <= v
      <3>1. w \in Nat /\ v \in Nat
        BY <1>1, MigrateAssumption
      <3>2. CASE w \in run.left
        BY <1>2, <3>2
      <3>3. CASE w \notin run.left
        <4>1. w < v
          BY <1>1, <1>2, <3>3
        <4>2. QED  BY <3>1, <4>1
      <3>4. QED  BY <3>2, <3>3
    <2>2. QED  BY <1>1, <2>1, MigrateAssumption
  <1>5. QED  BY <1>3, <1>4

\* 1 .. n ends with n.
LEMMA SameInterval ==
  ASSUME NEW n \in Nat, NEW m \in Nat, 1 .. n = 1 .. m
  PROVE  n = m
  <1>1. CASE n < m
    <2>1. m \in 1 .. m /\ m \notin 1 .. n
      BY <1>1
    <2>2. QED  BY <2>1
  <1>2. CASE m < n
    <2>1. n \in 1 .. n /\ n \notin 1 .. m
      BY <1>2
    <2>2. QED  BY <2>1
  <1>3. QED  BY <1>1, <1>2

\* A run has one current version.
LEMMA OneIsCurrent ==
  ASSUME IInv, run # None, NEW v \in Version, NEW w \in Version, IsCurrent(v), IsCurrent(w)
  PROVE  v = w
  <1>1. /\ v \in run.left /\ w \in run.left
        /\ run.direction = "up" => v <= w /\ w <= v
        /\ run.direction # "up" => v >= w /\ w >= v
    BY DEF IsCurrent
  <1>2. v \in Nat /\ w \in Nat
    BY MigrateAssumption
  <1>3. QED  BY <1>1, <1>2

-----------------------------------------------------------------------------
\* What convergent files say of one of them and one table.
LEMMA ConvergentSays ==
  ASSUME NEW ok, NEW all, Convergent(ok, all), NEW v \in Version, NEW t \in Table
  PROVE  /\ Carries(TRUE, UpFile[v], t, UpRight(ok, v, t))
         /\ ok[t][v - 1] \subseteq UpRight(ok, v, t)[0]
         /\ \A k \in 0 .. Len(UpFile[v]) : UpRight(ok, v, t)[k] \subseteq ok[t][v - 1]
         /\ UpRight(ok, v, t)[Len(UpFile[v])] \subseteq ok[t][v]
         /\ Carries(TRUE, UpFile[v], t, UpAny(all, v, t))
         /\ all[t] \subseteq UpAny(all, v, t)[0]
         /\ \A k \in 0 .. Len(UpFile[v]) : UpAny(all, v, t)[k] \subseteq all[t]
         /\ Touches(DownFile[v], t) =>
              /\ Carries(TRUE, DownFile[v], t, DownAny(ok, all, v, t))
              /\ all[t] \subseteq DownAny(ok, all, v, t)[0]
              /\ \A k \in 0 .. Len(DownFile[v]) : DownAny(ok, all, v, t)[k] \subseteq all[t]
              /\ DownAny(ok, all, v, t)[Len(DownFile[v])] \subseteq ok[t][v - 1]
         /\ ~Touches(DownFile[v], t) => ok[t][v] \subseteq ok[t][v - 1]
  <1>1. /\ Runs(TRUE, UpFile[v], t, ok[t][v - 1], ok[t][v - 1], ok[t][v])
        /\ Runs(TRUE, UpFile[v], t, all[t], all[t], all[t])
        /\ Touches(DownFile[v], t) => Runs(TRUE, DownFile[v], t, all[t], all[t], ok[t][v - 1])
        /\ ~Touches(DownFile[v], t) => ok[t][v] \subseteq ok[t][v - 1]
    BY DEF Convergent, ConvergesAt
  <1>2. /\ Carries(TRUE, UpFile[v], t, UpRight(ok, v, t))
        /\ Within(UpFile[v], UpRight(ok, v, t), ok[t][v - 1], ok[t][v - 1], ok[t][v])
    BY <1>1, BetweenIs DEF UpRight
  <1>3. /\ Carries(TRUE, UpFile[v], t, UpAny(all, v, t))
        /\ Within(UpFile[v], UpAny(all, v, t), all[t], all[t], all[t])
    BY <1>1, BetweenIs DEF UpAny
  <1>4. Touches(DownFile[v], t) =>
          /\ Carries(TRUE, DownFile[v], t, DownAny(ok, all, v, t))
          /\ Within(DownFile[v], DownAny(ok, all, v, t), all[t], all[t], ok[t][v - 1])
    BY <1>1, BetweenIs DEF DownAny
  <1>5. QED  BY <1>1, <1>2, <1>3, <1>4 DEF Within

\* A statement that is not refused takes every table on.
LEMMA CarriesOn ==
  ASSUME NEW f \in Seq(Statement), NEW t \in Table, NEW mid, Carries(TRUE, f, t, mid),
         NEW k \in 1 .. Len(f), NEW sch \in Schema, sch[t] \in mid[k - 1], ~Refuses(sch, f[k])
  PROVE  Applied(sch, f[k])[t] \in mid[k]
  <1>1. PICK s \in Statement : s = f[k]
    OBVIOUS
  <1>2. Stops(t, sch[t], s) \/ Turned(t, sch[t], s) \in mid[k]
    BY <1>1 DEF Carries
  <1>3. QED  BY <1>1, <1>2, TableAlone

\* A statement of a file leaves alone a table that the file does not name.
LEMMA NotTouched ==
  ASSUME NEW f \in Seq(Statement), NEW t \in Table, ~Touches(f, t),
         NEW k \in 1 .. Len(f), NEW sch \in Schema
  PROVE  Applied(sch, f[k])[t] = sch[t]
  <1>1. PICK s \in Statement : s = f[k] /\ s.table # t
    BY DEF Touches
  <1>2. PICK x \in SUBSET Feature : x = sch[t]
    BY DEF Schema
  <1>3. Applied(sch, s)[t] = Turned(t, x, s)
    BY <1>2, TableAlone
  <1>4. Turned(t, x, s) = x
    BY <1>1, <1>2, TurnedOther
  <1>5. QED  BY <1>1, <1>2, <1>3, <1>4

\* A run that begins a file, or looks for one.
LEMMA BeginsProgress ==
  ASSUME NEW ok, NEW all, Convergent(ok, all), Settled(ok, all)', MigrateType',
         run' # None =>
           /\ run'.next = 1 /\ run'.pc # "record"
           /\ run'.direction = "up" /\ run'.pc # "check" =>
                \A v \in Version : IsCurrent(v)' => v \notin recorded' /\ recorded' = 1 .. v - 1
  PROVE  Progress(ok, all)'
  <1> SUFFICES ASSUME run' # None, run'.pc # "check", NEW v \in Version, IsCurrent(v)'
               PROVE  Underway(ok, all, v)'
    BY DEF Progress
  <1>1. UpFile[v] \in Seq(Statement) /\ DownFile[v] \in Seq(Statement)
    BY MigrateAssumption
  <1>2. 1 \in 1 .. Len(UpFile[v]) + 1 /\ 1 \in 1 .. Len(DownFile[v]) + 1
    BY <1>1
  <1>3. run'.next \in 1 .. Len(File(v)') + 1
    BY <1>2 DEF File
  <1>4. ASSUME run'.direction = "up", NEW t \in Table
        PROVE  /\ schema'[t] \in UpAny(all, v, t)[0]
               /\ ~Dirty(t)' => schema'[t] \in UpRight(ok, v, t)[0]
    <2>1. recorded' = 1 .. v - 1 /\ v - 1 \in 0 .. Newest
      BY <1>4, MigrateAssumption
    <2>2. /\ schema'[t] \in all[t]
          /\ ~Dirty(t)' => schema'[t] \in ok[t][v - 1]
      BY <2>1 DEF Settled
    <2>3. QED  BY <2>2, ConvergentSays
  <1>5. ASSUME NEW t \in Table, Touches(DownFile[v], t)
        PROVE  schema'[t] \in DownAny(ok, all, v, t)[0]
    <2>1. schema'[t] \in all[t]
      BY DEF Settled
    <2>2. QED  BY <1>5, <2>1, ConvergentSays
  <1>6. run'.next - 1 = 0
    OBVIOUS
  <1>7. run'.direction = "up" => v \notin recorded'
    OBVIOUS
  <1>8. QED  BY <1>3, <1>4, <1>5, <1>6, <1>7 DEF Underway

\* The end of a run.
LEMMA GoOnBooks ==
  ASSUME IInv, Books, run # None, NEW v \in Version, IsCurrent(v), GoOn(v),
         run.direction = "up" => recorded \cup {v} \subseteq recorded',
         recorded' \subseteq Version, undone' \subseteq recorded'
  PROVE  Books'
  <1>1. CASE run.left = {v}
    <2>1. run' = None /\ outcome' = run.direction
      BY <1>1 DEF GoOn
    <2>2. run.direction = "up" => Version \ {v} \subseteq recorded
      BY <1>1 DEF IInv, RunFits
    <2>3. run.direction = "up" => recorded' = Version
      BY <2>2
    <2>4. QED  BY <2>1, <2>3 DEF Books
  <1>2. CASE run.left # {v}
    <2>1. /\ run' = [direction |-> run.direction, left |-> run.left \ {v},
                     pc |-> IF run.direction = "up" THEN "check" ELSE "execute", next |-> 1]
          /\ outcome' = outcome
      BY <1>2 DEF GoOn
    <2>2. outcome = "none" /\ run'.next = 1
      BY <2>1 DEF Books
    <2>3. QED  BY <2>1, <2>2 DEF Books
  <1>3. QED  BY <1>1, <1>2

\* A run that goes on begins the check of a version, or the roll-back of one.
LEMMA GoOnProgress ==
  ASSUME NEW ok, NEW all, Convergent(ok, all), Settled(ok, all)', MigrateType', MigrateType,
         run # None, NEW v \in Version, GoOn(v)
  PROVE  Progress(ok, all)'
  <1>1. run' # None => /\ run'.next = 1 /\ run'.pc # "record"
                       /\ run'.direction = "up" => run'.pc = "check"
    BY DEF GoOn
  <1>2. QED  BY <1>1, BeginsProgress

\* A step that changes neither tables nor records.
LEMMA SameSettled ==
  ASSUME NEW ok, NEW all, Settled(ok, all), UNCHANGED <<schema, recorded, undone>>
  PROVE  Settled(ok, all)'
  BY DEF Settled, Dirty

\* Every step preserves ConvergeInv: MigrateUp, ...
LEMMA ConvergeMigrateUp ==
  ASSUME NEW ok, NEW all, ConvergeInv(ok, all), MigrateUp, IInv'
  PROVE  ConvergeInv(ok, all)'
  <1>1. /\ run'.pc = "check" /\ run'.next = 1 /\ outcome' = "none"
        /\ UNCHANGED <<schema, recorded, undone>>
    BY DEF MigrateUp, Begin, history
  <1>2. Settled(ok, all)'
    BY <1>1, SameSettled DEF ConvergeInv
  <1>3. Books' /\ Progress(ok, all)'
    BY <1>1 DEF Books, Progress, ConvergeInv
  <1>4. QED  BY <1>2, <1>3 DEF ConvergeInv

\* ... MigrateDown, ...
LEMMA ConvergeMigrateDown ==
  ASSUME NEW ok, NEW all, Convergent(ok, all), ConvergeInv(ok, all),
         NEW vs \in SUBSET Version, MigrateDown(vs), IInv'
  PROVE  ConvergeInv(ok, all)'
  <1>1. /\ run' = [direction |-> "down", left |-> vs, pc |-> "execute", next |-> 1]
        /\ outcome' = "none" /\ UNCHANGED <<schema, recorded, undone>>
    BY DEF MigrateDown, Begin, history
  <1>2. Settled(ok, all)'
    BY <1>1, SameSettled DEF ConvergeInv
  <1>3. Progress(ok, all)'
    <2>1. run'.next = 1 /\ run'.pc # "record" /\ run'.direction # "up"
      BY <1>1
    <2>2. MigrateType'
      BY DEF IInv
    <2>3. QED  BY <1>2, <2>1, <2>2, BeginsProgress
  <1>4. Books'
    BY <1>1 DEF Books, ConvergeInv
  <1>5. QED  BY <1>2, <1>3, <1>4 DEF ConvergeInv

\* ... MigrationApplied, ...
LEMMA ConvergeMigrationApplied ==
  ASSUME NEW ok, NEW all, Convergent(ok, all), ConvergeInv(ok, all),
         NEW v \in Version, MigrationApplied(v), IInv'
  PROVE  ConvergeInv(ok, all)'
  <1>1. /\ run # None /\ run \in Run /\ run.pc = "check" /\ run.next = 1
        /\ run.direction = "up" /\ IsCurrent(v)
        /\ UNCHANGED <<schema, recorded, undone>>
        /\ IInv /\ Books
    BY DEF ConvergeInv, Books, IInv, MigrateType, RunFits, MigrationApplied, At, history,
           Run, Direction
  <1>2. Settled(ok, all)'
    BY <1>1, SameSettled DEF ConvergeInv
  <1>3. MigrateType /\ MigrateType'
    BY <1>1 DEF IInv
  <1>4. CASE v \in recorded /\ GoOn(v)
    <2>1. Books'
      <3>1. recorded' \subseteq Version /\ undone' \subseteq recorded'
        BY <1>1, <1>3 DEF MigrateType, Books
      <3>2. QED  BY <1>1, <1>4, <3>1, GoOnBooks
    <2>2. Progress(ok, all)'
      BY <1>1, <1>2, <1>3, <1>4, GoOnProgress
    <2>3. QED  BY <1>2, <2>1, <2>2 DEF ConvergeInv
  <1>5. CASE v \notin recorded /\ run' = [run EXCEPT !.pc = "execute"] /\ UNCHANGED outcome
    <2>1. /\ run'.pc = "execute" /\ run'.next = 1
          /\ run'.direction = "up" /\ run'.left = run.left
      BY <1>1, <1>5 DEF Run
    <2>2. ASSUME NEW w \in Version, IsCurrent(w)'
          PROVE  w \notin recorded' /\ recorded' = 1 .. w - 1
      <3>1. IsCurrent(w)
        BY <1>1, <2>1, <2>2 DEF IsCurrent
      <3>2. w = v
        BY <1>1, <3>1, OneIsCurrent
      <3>3. QED  BY <1>1, <1>5, <3>2, RecordedBefore
    <2>3. Progress(ok, all)'
      BY <1>2, <1>3, <2>1, <2>2, BeginsProgress
    <2>4. Books'
      BY <1>1, <1>5, <2>1 DEF Books
    <2>5. QED  BY <1>2, <2>3, <2>4 DEF ConvergeInv
  <1>6. QED  BY <1>4, <1>5 DEF MigrationApplied

\* A statement that is executed.
LEMMA ConvergeExecFile ==
  ASSUME NEW ok, NEW all, Convergent(ok, all), ConvergeInv(ok, all),
         NEW v \in Version, ExecFile(v), IInv'
  PROVE  ConvergeInv(ok, all)'
  <1>1. /\ run # None /\ run \in Run /\ run.pc = "execute" /\ IsCurrent(v)
        /\ run.next \in Nat \ {0} /\ run.next <= Len(File(v))
        /\ run.direction \in {"up", "down"}
        /\ schema \in Schema /\ recorded' = recorded
        /\ IInv /\ Books /\ Settled(ok, all) /\ Underway(ok, all, v)
    BY DEF ConvergeInv, Progress, IInv, MigrateType, ExecFile, At, Run, Schema, Direction
  <1>2. PICK f \in Seq(Statement) :
          /\ f = File(v)
          /\ run.direction = "up" => f = UpFile[v]
          /\ run.direction = "down" => f = DownFile[v]
    BY MigrateAssumption DEF File
  <1>3. PICK n \in 1 .. Len(f) : n = run.next
    BY <1>1, <1>2
  <1>4. CASE Refuses(schema, f[n])
    <2>1. /\ run' = None /\ outcome' = "failed"
          /\ UNCHANGED <<schema, recorded, undone>>
      BY <1>1, <1>2, <1>3, <1>4 DEF ExecFile
    <2>2. Settled(ok, all)'
      BY <1>1, <2>1, SameSettled
    <2>3. QED  BY <1>1, <2>1, <2>2 DEF ConvergeInv, Books, Progress
  <1>5. CASE ~Refuses(schema, f[n])
    <2>1. /\ schema' = Applied(schema, f[n]) /\ run' = [run EXCEPT !.next = @ + 1]
          /\ undone' = IF run.direction = "down" THEN undone \cup {v} ELSE undone
          /\ outcome' = outcome
      BY <1>2, <1>3, <1>5 DEF ExecFile
    <2>2. /\ run'.next = n + 1 /\ run'.pc = "execute"
          /\ run'.direction = run.direction /\ run'.left = run.left
      BY <1>1, <1>3, <2>1 DEF Run
    <2>3. \A w \in Version : IsCurrent(w)' => w = v
      <3>1. \A w \in Version : IsCurrent(w)' => IsCurrent(w)
        BY <2>2 DEF IsCurrent
      <3>2. QED  BY <1>1, <3>1, OneIsCurrent
    <2>4. Books'
      <3>1. run.direction = "down" => v \in recorded
        BY <1>1 DEF IInv, RunFits, IsCurrent
      <3>2. undone' \subseteq recorded'
        BY <1>1, <2>1, <3>1 DEF Books
      <3>3. outcome' = "none"
        BY <1>1, <2>1 DEF Books
      <3>4. QED  BY <2>2, <3>2, <3>3 DEF Books
    <2>5. n \in 0 .. Len(f) /\ n + 1 \in 1 .. Len(f) + 1 /\ (n + 1) - 1 = n
      OBVIOUS
    <2>6. CASE run.direction = "up"
      <3>1. /\ v \notin recorded /\ f = UpFile[v] /\ undone' = undone
            /\ \A t \in Table :
                 /\ schema[t] \in UpAny(all, v, t)[n - 1]
                 /\ ~Dirty(t) => schema[t] \in UpRight(ok, v, t)[n - 1]
        BY <1>1, <1>2, <1>3, <2>1, <2>6 DEF Underway
      <3>2. recorded = 1 .. v - 1
        BY <1>1, <2>6, <3>1, RecordedBefore
      <3>3. ASSUME NEW t \in Table
            PROVE  /\ schema'[t] \in UpAny(all, v, t)[n] /\ schema'[t] \in all[t]
                   /\ ~Dirty(t) => /\ schema'[t] \in UpRight(ok, v, t)[n]
                                   /\ schema'[t] \in ok[t][v - 1]
        <4>1. /\ Carries(TRUE, f, t, UpAny(all, v, t)) /\ UpAny(all, v, t)[n] \subseteq all[t]
              /\ Carries(TRUE, f, t, UpRight(ok, v, t))
              /\ UpRight(ok, v, t)[n] \subseteq ok[t][v - 1]
          BY <2>5, <3>1, ConvergentSays
        <4>2. schema'[t] \in UpAny(all, v, t)[n]
          BY <1>1, <1>5, <2>1, <3>1, <4>1, CarriesOn
        <4>3. ~Dirty(t) => schema'[t] \in UpRight(ok, v, t)[n]
          BY <1>1, <1>5, <2>1, <3>1, <4>1, CarriesOn
        <4>4. QED  BY <4>1, <4>2, <4>3
      <3>4. \A t : Dirty(t)' <=> Dirty(t)
        BY <3>1 DEF Dirty
      <3>5. Settled(ok, all)'
        <4>1. ASSUME NEW m \in 0 .. Newest, recorded' = 1 .. m PROVE m = v - 1
          <5>1. v - 1 \in Nat /\ m \in Nat /\ 1 .. m = 1 .. v - 1
            BY <1>1, <3>2, <4>1, MigrateAssumption
          <5>2. QED  BY <5>1, SameInterval
        <4>2. QED  BY <3>3, <3>4, <4>1 DEF Settled
      <3>6. Underway(ok, all, v)'
        <4>1. File(v)' = f
          BY <2>2, <2>6, <3>1 DEF File
        <4>2. QED  BY <1>1, <2>2, <2>5, <2>6, <3>1, <3>3, <3>4, <4>1 DEF Underway
      <3>7. Progress(ok, all)'
        BY <2>3, <3>6 DEF Progress
      <3>8. QED  BY <2>4, <3>5, <3>7 DEF ConvergeInv
    <2>7. CASE run.direction = "down"
      <3>1. /\ f = DownFile[v] /\ undone' = undone \cup {v}
            /\ \A t \in Table :
                 Touches(f, t) => schema[t] \in DownAny(ok, all, v, t)[n - 1]
        BY <1>1, <1>2, <1>3, <2>1, <2>7 DEF Underway
      <3>2. ASSUME NEW t \in Table, Touches(f, t)
            PROVE  /\ schema'[t] \in DownAny(ok, all, v, t)[n] /\ schema'[t] \in all[t]
                   /\ Dirty(t)'
        <4>1. /\ Carries(TRUE, f, t, DownAny(ok, all, v, t))
              /\ DownAny(ok, all, v, t)[n] \subseteq all[t]
          BY <2>5, <3>1, <3>2, ConvergentSays
        <4>2. schema'[t] \in DownAny(ok, all, v, t)[n]
          BY <1>1, <1>5, <2>1, <3>1, <3>2, <4>1, CarriesOn
        <4>3. Dirty(t)'
          BY <3>1, <3>2 DEF Dirty
        <4>4. QED  BY <4>1, <4>2, <4>3
      <3>3. ASSUME NEW t \in Table, ~Touches(f, t)
            PROVE  schema'[t] = schema[t]
        BY <1>1, <2>1, <3>3, NotTouched
      <3>4. Settled(ok, all)'
        <4>1. \A t : Dirty(t) => Dirty(t)'
          BY <3>1 DEF Dirty
        <4>2. ASSUME NEW t \in Table
              PROVE  /\ schema'[t] \in all[t]
                     /\ ~Dirty(t)' =>
                          \A m \in 0 .. Newest : recorded' = 1 .. m => schema'[t] \in ok[t][m]
          <5>1. CASE Touches(f, t)
            BY <3>2, <5>1
          <5>2. CASE ~Touches(f, t)
            <6>1. schema'[t] = schema[t]
              BY <3>3, <5>2
            <6>2. QED  BY <1>1, <4>1, <6>1 DEF Settled
          <5>3. QED  BY <5>1, <5>2
        <4>3. QED  BY <4>2 DEF Settled
      <3>5. Underway(ok, all, v)'
        <4>1. File(v)' = f
          BY <2>2, <2>7, <3>1 DEF File
        <4>2. QED  BY <2>2, <2>5, <2>7, <3>1, <3>2, <4>1 DEF Underway
      <3>6. Progress(ok, all)'
        BY <2>3, <3>5 DEF Progress
      <3>7. QED  BY <2>4, <3>4, <3>6 DEF ConvergeInv
    <2>8. QED  BY <1>1, <2>6, <2>7
  <1>6. QED  BY <1>4, <1>5

\* ... ExecFileEnd, ...
LEMMA ConvergeExecFileEnd ==
  ASSUME NEW ok, NEW all, ConvergeInv(ok, all), NEW v \in Version, ExecFileEnd(v), IInv'
  PROVE  ConvergeInv(ok, all)'
  <1>1. /\ run # None /\ run \in Run /\ run.pc = "execute" /\ IsCurrent(v)
        /\ run.next \in Nat \ {0} /\ run.next > Len(File(v))
        /\ run' = [run EXCEPT !.pc = "record"]
        /\ UNCHANGED <<schema, recorded, undone, outcome>>
        /\ IInv /\ Books /\ Settled(ok, all) /\ Underway(ok, all, v)
    BY DEF ConvergeInv, Progress, IInv, MigrateType, ExecFileEnd, At, Run, history
  <1>2. /\ run'.pc = "record" /\ run'.next = run.next
        /\ run'.direction = run.direction /\ run'.left = run.left
    BY <1>1 DEF Run
  <1>3. Settled(ok, all)'
    BY <1>1, SameSettled
  <1>4. Books'
    BY <1>1, <1>2 DEF Books
  <1>5. ASSUME NEW w \in Version, IsCurrent(w)' PROVE Underway(ok, all, w)'
    <2>1. w = v
      <3>1. IsCurrent(w)
        BY <1>2, <1>5 DEF IsCurrent
      <3>2. QED  BY <1>1, <3>1, OneIsCurrent
    <2>2. PICK f \in Seq(Statement) : f = File(v)
      BY MigrateAssumption DEF File
    <2>3. File(v)' = f
      BY <1>2, <2>2 DEF File
    <2>4. run.next = Len(f) + 1
      BY <1>1, <2>2 DEF Underway
    <2>5. \A t : Dirty(t)' <=> Dirty(t)
      BY <1>1 DEF Dirty
    <2>6. Underway(ok, all, v)'
      BY <1>1, <1>2, <2>2, <2>3, <2>4, <2>5 DEF Underway
    <2>7. QED  BY <2>1, <2>6
  <1>6. Progress(ok, all)'
    BY <1>5 DEF Progress
  <1>7. QED  BY <1>3, <1>4, <1>6 DEF ConvergeInv

\* A version that is recorded, or whose record is deleted.
LEMMA ConvergeRecordVersion ==
  ASSUME NEW ok, NEW all, Convergent(ok, all), ConvergeInv(ok, all),
         NEW v \in Version, RecordVersion(v), IInv'
  PROVE  ConvergeInv(ok, all)'
  <1>1. /\ run # None /\ run \in Run /\ run.pc = "record" /\ IsCurrent(v) /\ GoOn(v)
        /\ run.direction \in {"up", "down"}
        /\ recorded' = IF run.direction = "up" THEN recorded \cup {v} ELSE recorded \ {v}
        /\ undone' = undone \ {v} /\ schema' = schema
        /\ IInv /\ Books /\ Settled(ok, all) /\ Underway(ok, all, v)
        /\ MigrateType /\ MigrateType'
    BY DEF ConvergeInv, Progress, IInv, MigrateType, RecordVersion, At, Run, Direction
  <1>2. PICK f \in Seq(Statement) :
          /\ f = File(v)
          /\ run.direction = "up" => f = UpFile[v]
          /\ run.direction = "down" => f = DownFile[v]
    BY MigrateAssumption DEF File
  <1>3. PICK n \in 0 .. Len(f) : n = Len(f) /\ n = run.next - 1
    <2>1. run.next = Len(f) + 1
      BY <1>1, <1>2 DEF Underway
    <2>2. Len(f) \in 0 .. Len(f) /\ Len(f) = run.next - 1
      BY <2>1
    <2>3. QED  BY <2>2
  <1>4. Books'
    <2>1. undone' \subseteq recorded' /\ recorded' \subseteq Version
      BY <1>1 DEF Books, MigrateType
    <2>2. run.direction = "up" => recorded \cup {v} \subseteq recorded'
      BY <1>1
    <2>3. QED  BY <1>1, <2>1, <2>2, GoOnBooks
  <1>5. Settled(ok, all)'
    <2>1. CASE run.direction = "up"
      <3>1. /\ v \notin recorded /\ f = UpFile[v]
            /\ \A t \in Table : ~Dirty(t) => schema[t] \in UpRight(ok, v, t)[n]
        BY <1>1, <1>2, <1>3, <2>1 DEF Underway
      <3>2. recorded = 1 .. v - 1
        BY <1>1, <2>1, <3>1, RecordedBefore
      <3>3. recorded' = 1 .. v
        BY <1>1, <2>1, <3>2, MigrateAssumption
      <3>4. \A t : Dirty(t)' <=> Dirty(t)
        BY <1>1, <3>1 DEF Dirty, Books
      <3>5. ASSUME NEW m \in 0 .. Newest, recorded' = 1 .. m PROVE m = v
        <4>1. v \in Nat /\ m \in Nat /\ 1 .. m = 1 .. v
          BY <3>3, <3>5, MigrateAssumption
        <4>2. QED  BY <4>1, SameInterval
      <3>6. ASSUME NEW t \in Table, ~Dirty(t) PROVE schema[t] \in ok[t][v]
        <4>1. UpRight(ok, v, t)[n] \subseteq ok[t][v]
          BY <1>3, <3>1, ConvergentSays
        <4>2. QED  BY <3>1, <3>6, <4>1
      <3>7. QED  BY <1>1, <3>4, <3>5, <3>6 DEF Settled
    <2>2. CASE run.direction = "down"
      <3>1. /\ f = DownFile[v]
            /\ \A t \in Table : Touches(f, t) => schema[t] \in DownAny(ok, all, v, t)[n]
        BY <1>1, <1>2, <1>3, <2>2 DEF Underway
      <3>2. recorded = 1 .. v
        BY <1>1, <2>2, RecordedUpTo
      <3>3. recorded' = 1 .. v - 1
        BY <1>1, <2>2, <3>2, MigrateAssumption
      <3>4. ASSUME NEW m \in 0 .. Newest, recorded' = 1 .. m PROVE m = v - 1
        <4>1. v - 1 \in Nat /\ m \in Nat /\ 1 .. m = 1 .. v - 1
          BY <3>3, <3>4, MigrateAssumption
        <4>2. QED  BY <4>1, SameInterval
      <3>5. ASSUME NEW t \in Table, ~Dirty(t)' PROVE schema[t] \in ok[t][v - 1]
        <4>1. CASE Touches(f, t)
          <5>1. DownAny(ok, all, v, t)[n] \subseteq ok[t][v - 1]
            BY <1>3, <3>1, <4>1, ConvergentSays
          <5>2. QED  BY <3>1, <4>1, <5>1
        <4>2. CASE ~Touches(f, t)
          <5>1. ~Dirty(t)
            BY <1>1, <3>1, <3>5, <4>2 DEF Dirty
          <5>2. v \in 0 .. Newest
            BY MigrateAssumption
          <5>3. schema[t] \in ok[t][v]
            BY <1>1, <3>2, <5>1, <5>2 DEF Settled
          <5>4. ok[t][v] \subseteq ok[t][v - 1]
            BY <3>1, <4>2, ConvergentSays
          <5>5. QED  BY <5>3, <5>4
        <4>3. QED  BY <4>1, <4>2
      <3>6. QED  BY <1>1, <3>4, <3>5 DEF Settled
    <2>3. QED  BY <1>1, <2>1, <2>2
  <1>6. Progress(ok, all)'
    BY <1>1, <1>5, GoOnProgress
  <1>7. QED  BY <1>4, <1>5, <1>6 DEF ConvergeInv

\* Without tables and records the empty schema is right.
LEMMA ConvergeInit ==
  ASSUME NEW ok, NEW all, Convergent(ok, all), Init
  PROVE  ConvergeInv(ok, all)
  <1>1. IInv
    BY InitEstablishes
  <1>2. Books /\ Progress(ok, all)
    BY DEF Init, Books, Progress
  <1>3. ASSUME NEW t \in Table PROVE schema[t] \in all[t] /\ schema[t] \in ok[t][0]
    <2>1. schema[t] = {} /\ 0 \in 0 .. Newest
      BY MigrateAssumption DEF Init
    <2>2. {} \in ok[t][0] /\ ok[t][0] \subseteq all[t]
      BY <2>1 DEF Convergent, ConvergesAt
    <2>3. QED  BY <2>1, <2>2
  <1>4. ASSUME NEW m \in 0 .. Newest, recorded = 1 .. m PROVE m = 0
    <2>1. 1 \notin 1 .. m
      BY <1>4 DEF Init
    <2>2. QED  BY <2>1, MigrateAssumption
  <1>5. Settled(ok, all)
    BY <1>3, <1>4 DEF Settled
  <1>6. QED  BY <1>1, <1>2, <1>5 DEF ConvergeInv

\* ... and so every step of Next.
LEMMA ConvergeNext ==
  ASSUME NEW ok, NEW all, Convergent(ok, all), ConvergeInv(ok, all), [Next]_vars, IInv'
  PROVE  ConvergeInv(ok, all)'
  <1>1. CASE MigrateUp
    BY <1>1, ConvergeMigrateUp
  <1>2. ASSUME NEW vs \in SUBSET Version, MigrateDown(vs) PROVE ConvergeInv(ok, all)'
    BY <1>2, ConvergeMigrateDown
  <1>3. CASE Step
    <2>1. PICK v \in Version :
            MigrationApplied(v) \/ ExecFile(v) \/ ExecFileEnd(v) \/ RecordVersion(v)
      BY <1>3 DEF Step
    <2>2. CASE MigrationApplied(v)
      BY <2>2, ConvergeMigrationApplied
    <2>3. CASE ExecFile(v)
      BY <2>3, ConvergeExecFile
    <2>4. CASE ExecFileEnd(v)
      BY <2>4, ConvergeExecFileEnd
    <2>5. CASE RecordVersion(v)
      BY <2>5, ConvergeRecordVersion
    <2>6. QED  BY <2>1, <2>2, <2>3, <2>4, <2>5
  <1>4. CASE Interrupt
    <2>1. /\ run' = None /\ outcome' = "failed" /\ UNCHANGED <<schema, recorded, undone>>
      BY <1>4 DEF Interrupt, history
    <2>2. Settled(ok, all)'
      BY <2>1, SameSettled DEF ConvergeInv
    <2>3. QED  BY <2>1, <2>2 DEF ConvergeInv, Books, Progress
  <1>5. CASE UNCHANGED vars
    <2>1. UNCHANGED <<schema, recorded, undone, run, outcome>>
      BY <1>5 DEF vars, history
    <2>2. Settled(ok, all)'
      BY <2>1, SameSettled DEF ConvergeInv
    <2>3. Books'
      BY <2>1 DEF ConvergeInv, Books
    <2>4. Progress(ok, all)'
      <3>1. \A v : /\ IsCurrent(v)' <=> IsCurrent(v)
                   /\ Underway(ok, all, v)' <=> Underway(ok, all, v)
        BY <2>1 DEF IsCurrent, Underway, Dirty, File
      <3>2. QED  BY <2>1, <3>1 DEF ConvergeInv, Progress
    <2>5. QED  BY <2>2, <2>3, <2>4 DEF ConvergeInv
  <1>6. QED  BY <1>1, <1>2, <1>3, <1>4, <1>5 DEF Next

\* A run that reports success leaves every table as the files describe it, unless an
\* unfinished roll-back of a recorded version changes that very table.
TablesCurrent ==
  outcome = "up" /\ run = None => \A t \in Table : ~Dirty(t) => schema[t] = Built[t]

\* After a run upwards every version is recorded, and only one schema is right for them.
LEMMA ConvergeSuccess ==
  ASSUME NEW ok, NEW all, Convergent(ok, all), ConvergeInv(ok, all)
  PROVE  TablesCurrent /\ SuccessMeansCurrent
  <1>1. TablesCurrent
    <2> SUFFICES ASSUME outcome = "up", NEW t \in Table, ~Dirty(t) PROVE schema[t] = Built[t]
      BY DEF TablesCurrent
    <2>1. recorded = 1 .. Newest /\ Newest \in 0 .. Newest
      BY MigrateAssumption DEF ConvergeInv, Books
    <2>2. schema[t] \in ok[t][Newest]
      BY <2>1 DEF ConvergeInv, Settled
    <2>3. QED  BY <2>2 DEF Convergent, ConvergesAt
  <1>2. ASSUME outcome = "up", run = None, undone = {} PROVE schema = Built
    <2>1. \A t \in Table : schema[t] = Built[t]
      BY <1>1, <1>2 DEF TablesCurrent, Dirty
    <2>2. schema \in Schema
      BY DEF ConvergeInv, IInv, MigrateType, Schema
    <2>3. Built \in Schema
      BY MigrateAssumption, BuiltDef DEF Built
    <2>4. QED  BY <2>1, <2>2, <2>3 DEF Schema
  <1>3. QED  BY <1>1, <1>2 DEF SuccessMeansCurrent

\* If the files come to the same schema whatever was interrupted, a run upwards that
\* reports success leaves that schema, and each table that no unfinished roll-back changes.
THEOREM AlwaysTablesCurrent ==
  ASSUME ConvergentFiles
  PROVE  Spec => [](TablesCurrent /\ SuccessMeansCurrent)
  <1>1. PICK ok, all : Convergent(ok, all)
    BY DEF ConvergentFiles
  <1>2. Init => ConvergeInv(ok, all)
    BY <1>1, ConvergeInit
  <1>3. ConvergeInv(ok, all) /\ IInv' /\ [Next]_vars => ConvergeInv(ok, all)'
    BY <1>1, ConvergeNext
  <1>4. ConvergeInv(ok, all) => TablesCurrent /\ SuccessMeansCurrent
    BY <1>1, ConvergeSuccess
  <1>5. QED  BY <1>2, <1>3, <1>4, Inductive, PTL DEF Spec

\* What follows for a roll-back that was finished, or never begun.
THEOREM AlwaysSuccessMeansCurrent ==
  ASSUME ConvergentFiles
  PROVE  Spec => []SuccessMeansCurrent
  BY AlwaysTablesCurrent, PTL

-----------------------------------------------------------------------------
(* The files of the repository come to the same schema. *)

\* A file with one statement of the table.
LEMMA RunsOnce ==
  ASSUME NEW heed \in BOOLEAN, NEW f \in Seq(Statement), NEW k \in 1 .. Len(f),
         NEW t \in Table, NEW P \in Values, NEW Q \in Values,
         \A i \in 1 .. Len(f) : f[i].table = t => i = k,
         \A x \in P : (heed /\ Stops(t, x, f[k])) \/ Turned(t, x, f[k]) \in Q
  PROVE  Runs(heed, f, t, P, P \cup Q, Q)
  <1> DEFINE mid == [i \in 0 .. Len(f) |-> IF i < k THEN P ELSE Q]
  <1>1. mid \in [0 .. Len(f) -> Values] /\ mid[Len(f)] = Q /\ mid[0] = P
    OBVIOUS
  <1>2. ASSUME NEW i \in 1 .. Len(f), NEW x \in mid[i - 1]
        PROVE  (heed /\ Stops(t, x, f[i])) \/ Turned(t, x, f[i]) \in mid[i]
    <2>1. i - 1 \in 0 .. Len(f) /\ i \in 0 .. Len(f) /\ f[i] \in Statement
      OBVIOUS
    <2>2. CASE i = k
      <3>1. mid[i - 1] = P /\ mid[i] = Q
        BY <2>1, <2>2
      <3> HIDE DEF mid
      <3>2. QED  BY <1>2, <2>2, <3>1
    <2>3. CASE i # k
      <3>1. mid[i - 1] = mid[i]
        BY <2>1, <2>3
      <3>2. x \in SUBSET Feature /\ f[i].table # t
        BY <1>2, <2>1, <2>3 DEF Values
      <3> HIDE DEF mid
      <3>3. Turned(t, x, f[i]) = x
        BY <2>1, <3>2, TurnedOther
      <3>4. QED  BY <1>2, <3>1, <3>3
    <2>4. QED  BY <2>2, <2>3
  <1>3. Carries(heed, f, t, mid)
    BY <1>1, <1>2 DEF Carries
  <1>4. Within(f, mid, P, P \cup Q, Q)
    BY <1>1 DEF Within
  <1>5. QED  BY <1>3, <1>4 DEF Runs

\* The file makes the table one of Q, whatever it is, and one of M in between; or makes
\* it F where it is not there.
Makes(f, t, M, Q) ==
  Touches(f, t) /\ \A P \in Values : Runs(FALSE, f, t, P, P \cup M, Q)

Ensures(f, t, F) ==
  Touches(f, t) /\ \A P \in Values : Runs(FALSE, f, t, P, P \cup {F}, (P \ {{}}) \cup {F})

\* Files that name every table once.
LEMMA EachOnce ==
  ASSUME NEW f \in Seq(Statement), NEW k \in 1 .. Len(f),
         \A i \in 1 .. Len(f) : f[i].table = f[k].table => i = k
  PROVE  /\ f[k].op = "drop" => Makes(f, f[k].table, {{}}, {{}})
         /\ f[k].op = "create" => Ensures(f, f[k].table, f[k].features)
  <1>1. PICK s \in Statement, t \in Table :
          s = f[k] /\ t = s.table /\ s.features \in SUBSET Feature
    <2>1. f[k] \in Statement
      OBVIOUS
    <2>2. f[k].table \in Table /\ f[k].features \in SUBSET Feature
      BY <2>1 DEF Statement
    <2>3. QED  BY <2>1, <2>2
  <1>2. Touches(f, t)
    BY <1>1 DEF Touches
  <1>3. ASSUME s.op = "drop", NEW P \in Values
        PROVE  Runs(FALSE, f, t, P, P \cup {{}}, {{}})
    <2>1. \A x \in P : Turned(t, x, s) \in {{}}
      <3> SUFFICES ASSUME NEW x \in P PROVE Turned(t, x, s) = {}
        OBVIOUS
      <3>1. x \in SUBSET Feature
        BY DEF Values
      <3>2. QED  BY <1>1, <1>3, <3>1, TurnedDrop
    <2>2. {{}} \in Values
      BY DEF Values
    <2>3. QED  BY <1>1, <2>1, <2>2, RunsOnce
  <1>4. ASSUME s.op = "create", NEW P \in Values
        PROVE  Runs(FALSE, f, t, P, P \cup {s.features}, (P \ {{}}) \cup {s.features})
    <2>1. PICK F \in SUBSET Feature : F = s.features
      BY <1>1
    <2>2. PICK Q \in Values : Q = (P \ {{}}) \cup {F}
      BY <2>1 DEF Values
    <2>3. \A x \in P : Turned(t, x, s) \in Q
      <3> SUFFICES ASSUME NEW x \in P PROVE Turned(t, x, s) \in Q
        OBVIOUS
      <3>1. x \in SUBSET Feature
        BY DEF Values
      <3>2. Turned(t, x, s) = IF x = {} THEN F ELSE x
        BY <1>1, <1>4, <2>1, <3>1, TurnedCreate
      <3>3. QED  BY <2>2, <3>2
    <2>4. Runs(FALSE, f, t, P, P \cup Q, Q)
      BY <1>1, <2>3, RunsOnce
    <2>5. P \cup Q = P \cup {F}
      BY <2>2
    <2>6. QED  BY <2>1, <2>2, <2>4, <2>5
  <1>5. QED  BY <1>1, <1>2, <1>3, <1>4 DEF Makes, Ensures

\* Two files, one after the other, name what either names.
LEMMA TouchesOn ==
  ASSUME NEW f \in Seq(Statement), NEW g \in Seq(Statement), NEW t
  PROVE  Touches(f \o g, t) <=> Touches(f, t) \/ Touches(g, t)
  <1>1. PICK n \in Nat, m \in Nat : n = Len(f) /\ m = Len(g)
    OBVIOUS
  <1>2. PICK h \in Seq(Statement) :
          /\ h = f \o g /\ Len(h) = n + m
          /\ \A k \in 1 .. n : h[k] = f[k]
          /\ \A k \in 1 .. m : h[n + k] = g[k]
    <2>1. f \o g \in Seq(Statement) /\ Len(f \o g) = n + m
      BY <1>1
    <2>2. \A k \in 1 .. n : (f \o g)[k] = f[k]
      BY <1>1
    <2>3. \A k \in 1 .. m : (f \o g)[n + k] = g[k]
      BY <1>1
    <2>4. QED  BY <2>1, <2>2, <2>3
  <1>3. DOMAIN f = 1 .. n /\ DOMAIN g = 1 .. m /\ DOMAIN h = 1 .. n + m
    BY <1>1, <1>2
  <1>4. ASSUME NEW k \in 1 .. n + m, h[k].table = t PROVE Touches(f, t) \/ Touches(g, t)
    <2>1. CASE k <= n
      <3>1. k \in DOMAIN f /\ f[k].table = t
        BY <1>2, <1>3, <1>4, <2>1
      <3>2. QED  BY <3>1 DEF Touches
    <2>2. CASE k > n
      <3>1. k - n \in 1 .. m /\ k = n + (k - n)
        BY <2>2
      <3>2. QED  BY <1>2, <1>3, <1>4, <3>1 DEF Touches
    <2>3. QED  BY <2>1, <2>2
  <1>5. ASSUME NEW k \in 1 .. n, f[k].table = t PROVE Touches(h, t)
    <2>1. k \in 1 .. n + m
      OBVIOUS
    <2>2. k \in DOMAIN h /\ h[k].table = t
      BY <1>2, <1>3, <1>5, <2>1
    <2>3. QED  BY <2>2 DEF Touches
  <1>6. ASSUME NEW k \in 1 .. m, g[k].table = t PROVE Touches(h, t)
    <2>1. n + k \in 1 .. n + m
      OBVIOUS
    <2>2. QED  BY <1>2, <1>3, <1>6, <2>1 DEF Touches
  <1>7. QED  BY <1>2, <1>3, <1>4, <1>5, <1>6 DEF Touches

\* RunsPast, said with Touches.
LEMMA KeepsRuns ==
  ASSUME NEW heed \in BOOLEAN, NEW f \in Seq(Statement), NEW t \in Table, NEW P \in Values,
         ~Touches(f, t)
  PROVE  Runs(heed, f, t, P, P, P)
  BY RunsPast DEF Touches

\* One file after the other.
LEMMA MakesOn ==
  ASSUME NEW f \in Seq(Statement), NEW g \in Seq(Statement), NEW t \in Table,
         NEW M \in Values, NEW Q \in SUBSET M
  PROVE  /\ Makes(f, t, M, Q) /\ ~Touches(g, t) => Makes(f \o g, t, M, Q)
         /\ ~Touches(f, t) /\ Makes(g, t, M, Q) => Makes(f \o g, t, M, Q)
  <1>1. Q \in Values
    BY DEF Values
  <1>2. ASSUME Makes(f, t, M, Q), ~Touches(g, t), NEW P \in Values
        PROVE  Runs(FALSE, f \o g, t, P, P \cup M, Q)
    <2>1. Runs(FALSE, f, t, P, P \cup M, Q)
      BY <1>2 DEF Makes
    <2>2. Runs(FALSE, g, t, Q, Q, Q)
      BY <1>1, <1>2, KeepsRuns
    <2>3. Runs(FALSE, f \o g, t, P, (P \cup M) \cup Q, Q)
      BY <2>1, <2>2, RunsOn
    <2>4. (P \cup M) \cup Q = P \cup M
      OBVIOUS
    <2>5. QED  BY <2>3, <2>4
  <1>3. ASSUME ~Touches(f, t), Makes(g, t, M, Q), NEW P \in Values
        PROVE  Runs(FALSE, f \o g, t, P, P \cup M, Q)
    <2>1. Runs(FALSE, g, t, P, P \cup M, Q)
      BY <1>3 DEF Makes
    <2>2. Runs(FALSE, f, t, P, P, P)
      BY <1>3, KeepsRuns
    <2>3. Runs(FALSE, f \o g, t, P, P \cup (P \cup M), Q)
      BY <2>1, <2>2, RunsOn
    <2>4. P \cup (P \cup M) = P \cup M
      OBVIOUS
    <2>5. QED  BY <2>3, <2>4
  <1>4. QED  BY <1>2, <1>3, TouchesOn DEF Makes

\* A table that one of two files ensures, or that the first empties and the second ensures.
LEMMA EnsuresOn ==
  ASSUME NEW f \in Seq(Statement), NEW g \in Seq(Statement), NEW t \in Table,
         NEW F \in SUBSET Feature
  PROVE  /\ Ensures(f, t, F) /\ ~Touches(g, t) => Ensures(f \o g, t, F)
         /\ ~Touches(f, t) /\ Ensures(g, t, F) => Ensures(f \o g, t, F)
         /\ Makes(f, t, {{}}, {{}}) /\ Ensures(g, t, F) => Makes(f \o g, t, {{}, F}, {F})
  <1>1. ASSUME Ensures(f, t, F), ~Touches(g, t), NEW P \in Values
        PROVE  Runs(FALSE, f \o g, t, P, P \cup {F}, (P \ {{}}) \cup {F})
    <2>1. PICK Q \in Values : Q = (P \ {{}}) \cup {F}
      BY DEF Values
    <2>2. Runs(FALSE, f, t, P, P \cup {F}, Q)
      BY <1>1, <2>1 DEF Ensures
    <2>3. Runs(FALSE, g, t, Q, Q, Q)
      BY <1>1, KeepsRuns
    <2>4. Runs(FALSE, f \o g, t, P, (P \cup {F}) \cup Q, Q)
      BY <2>2, <2>3, RunsOn
    <2>5. (P \cup {F}) \cup Q = P \cup {F}
      BY <2>1
    <2>6. QED  BY <2>1, <2>4, <2>5
  <1>2. ASSUME ~Touches(f, t), Ensures(g, t, F), NEW P \in Values
        PROVE  Runs(FALSE, f \o g, t, P, P \cup {F}, (P \ {{}}) \cup {F})
    <2>1. Runs(FALSE, g, t, P, P \cup {F}, (P \ {{}}) \cup {F})
      BY <1>2 DEF Ensures
    <2>2. Runs(FALSE, f, t, P, P, P)
      BY <1>2, KeepsRuns
    <2>3. Runs(FALSE, f \o g, t, P, P \cup (P \cup {F}), (P \ {{}}) \cup {F})
      BY <2>1, <2>2, RunsOn
    <2>4. P \cup (P \cup {F}) = P \cup {F}
      OBVIOUS
    <2>5. QED  BY <2>3, <2>4
  <1>3. ASSUME Makes(f, t, {{}}, {{}}), Ensures(g, t, F), NEW P \in Values
        PROVE  Runs(FALSE, f \o g, t, P, P \cup {{}, F}, {F})
    <2>1. Runs(FALSE, f, t, P, P \cup {{}}, {{}})
      BY <1>3 DEF Makes
    <2>2. {{}} \in Values
      BY DEF Values
    <2>3. Runs(FALSE, g, t, {{}}, {{}} \cup {F}, ({{}} \ {{}}) \cup {F})
      BY <1>3, <2>2 DEF Ensures
    <2>4. {{}} \cup {F} = {{}, F} /\ ({{}} \ {{}}) \cup {F} = {F}
      OBVIOUS
    <2>5. Runs(FALSE, g, t, {{}}, {{}, F}, {F})
      BY <2>3, <2>4
    <2>6. Runs(FALSE, f \o g, t, P, (P \cup {{}}) \cup {{}, F}, {F})
      BY <2>1, <2>5, RunsOn
    <2>7. (P \cup {{}}) \cup {{}, F} = P \cup {{}, F}
      OBVIOUS
    <2>8. QED  BY <2>6, <2>7
  <1>4. QED  BY <1>1, <1>2, <1>3, TouchesOn DEF Makes, Ensures

\* The table is gone after the file, or gone in between and F after it.
Empties(f, t) == Makes(f, t, {{}}, {{}})

Rebuilds(f, t, F) == Makes(f, t, {{}, F}, {F})

\* What a file with the statement s does to its table, if it has no other of that table.
Does(f, s) ==
  /\ s.op = "drop" => Empties(f, s.table)
  /\ s.op = "create" => Ensures(f, s.table, s.features)

\* EachOnce, said with Does; and files of one to four statements of as many tables.
LEMMA DoesOnce ==
  ASSUME NEW f \in Seq(Statement), NEW k \in 1 .. Len(f),
         \A i \in 1 .. Len(f) : f[i].table = f[k].table => i = k
  PROVE  Does(f, f[k])
  BY EachOnce DEF Does, Empties

LEMMA OneOnce ==
  ASSUME NEW a \in Statement
  PROVE  /\ <<a>> \in Seq(Statement) /\ Does(<<a>>, a)
         /\ \A t : Touches(<<a>>, t) <=> t = a.table
  <1>1. PICK f \in Seq(Statement) : f = <<a>>
    <2>1. <<a>> \in Seq(Statement)
      OBVIOUS
    <2>2. QED  BY <2>1
  <1>2. Len(f) = 1 /\ DOMAIN f = 1 .. 1 /\ f[1] = a
    BY <1>1
  <1>3. Does(f, f[1])
    BY <1>2, DoesOnce
  <1>4. \A t : Touches(f, t) <=> t = a.table
    BY <1>2 DEF Touches
  <1>5. QED  BY <1>1, <1>2, <1>3, <1>4

LEMMA TwoOnce ==
  ASSUME NEW a \in Statement, NEW b \in Statement, a.table # b.table
  PROVE  /\ <<a, b>> \in Seq(Statement)
         /\ Does(<<a, b>>, a) /\ Does(<<a, b>>, b)
         /\ \A t : Touches(<<a, b>>, t) <=> t \in {a.table, b.table}
  <1>1. PICK f \in Seq(Statement) : f = <<a, b>>
    <2>1. <<a, b>> \in Seq(Statement)
      OBVIOUS
    <2>2. QED  BY <2>1
  <1>2. Len(f) = 2 /\ DOMAIN f = 1 .. 2 /\ f[1] = a /\ f[2] = b
    BY <1>1
  <1>3. Does(f, f[1]) /\ Does(f, f[2])
    <2>1. \A k, i \in 1 .. 2 : f[i].table = f[k].table => i = k
      BY <1>2
    <2>2. \A k \in 1 .. 2 : Does(f, f[k])
      BY <1>2, <2>1, DoesOnce
    <2>3. QED  BY <2>2
  <1>4. \A t : Touches(f, t) <=> t \in {a.table, b.table}
    BY <1>2 DEF Touches
  <1>5. QED  BY <1>1, <1>2, <1>3, <1>4

LEMMA ThreeOnce ==
  ASSUME NEW a \in Statement, NEW b \in Statement, NEW c \in Statement,
         a.table # b.table, a.table # c.table, b.table # c.table
  PROVE  /\ <<a, b, c>> \in Seq(Statement)
         /\ \A s \in {a, b, c} : Does(<<a, b, c>>, s)
         /\ \A t : Touches(<<a, b, c>>, t) <=> t \in {a.table, b.table, c.table}
  <1>1. PICK f \in Seq(Statement) : f = <<a, b, c>>
    <2>1. <<a, b, c>> \in Seq(Statement)
      OBVIOUS
    <2>2. QED  BY <2>1
  <1>2. Len(f) = 3 /\ DOMAIN f = 1 .. 3 /\ f[1] = a /\ f[2] = b /\ f[3] = c
    BY <1>1
  <1>3. Does(f, f[1]) /\ Does(f, f[2]) /\ Does(f, f[3])
    <2>1. \A k, i \in 1 .. 3 : f[i].table = f[k].table => i = k
      BY <1>2
    <2>2. \A k \in 1 .. 3 : Does(f, f[k])
      BY <1>2, <2>1, DoesOnce
    <2>3. QED  BY <2>2
  <1>4. \A t : Touches(f, t) <=> t \in {a.table, b.table, c.table}
    BY <1>2 DEF Touches
  <1>5. QED  BY <1>1, <1>2, <1>3, <1>4

LEMMA FourOnce ==
  ASSUME NEW a \in Statement, NEW b \in Statement, NEW c \in Statement, NEW d \in Statement,
         a.table # b.table, a.table # c.table, a.table # d.table,
         b.table # c.table, b.table # d.table, c.table # d.table
  PROVE  /\ <<a, b, c, d>> \in Seq(Statement)
         /\ \A s \in {a, b, c, d} : Does(<<a, b, c, d>>, s)
         /\ \A t : Touches(<<a, b, c, d>>, t) <=>
                     t \in {a.table, b.table, c.table, d.table}
  <1>1. PICK f \in Seq(Statement) : f = <<a, b, c, d>>
    <2>1. <<a, b, c, d>> \in Seq(Statement)
      OBVIOUS
    <2>2. QED  BY <2>1
  <1>2. /\ Len(f) = 4 /\ DOMAIN f = 1 .. 4
        /\ f[1] = a /\ f[2] = b /\ f[3] = c /\ f[4] = d
    BY <1>1
  <1>3. Does(f, f[1]) /\ Does(f, f[2]) /\ Does(f, f[3]) /\ Does(f, f[4])
    <2>1. \A k, i \in 1 .. 4 : f[i].table = f[k].table => i = k
      BY <1>2
    <2>2. \A k \in 1 .. 4 : Does(f, f[k])
      BY <1>2, <2>1, DoesOnce
    <2>3. QED  BY <2>2
  <1>4. \A t : Touches(f, t) <=> t \in {a.table, b.table, c.table, d.table}
    BY <1>2 DEF Touches
  <1>5. QED  BY <1>1, <1>2, <1>3, <1>4

\* The names of the repository are tables and features.
LEMMA RepositoryNames ==
  ASSUME RepositoryFiles
  PROVE  /\ "users" \in Table /\ "roles" \in Table /\ "plugin_services" \in Table
         /\ "plugin_instances" \in Table /\ "plugin_routes" \in Table
         /\ "plugin_audit_events" \in Table /\ "plugin_signature_nonces" \in Table
         /\ "plugin_route_claims" \in Table /\ "iam_refresh_sessions" \in Table
         /\ "v1" \in Feature /\ "v2" \in Feature /\ "v3" \in Feature
         /\ "health" \in Feature /\ "health_index" \in Feature
  BY DEF RepositoryFiles, Tables, Features

\* What the statements of the files are.
LEMMA CreateIs ==
  ASSUME NEW t \in Table, NEW F \in SUBSET Feature, NEW f, NEW s,
         s \in {CreateTable(t, F), CreateIfNotExists(t, F)}
  PROVE  /\ s \in Statement /\ s.table = t
         /\ Does(f, s) => Ensures(f, t, F)
  <1>1. PICK lenient \in BOOLEAN :
          s = [op |-> "create", table |-> t, features |-> F, lenient |-> lenient]
    BY DEF CreateTable, CreateIfNotExists
  <1>2. /\ s \in Statement /\ s.table = t /\ s.op = "create" /\ s.features = F
    BY <1>1 DEF Statement
  <1>3. QED  BY <1>2 DEF Does

LEMMA DropIs ==
  ASSUME NEW t \in Table, NEW f, NEW s, s = DropIfExists(t)
  PROVE  /\ s \in Statement /\ s.table = t
         /\ Does(f, s) => Empties(f, t)
  <1>1. /\ s \in Statement /\ s.table = t /\ s.op = "drop"
    BY DEF DropIfExists, Statement
  <1>2. QED  BY <1>1 DEF Does

\* What every file does to every table: the first file, ...
LEMMA CmsDoes ==
  ASSUME RepositoryFiles
  PROVE  /\ CmsUp \in Seq(Statement) /\ CmsDown \in Seq(Statement)
         /\ \A t \in {"users", "roles"} : Ensures(CmsUp, t, {"v1"}) /\ Empties(CmsDown, t)
         /\ \A t : /\ Touches(CmsUp, t) <=> t \in {"users", "roles"}
                   /\ Touches(CmsDown, t) <=> t \in {"users", "roles"}
  <1>1. PICK F \in SUBSET Feature : F = {"v1"}
    BY RepositoryNames
  <1>2. PICK a, b : a = CreateIfNotExists("users", F) /\ b = CreateIfNotExists("roles", F)
    OBVIOUS
  <1>3. PICK c, d : c = DropIfExists("roles") /\ d = DropIfExists("users")
    OBVIOUS
  <1>4. /\ a \in Statement /\ a.table = "users" /\ b \in Statement /\ b.table = "roles"
        /\ c \in Statement /\ c.table = "roles" /\ d \in Statement /\ d.table = "users"
    BY <1>2, <1>3, RepositoryNames, CreateIs, DropIs
  <1>5. CmsUp = <<a, b>> /\ CmsDown = <<c, d>>
    BY <1>1, <1>2, <1>3 DEF CmsUp, CmsDown
  <1>6. /\ CmsUp \in Seq(Statement) /\ Does(CmsUp, a) /\ Does(CmsUp, b)
        /\ CmsDown \in Seq(Statement) /\ Does(CmsDown, c) /\ Does(CmsDown, d)
        /\ \A t : /\ Touches(CmsUp, t) <=> t \in {"users", "roles"}
                  /\ Touches(CmsDown, t) <=> t \in {"users", "roles"}
    BY <1>4, <1>5, TwoOnce
  <1>7. Ensures(CmsUp, "users", F) /\ Ensures(CmsUp, "roles", F)
    BY <1>2, <1>6, RepositoryNames, CreateIs
  <1>8. Empties(CmsDown, "users") /\ Empties(CmsDown, "roles")
    BY <1>3, <1>6, RepositoryNames, DropIs
  <1>9. QED  BY <1>1, <1>6, <1>7, <1>8

\* ... that of the plugin registry, ...
RegistryTables == {"plugin_services", "plugin_instances", "plugin_routes"}

LEMMA RegistryDoes ==
  ASSUME RepositoryFiles
  PROVE  /\ RegistryUp \in Seq(Statement) /\ RegistryDown \in Seq(Statement)
         /\ \A t \in RegistryTables : Ensures(RegistryUp, t, {"v1"}) /\ Empties(RegistryDown, t)
         /\ \A t : /\ Touches(RegistryUp, t) <=> t \in RegistryTables
                   /\ Touches(RegistryDown, t) <=> t \in RegistryTables
  <1>1. PICK F \in SUBSET Feature : F = {"v1"}
    BY RepositoryNames
  <1>2. PICK a, b, c : /\ a = CreateIfNotExists("plugin_services", F)
                       /\ b = CreateIfNotExists("plugin_instances", F)
                       /\ c = CreateIfNotExists("plugin_routes", F)
    OBVIOUS
  <1>3. PICK p, q, r : /\ p = DropIfExists("plugin_routes")
                       /\ q = DropIfExists("plugin_instances")
                       /\ r = DropIfExists("plugin_services")
    OBVIOUS
  <1>4. /\ a \in Statement /\ a.table = "plugin_services"
        /\ b \in Statement /\ b.table = "plugin_instances"
        /\ c \in Statement /\ c.table = "plugin_routes"
    BY <1>2, RepositoryNames, CreateIs
  <1>5. /\ p \in Statement /\ p.table = "plugin_routes"
        /\ q \in Statement /\ q.table = "plugin_instances"
        /\ r \in Statement /\ r.table = "plugin_services"
    BY <1>3, RepositoryNames, DropIs
  <1>6. RegistryUp = <<a, b, c>> /\ RegistryDown = <<p, q, r>>
    BY <1>1, <1>2, <1>3 DEF RegistryUp, RegistryDown
  <1>7. /\ RegistryUp \in Seq(Statement) /\ \A s \in {a, b, c} : Does(RegistryUp, s)
        /\ \A t : Touches(RegistryUp, t) <=> t \in {a.table, b.table, c.table}
    BY <1>4, <1>6, ThreeOnce
  <1>8. /\ RegistryDown \in Seq(Statement) /\ \A s \in {p, q, r} : Does(RegistryDown, s)
        /\ \A t : Touches(RegistryDown, t) <=> t \in {p.table, q.table, r.table}
    BY <1>5, <1>6, ThreeOnce
  <1>9. /\ Ensures(RegistryUp, "plugin_services", F)
        /\ Ensures(RegistryUp, "plugin_instances", F)
        /\ Ensures(RegistryUp, "plugin_routes", F)
    BY <1>2, <1>7, RepositoryNames, CreateIs
  <1>10. /\ Empties(RegistryDown, "plugin_services")
         /\ Empties(RegistryDown, "plugin_instances")
         /\ Empties(RegistryDown, "plugin_routes")
    BY <1>3, <1>8, RepositoryNames, DropIs
  <1>11. \A t : /\ Touches(RegistryUp, t) <=> t \in RegistryTables
                /\ Touches(RegistryDown, t) <=> t \in RegistryTables
    BY <1>4, <1>5, <1>7, <1>8 DEF RegistryTables
  <1>12. QED  BY <1>1, <1>7, <1>8, <1>9, <1>10, <1>11 DEF RegistryTables

\* ... that of the refresh sessions, ...
LEMMA SessionsDo ==
  ASSUME RepositoryFiles
  PROVE  /\ SessionsUp \in Seq(Statement) /\ SessionsDown \in Seq(Statement)
         /\ Ensures(SessionsUp, "iam_refresh_sessions", {"v1"})
         /\ Empties(SessionsDown, "iam_refresh_sessions")
         /\ \A t : /\ Touches(SessionsUp, t) <=> t = "iam_refresh_sessions"
                   /\ Touches(SessionsDown, t) <=> t = "iam_refresh_sessions"
  <1>1. PICK F \in SUBSET Feature : F = {"v1"}
    BY RepositoryNames
  <1>2. PICK a, b : /\ a = CreateIfNotExists("iam_refresh_sessions", F)
                    /\ b = DropIfExists("iam_refresh_sessions")
    OBVIOUS
  <1>3. /\ a \in Statement /\ a.table = "iam_refresh_sessions"
        /\ b \in Statement /\ b.table = "iam_refresh_sessions"
    BY <1>2, RepositoryNames, CreateIs, DropIs
  <1>4. SessionsUp = <<a>> /\ SessionsDown = <<b>>
    BY <1>1, <1>2 DEF SessionsUp, SessionsDown
  <1>5. /\ SessionsUp \in Seq(Statement) /\ Does(SessionsUp, a)
        /\ SessionsDown \in Seq(Statement) /\ Does(SessionsDown, b)
        /\ \A t : /\ Touches(SessionsUp, t) <=> t = "iam_refresh_sessions"
                  /\ Touches(SessionsDown, t) <=> t = "iam_refresh_sessions"
    BY <1>3, <1>4, OneOnce
  <1>6. Ensures(SessionsUp, "iam_refresh_sessions", F)
    BY <1>2, <1>5, RepositoryNames, CreateIs
  <1>7. Empties(SessionsDown, "iam_refresh_sessions")
    BY <1>2, <1>5, RepositoryNames, DropIs
  <1>8. QED  BY <1>1, <1>5, <1>6, <1>7

\* A table that is dropped, and perhaps created again.
LEMMA FillsOn ==
  ASSUME NEW f \in Seq(Statement), NEW g \in Seq(Statement), NEW t \in Table,
         NEW F \in SUBSET Feature
  PROVE  /\ Empties(f, t) /\ Ensures(g, t, F) => Rebuilds(f \o g, t, F)
         /\ Empties(f, t) /\ ~Touches(g, t) => Empties(f \o g, t)
         /\ ~Touches(f, t) /\ Empties(g, t) => Empties(f \o g, t)
         /\ Rebuilds(f, t, F) /\ ~Touches(g, t) => Rebuilds(f \o g, t, F)
  <1>1. {{}} \in Values /\ {{}, F} \in Values /\ {F} \in SUBSET {{}, F}
    BY DEF Values
  <1>2. QED  BY <1>1, MakesOn, EnsuresOn DEF Empties, Rebuilds

\* The file drops the tables of T, and names no other.
EmptiesJust(f, T) ==
  /\ f \in Seq(Statement)
  /\ \A t \in T : Empties(f, t)
  /\ \A t : Touches(f, t) <=> t \in T

\* One more table dropped first.
LEMMA DropsFirst ==
  ASSUME NEW f \in Seq(Statement), NEW T \in SUBSET Table, EmptiesJust(f, T),
         NEW u \in Table, u \notin T
  PROVE  EmptiesJust(<<DropIfExists(u)>> \o f, T \cup {u})
  <1>1. PICK a \in Statement : a = DropIfExists(u) /\ a.table = u
    BY DropIs
  <1>2. PICK g \in Seq(Statement) :
          /\ g = <<a>> /\ Does(g, a) /\ \A t : Touches(g, t) <=> t = u
    BY <1>1, OneOnce
  <1>3. Empties(g, u)
    BY <1>1, <1>2, DropIs
  <1>4. PICK h \in Seq(Statement) : h = g \o f
    <2>1. g \o f \in Seq(Statement)
      BY <1>2
    <2>2. QED  BY <2>1
  <1>5. PICK F \in SUBSET Feature : F = {}
    OBVIOUS
  <1>6. Empties(h, u)
    <2>1. ~Touches(f, u)
      BY DEF EmptiesJust
    <2>2. QED  BY <1>2, <1>3, <1>4, <1>5, <2>1, FillsOn
  <1>7. ASSUME NEW t \in T PROVE Empties(h, t)
    <2>1. t \in Table /\ ~Touches(g, t) /\ Empties(f, t)
      BY <1>2 DEF EmptiesJust
    <2>2. Empties(g \o f, t)
      BY <1>2, <1>5, <2>1, FillsOn
    <2>3. QED  BY <1>4, <2>2
  <1>8. ASSUME NEW t PROVE Touches(h, t) <=> t \in T \cup {u}
    <2>1. Touches(g \o f, t) <=> Touches(g, t) \/ Touches(f, t)
      BY <1>2, TouchesOn
    <2>2. QED  BY <1>2, <1>4, <2>1 DEF EmptiesJust
  <1>9. EmptiesJust(h, T \cup {u})
    BY <1>4, <1>6, <1>7, <1>8 DEF EmptiesJust
  <1>10. QED  BY <1>1, <1>2, <1>4, <1>9

\* The files of v2 and v3 begin with the drop of all their tables, ...
LEMMA DropsDo ==
  ASSUME RepositoryFiles
  PROVE  EmptiesJust(DropV2, V2Tables) /\ EmptiesJust(DropV3, V3Tables)
  <1>1. PICK p, q, r, s : /\ p = DropIfExists("plugin_audit_events")
                          /\ q = DropIfExists("plugin_routes")
                          /\ r = DropIfExists("plugin_instances")
                          /\ s = DropIfExists("plugin_services")
    OBVIOUS
  <1>2. /\ p \in Statement /\ p.table = "plugin_audit_events"
        /\ q \in Statement /\ q.table = "plugin_routes"
        /\ r \in Statement /\ r.table = "plugin_instances"
        /\ s \in Statement /\ s.table = "plugin_services"
    BY <1>1, RepositoryNames, DropIs
  <1>3. DropV1 = <<p, q, r, s>>
    BY <1>1 DEF DropV1
  <1>4. /\ DropV1 \in Seq(Statement) /\ \A x \in {p, q, r, s} : Does(DropV1, x)
        /\ \A t : Touches(DropV1, t) <=> t \in {p.table, q.table, r.table, s.table}
    BY <1>2, <1>3, FourOnce
  <1>5. /\ Empties(DropV1, "plugin_audit_events") /\ Empties(DropV1, "plugin_routes")
        /\ Empties(DropV1, "plugin_instances") /\ Empties(DropV1, "plugin_services")
    BY <1>1, <1>4, RepositoryNames, DropIs
  <1>6. EmptiesJust(DropV1, V1Tables)
    BY <1>2, <1>4, <1>5 DEF EmptiesJust, V1Tables
  <1>7. /\ V1Tables \in SUBSET Table /\ V2Tables \in SUBSET Table
        /\ "plugin_signature_nonces" \notin V1Tables /\ "plugin_route_claims" \notin V2Tables
    BY RepositoryNames DEF V1Tables, V2Tables
  <1>8. EmptiesJust(DropV2, V2Tables)
    BY <1>4, <1>6, <1>7, DropsFirst, RepositoryNames DEF DropV2, V2Tables
  <1>9. EmptiesJust(DropV3, V3Tables)
    <2>1. DropV2 \in Seq(Statement)
      BY <1>8 DEF EmptiesJust
    <2>2. QED  BY <1>7, <1>8, <2>1, DropsFirst, RepositoryNames DEF DropV3, V3Tables
  <1>10. QED  BY <1>8, <1>9

\* ... and create them again, in two parts ...
LEMMA ShapesDo ==
  ASSUME RepositoryFiles, NEW shape \in Feature
  PROVE  /\ CreateShape(shape) \in Seq(Statement) /\ CreateLogs(shape) \in Seq(Statement)
         /\ \A t \in {"plugin_services", "plugin_routes"} :
              Ensures(CreateShape(shape), t, {shape})
         /\ Ensures(CreateShape(shape), "plugin_instances", {shape, "health"})
         /\ \A t \in {"plugin_audit_events", "plugin_signature_nonces"} :
              Ensures(CreateLogs(shape), t, {shape})
         /\ \A t : /\ Touches(CreateShape(shape), t) <=> t \in RegistryTables
                   /\ Touches(CreateLogs(shape), t) <=>
                        t \in {"plugin_audit_events", "plugin_signature_nonces"}
  <1>1. PICK F \in SUBSET Feature, G \in SUBSET Feature : F = {shape} /\ G = {shape, "health"}
    BY RepositoryNames
  <1>2. PICK a, b, c, d, e : /\ a = CreateTable("plugin_services", F)
                             /\ b = CreateTable("plugin_instances", G)
                             /\ c = CreateTable("plugin_routes", F)
                             /\ d = CreateTable("plugin_audit_events", F)
                             /\ e = CreateTable("plugin_signature_nonces", F)
    OBVIOUS
  <1>3. /\ a \in Statement /\ a.table = "plugin_services"
        /\ b \in Statement /\ b.table = "plugin_instances"
        /\ c \in Statement /\ c.table = "plugin_routes"
        /\ d \in Statement /\ d.table = "plugin_audit_events"
        /\ e \in Statement /\ e.table = "plugin_signature_nonces"
    BY <1>1, <1>2, RepositoryNames, CreateIs
  <1>4. PICK f, g : f = CreateShape(shape) /\ g = CreateLogs(shape)
    OBVIOUS
  <1>5. f = <<a, b, c>> /\ g = <<d, e>>
    BY <1>1, <1>2, <1>4 DEF CreateShape, CreateLogs
  <1>6. /\ f \in Seq(Statement) /\ \A s \in {a, b, c} : Does(f, s)
        /\ \A t : Touches(f, t) <=> t \in {a.table, b.table, c.table}
    BY <1>3, <1>5, ThreeOnce
  <1>7. /\ g \in Seq(Statement) /\ Does(g, d) /\ Does(g, e)
        /\ \A t : Touches(g, t) <=> t \in {d.table, e.table}
    BY <1>3, <1>5, TwoOnce
  <1>8. /\ Ensures(f, "plugin_services", F) /\ Ensures(f, "plugin_instances", G)
        /\ Ensures(f, "plugin_routes", F)
    BY <1>1, <1>2, <1>6, RepositoryNames, CreateIs
  <1>9. Ensures(g, "plugin_audit_events", F) /\ Ensures(g, "plugin_signature_nonces", F)
    BY <1>1, <1>2, <1>7, RepositoryNames, CreateIs
  <1>10. \A t : /\ Touches(f, t) <=> t \in RegistryTables
                /\ Touches(g, t) <=> t \in {"plugin_audit_events", "plugin_signature_nonces"}
    BY <1>3, <1>6, <1>7 DEF RegistryTables
  <1>11. QED  BY <1>1, <1>4, <1>6, <1>7, <1>8, <1>9, <1>10

\* ... and, for v3, with the claims.
LEMMA ClaimsDo ==
  ASSUME RepositoryFiles
  PROVE  LET f == <<CreateTable("plugin_route_claims", {"v3"})>>
         IN  /\ f \in Seq(Statement) /\ Ensures(f, "plugin_route_claims", {"v3"})
             /\ \A t : Touches(f, t) <=> t = "plugin_route_claims"
  <1>1. PICK F \in SUBSET Feature : F = {"v3"}
    BY RepositoryNames
  <1>2. PICK a \in Statement :
          a = CreateTable("plugin_route_claims", F) /\ a.table = "plugin_route_claims"
    BY RepositoryNames, CreateIs
  <1>3. PICK f \in Seq(Statement) :
          /\ f = <<a>> /\ Does(f, a) /\ \A t : Touches(f, t) <=> t = "plugin_route_claims"
    BY <1>2, OneOnce
  <1>4. Ensures(f, "plugin_route_claims", F)
    BY <1>1, <1>2, <1>3, RepositoryNames, CreateIs
  <1>5. f = <<CreateTable("plugin_route_claims", {"v3"})>>
    BY <1>1, <1>2, <1>3
  <1>6. QED  BY <1>1, <1>3, <1>4, <1>5

\* V2Down creates the tables of v1 again.
CreateV1 == << CreateIfNotExists("plugin_services", {"v1"}),
               CreateIfNotExists("plugin_instances", {"v1", "health", "health_index"}),
               CreateIfNotExists("plugin_routes", {"v1"}),
               CreateIfNotExists("plugin_audit_events", {"v1"}) >>

LEMMA CreateV1Does ==
  ASSUME RepositoryFiles
  PROVE  /\ CreateV1 \in Seq(Statement)
         /\ \A t \in {"plugin_services", "plugin_routes", "plugin_audit_events"} :
              Ensures(CreateV1, t, {"v1"})
         /\ Ensures(CreateV1, "plugin_instances", {"v1", "health", "health_index"})
         /\ \A t : Touches(CreateV1, t) <=> t \in V1Tables
  <1>1. PICK F \in SUBSET Feature, G \in SUBSET Feature :
          F = {"v1"} /\ G = {"v1", "health", "health_index"}
    <2>1. {"v1"} \in SUBSET Feature /\ {"v1", "health", "health_index"} \in SUBSET Feature
      BY RepositoryNames
    <2>2. QED  BY <2>1
  <1>2. PICK a, b, c, d : /\ a = CreateIfNotExists("plugin_services", F)
                          /\ b = CreateIfNotExists("plugin_instances", G)
                          /\ c = CreateIfNotExists("plugin_routes", F)
                          /\ d = CreateIfNotExists("plugin_audit_events", F)
    OBVIOUS
  <1>3. /\ a \in Statement /\ a.table = "plugin_services"
        /\ b \in Statement /\ b.table = "plugin_instances"
        /\ c \in Statement /\ c.table = "plugin_routes"
        /\ d \in Statement /\ d.table = "plugin_audit_events"
    BY <1>1, <1>2, RepositoryNames, CreateIs
  <1>4. CreateV1 = <<a, b, c, d>>
    BY <1>1, <1>2 DEF CreateV1
  <1>5. /\ CreateV1 \in Seq(Statement) /\ \A s \in {a, b, c, d} : Does(CreateV1, s)
        /\ \A t : Touches(CreateV1, t) <=> t \in {a.table, b.table, c.table, d.table}
    BY <1>3, <1>4, FourOnce
  <1>6. /\ Ensures(CreateV1, "plugin_services", F) /\ Ensures(CreateV1, "plugin_instances", G)
        /\ Ensures(CreateV1, "plugin_routes", F) /\ Ensures(CreateV1, "plugin_audit_events", F)
    BY <1>1, <1>2, <1>5, RepositoryNames, CreateIs
  <1>7. \A t : Touches(CreateV1, t) <=> t \in V1Tables
    BY <1>3, <1>5 DEF V1Tables
  <1>8. QED  BY <1>1, <1>5, <1>6, <1>7

\* The tables of T are dropped, and those of the plugin registry created again.
Reshapes(g, shape, T) ==
  /\ g \in Seq(Statement)
  /\ \A t \in {"plugin_services", "plugin_routes"} : Rebuilds(g, t, {shape})
  /\ Rebuilds(g, "plugin_instances", {shape, "health"})
  /\ \A t \in T \ RegistryTables : Empties(g, t)
  /\ \A t : Touches(g, t) <=> t \in T

\* Dropped first, the tables of the registry are rebuilt, ...
LEMMA ShapesRebuild ==
  ASSUME RepositoryFiles, NEW shape \in Feature, NEW f \in Seq(Statement),
         NEW T \in SUBSET Table, EmptiesJust(f, T), V2Tables \subseteq T,
         NEW g, g = f \o CreateShape(shape)
  PROVE  Reshapes(g, shape, T)
  <1>1. PICK c \in Seq(Statement) :
          /\ c = CreateShape(shape) /\ g = f \o c
          /\ \A t \in {"plugin_services", "plugin_routes"} : Ensures(c, t, {shape})
          /\ Ensures(c, "plugin_instances", {shape, "health"})
          /\ \A t : Touches(c, t) <=> t \in RegistryTables
    BY ShapesDo
  <1>2. RegistryTables \subseteq T
    BY DEF RegistryTables, V2Tables, V1Tables
  <1>3. PICK F \in SUBSET Feature, G \in SUBSET Feature : F = {shape} /\ G = {shape, "health"}
    BY RepositoryNames
  <1>4. ASSUME NEW t \in {"plugin_services", "plugin_routes"} PROVE Rebuilds(f \o c, t, F)
    <2>1. t \in Table /\ Empties(f, t) /\ Ensures(c, t, F)
      BY <1>1, <1>2, <1>3 DEF RegistryTables, EmptiesJust
    <2>2. QED  BY <1>1, <1>3, <2>1, FillsOn
  <1>5. Rebuilds(f \o c, "plugin_instances", G)
    <2>1. PICK t \in Table : /\ t = "plugin_instances"
                             /\ Empties(f, t) /\ Ensures(c, t, G)
      BY <1>1, <1>2, <1>3 DEF RegistryTables, EmptiesJust
    <2>2. Rebuilds(f \o c, t, G)
      BY <1>1, <1>3, <2>1, FillsOn
    <2>3. QED  BY <2>1, <2>2
  <1>6. ASSUME NEW t \in T \ RegistryTables PROVE Empties(f \o c, t)
    <2>1. t \in Table /\ Empties(f, t) /\ ~Touches(c, t)
      BY <1>1 DEF EmptiesJust
    <2>2. QED  BY <1>1, <1>3, <2>1, FillsOn
  <1>7. ASSUME NEW t PROVE Touches(f \o c, t) <=> t \in T
    <2>1. Touches(f \o c, t) <=> Touches(f, t) \/ Touches(c, t)
      BY <1>1, TouchesOn
    <2>2. QED  BY <1>1, <1>2, <2>1 DEF EmptiesJust
  <1>8. f \o c \in Seq(Statement)
    BY <1>1
  <1>9. QED  BY <1>1, <1>3, <1>4, <1>5, <1>6, <1>7, <1>8 DEF Reshapes

\* g is f, and then creates the tables of the logs.
Logs(f, g, shape) ==
  /\ g \in Seq(Statement)
  /\ \A t \in {"plugin_audit_events", "plugin_signature_nonces"} : Rebuilds(g, t, {shape})
  /\ \A t \in Table \ {"plugin_audit_events", "plugin_signature_nonces"} :
       /\ Empties(f, t) => Empties(g, t)
       /\ \A F \in SUBSET Feature : Rebuilds(f, t, F) => Rebuilds(g, t, F)
       /\ Touches(g, t) <=> Touches(f, t)

\* ... and so are those of the logs.
LEMMA LogsRebuild ==
  ASSUME RepositoryFiles, NEW shape \in Feature, NEW f \in Seq(Statement),
         Empties(f, "plugin_audit_events"), Empties(f, "plugin_signature_nonces"),
         NEW g, g = f \o CreateLogs(shape)
  PROVE  Logs(f, g, shape)
  <1>1. PICK c \in Seq(Statement) :
          /\ c = CreateLogs(shape) /\ g = f \o c
          /\ \A t \in {"plugin_audit_events", "plugin_signature_nonces"} : Ensures(c, t, {shape})
          /\ \A t : Touches(c, t) <=> t \in {"plugin_audit_events", "plugin_signature_nonces"}
    BY ShapesDo
  <1>2. PICK F \in SUBSET Feature : F = {shape}
    OBVIOUS
  <1>3. ASSUME NEW t \in {"plugin_audit_events", "plugin_signature_nonces"}
        PROVE  Rebuilds(f \o c, t, F)
    <2>1. t \in Table /\ Empties(f, t) /\ Ensures(c, t, F)
      BY <1>1, <1>2, RepositoryNames
    <2>2. QED  BY <1>1, <1>2, <2>1, FillsOn
  <1>4. ASSUME NEW t \in Table \ {"plugin_audit_events", "plugin_signature_nonces"}
        PROVE  /\ Empties(f, t) => Empties(f \o c, t)
               /\ \A G \in SUBSET Feature : Rebuilds(f, t, G) => Rebuilds(f \o c, t, G)
               /\ Touches(f \o c, t) <=> Touches(f, t)
    <2>1. t \in Table /\ ~Touches(c, t)
      BY <1>1
    <2>2. Touches(f \o c, t) <=> Touches(f, t) \/ Touches(c, t)
      BY <1>1, TouchesOn
    <2>3. Empties(f, t) => Empties(f \o c, t)
      BY <1>1, <1>2, <2>1, FillsOn
    <2>4. \A G \in SUBSET Feature : Rebuilds(f, t, G) => Rebuilds(f \o c, t, G)
      BY <1>1, <2>1, FillsOn
    <2>5. QED  BY <2>1, <2>2, <2>3, <2>4
  <1>5. f \o c \in Seq(Statement)
    BY <1>1
  <1>6. QED  BY <1>1, <1>2, <1>3, <1>4, <1>5 DEF Logs

\* What v2 and v3 do to the tables.
Remakes(f, shape, T) ==
  /\ f \in Seq(Statement)
  /\ \A t \in {"plugin_services", "plugin_routes", "plugin_audit_events",
               "plugin_signature_nonces"} : Rebuilds(f, t, {shape})
  /\ Rebuilds(f, "plugin_instances", {shape, "health"})
  /\ \A t \in Table : Touches(f, t) <=> t \in T

\* Both after the drops: what V2Up and V3Down are.
LEMMA RemakesShapes ==
  ASSUME RepositoryFiles, NEW shape \in Feature, NEW f \in Seq(Statement),
         NEW T \in SUBSET Table, EmptiesJust(f, T), V2Tables \subseteq T,
         NEW h, h = f \o CreateShape(shape) \o CreateLogs(shape)
  PROVE  /\ Remakes(h, shape, T)
         /\ \A t \in T \ V2Tables : Empties(h, t)
  <1>1. PICK g : g = f \o CreateShape(shape)
    OBVIOUS
  <1>2. Reshapes(g, shape, T)
    BY <1>1, ShapesRebuild
  <1>3. /\ "plugin_audit_events" \in T \ RegistryTables
        /\ "plugin_signature_nonces" \in T \ RegistryTables
        /\ T \ V2Tables \subseteq
             (T \ RegistryTables) \ {"plugin_audit_events", "plugin_signature_nonces"}
    BY DEF RegistryTables, V2Tables, V1Tables
  <1>4. Logs(g, h, shape)
    <2>1. /\ g \in Seq(Statement) /\ h = g \o CreateLogs(shape)
          /\ Empties(g, "plugin_audit_events") /\ Empties(g, "plugin_signature_nonces")
      BY <1>1, <1>2, <1>3 DEF Reshapes
    <2>2. QED  BY <2>1, LogsRebuild
  <1>5. {shape} \in SUBSET Feature /\ {shape, "health"} \in SUBSET Feature
    BY RepositoryNames
  <1>6. /\ \A t \in {"plugin_services", "plugin_routes"} : Rebuilds(h, t, {shape})
        /\ Rebuilds(h, "plugin_instances", {shape, "health"})
    BY <1>2, <1>4, <1>5, RepositoryNames DEF Reshapes, Logs
  <1>7. ASSUME NEW t \in {"plugin_audit_events", "plugin_signature_nonces"}
        PROVE  Touches(h, t) /\ t \in T
    BY <1>3, <1>4 DEF Logs, Rebuilds, Makes
  <1>8. \A t \in Table : Touches(h, t) <=> t \in T
    BY <1>2, <1>4, <1>7 DEF Reshapes, Logs
  <1>9. \A t \in T \ V2Tables : Empties(h, t)
    BY <1>2, <1>3, <1>4 DEF Reshapes, Logs
  <1>10. QED  BY <1>4, <1>6, <1>8, <1>9 DEF Logs, Remakes

\* What the files of v2 and v3 do: V2Up and V3Down, ...
LEMMA ShapeFilesDo ==
  ASSUME RepositoryFiles
  PROVE  /\ Remakes(V2Up, "v2", V2Tables)
         /\ Remakes(V3Down, "v2", V3Tables) /\ Empties(V3Down, "plugin_route_claims")
  <1>1. /\ EmptiesJust(DropV2, V2Tables) /\ EmptiesJust(DropV3, V3Tables)
        /\ DropV2 \in Seq(Statement) /\ DropV3 \in Seq(Statement)
    BY DropsDo DEF EmptiesJust
  <1>2. /\ V2Tables \in SUBSET Table /\ V3Tables \in SUBSET Table
        /\ V2Tables \subseteq V3Tables /\ "plugin_route_claims" \in V3Tables \ V2Tables
    BY RepositoryNames DEF V1Tables, V2Tables, V3Tables
  <1>3. "v2" \in Feature
    BY RepositoryNames
  <1>4. Remakes(V2Up, "v2", V2Tables)
    BY <1>1, <1>2, <1>3, RemakesShapes DEF V2Up
  <1>5. /\ Remakes(V3Down, "v2", V3Tables)
        /\ \A t \in V3Tables \ V2Tables : Empties(V3Down, t)
    BY <1>1, <1>2, <1>3, RemakesShapes DEF V3Down
  <1>6. QED  BY <1>2, <1>4, <1>5

\* ... V3Up, with the claims between the two parts, ...
LEMMA V3UpDoes ==
  ASSUME RepositoryFiles
  PROVE  Remakes(V3Up, "v3", V3Tables) /\ Rebuilds(V3Up, "plugin_route_claims", {"v3"})
  <1>1. EmptiesJust(DropV3, V3Tables) /\ DropV3 \in Seq(Statement)
    BY DropsDo DEF EmptiesJust
  <1>2. /\ V3Tables \in SUBSET Table /\ V2Tables \subseteq V3Tables /\ "v3" \in Feature
        /\ {"v3"} \in SUBSET Feature /\ {"v3", "health"} \in SUBSET Feature
    BY RepositoryNames DEF V1Tables, V2Tables, V3Tables
  <1>3. PICK f : f = DropV3 \o CreateShape("v3")
    OBVIOUS
  <1>4. Reshapes(f, "v3", V3Tables)
    BY <1>1, <1>2, <1>3, ShapesRebuild
  <1>5. f \in Seq(Statement)
    BY <1>4 DEF Reshapes
  <1>6. PICK c \in Seq(Statement) :
          /\ c = <<CreateTable("plugin_route_claims", {"v3"})>>
          /\ Ensures(c, "plugin_route_claims", {"v3"})
          /\ \A t : Touches(c, t) <=> t = "plugin_route_claims"
    BY ClaimsDo
  <1>7. PICK g \in Seq(Statement) : g = f \o c
    <2>1. f \o c \in Seq(Statement)
      BY <1>5, <1>6
    <2>2. QED  BY <2>1
  <1>8. Rebuilds(g, "plugin_route_claims", {"v3"})
    <2>1. PICK t \in Table : t = "plugin_route_claims"
      BY RepositoryNames
    <2>2. t \in V3Tables \ RegistryTables
      BY <2>1 DEF V3Tables, RegistryTables
    <2>3. Empties(f, t) /\ Ensures(c, t, {"v3"})
      BY <1>4, <1>6, <2>1, <2>2 DEF Reshapes
    <2>4. Rebuilds(f \o c, t, {"v3"})
      BY <1>2, <1>5, <1>6, <2>3, FillsOn
    <2>5. QED  BY <1>7, <2>1, <2>4
  <1>9. ASSUME NEW t \in Table, t # "plugin_route_claims"
        PROVE  /\ Empties(f, t) => Empties(g, t)
               /\ \A F \in SUBSET Feature : Rebuilds(f, t, F) => Rebuilds(g, t, F)
               /\ Touches(g, t) <=> Touches(f, t)
    <2>1. ~Touches(c, t)
      BY <1>6, <1>9
    <2>2. Touches(f \o c, t) <=> Touches(f, t) \/ Touches(c, t)
      <3>1. f \in Seq(Statement) /\ c \in Seq(Statement)
        BY <1>5
      <3>2. QED  BY <3>1, TouchesOn
    <2>3. Empties(f, t) => Empties(f \o c, t)
      <3>1. PICK F \in SUBSET Feature : F = {}
        OBVIOUS
      <3>2. \A G \in SUBSET Feature : Empties(f, t) => Empties(f \o c, t)
        BY <1>5, <1>6, <2>1, FillsOn
      <3>3. QED  BY <3>1, <3>2
    <2>4. \A F \in SUBSET Feature : Rebuilds(f, t, F) => Rebuilds(f \o c, t, F)
      BY <1>5, <1>6, <2>1, FillsOn
    <2>5. QED  BY <1>7, <2>1, <2>2, <2>3, <2>4
  <1>10. Logs(g, V3Up, "v3")
    <2>1. /\ "plugin_audit_events" \in V3Tables \ RegistryTables
          /\ "plugin_signature_nonces" \in V3Tables \ RegistryTables
      BY DEF RegistryTables, V3Tables, V2Tables, V1Tables
    <2>2. Empties(f, "plugin_audit_events") /\ Empties(f, "plugin_signature_nonces")
      BY <1>4, <2>1 DEF Reshapes
    <2>3. Empties(g, "plugin_audit_events") /\ Empties(g, "plugin_signature_nonces")
      BY <1>9, <2>2, RepositoryNames
    <2>4. V3Up = g \o CreateLogs("v3")
      BY <1>3, <1>6, <1>7 DEF V3Up
    <2>5. QED  BY <1>2, <2>3, <2>4, LogsRebuild
  <1>11. /\ \A t \in {"plugin_services", "plugin_routes"} : Rebuilds(g, t, {"v3"})
         /\ Rebuilds(g, "plugin_instances", {"v3", "health"})
    BY <1>2, <1>4, <1>9, RepositoryNames DEF Reshapes
  <1>12. /\ \A t \in {"plugin_services", "plugin_routes", "plugin_route_claims"} :
              Rebuilds(V3Up, t, {"v3"})
         /\ Rebuilds(V3Up, "plugin_instances", {"v3", "health"})
    BY <1>2, <1>8, <1>10, <1>11, RepositoryNames DEF Logs
  <1>13. \A t \in Table : Touches(V3Up, t) <=> t \in V3Tables
    <2>1. \A t \in {"plugin_audit_events", "plugin_signature_nonces", "plugin_route_claims"} :
            Touches(V3Up, t) /\ t \in V3Tables
      BY <1>10, <1>12 DEF Logs, Rebuilds, Makes, V3Tables, V2Tables, V1Tables
    <2>2. ASSUME NEW t \in Table, t \notin {"plugin_audit_events", "plugin_signature_nonces",
                                            "plugin_route_claims"}
          PROVE  Touches(V3Up, t) <=> t \in V3Tables
      <3>1. Touches(V3Up, t) <=> Touches(g, t)
        BY <1>10, <2>2 DEF Logs
      <3>2. Touches(g, t) <=> Touches(f, t)
        BY <1>9, <2>2
      <3>3. QED  BY <1>4, <3>1, <3>2 DEF Reshapes
    <2>3. QED  BY <2>1, <2>2
  <1>14. QED  BY <1>10, <1>12, <1>13 DEF Logs, Remakes

\* ... and V2Down.
LEMMA V2DownDoes ==
  ASSUME RepositoryFiles
  PROVE  /\ V2Down \in Seq(Statement)
         /\ \A t \in {"plugin_services", "plugin_routes", "plugin_audit_events"} :
              Rebuilds(V2Down, t, {"v1"})
         /\ Rebuilds(V2Down, "plugin_instances", {"v1", "health", "health_index"})
         /\ Empties(V2Down, "plugin_signature_nonces")
         /\ \A t : Touches(V2Down, t) <=> t \in V2Tables
  <1>1. PICK f \in Seq(Statement) : f = DropV2 /\ EmptiesJust(f, V2Tables)
    BY DropsDo DEF EmptiesJust
  <1>2. PICK c \in Seq(Statement) :
          /\ c = CreateV1
          /\ \A t \in {"plugin_services", "plugin_routes", "plugin_audit_events"} :
               Ensures(c, t, {"v1"})
          /\ Ensures(c, "plugin_instances", {"v1", "health", "health_index"})
          /\ \A t : Touches(c, t) <=> t \in V1Tables
    BY CreateV1Does
  <1>3. V2Down = f \o c
    BY <1>1, <1>2 DEF V2Down, CreateV1
  <1>4. PICK F \in SUBSET Feature, G \in SUBSET Feature :
          F = {"v1"} /\ G = {"v1", "health", "health_index"}
    <2>1. {"v1"} \in SUBSET Feature /\ {"v1", "health", "health_index"} \in SUBSET Feature
      BY RepositoryNames
    <2>2. QED  BY <2>1
  <1>5. V1Tables \subseteq V2Tables /\ V2Tables \subseteq Table
    BY RepositoryNames DEF V1Tables, V2Tables
  <1>6. ASSUME NEW t \in {"plugin_services", "plugin_routes", "plugin_audit_events"}
        PROVE  Rebuilds(f \o c, t, F)
    <2>1. t \in Table /\ t \in V2Tables
      BY <1>5 DEF V1Tables
    <2>2. Empties(f, t) /\ Ensures(c, t, F)
      BY <1>1, <1>2, <1>4, <2>1 DEF EmptiesJust
    <2>3. QED  BY <1>1, <1>2, <1>4, <2>1, <2>2, FillsOn
  <1>7. Rebuilds(f \o c, "plugin_instances", G)
    <2>1. PICK t \in Table : t = "plugin_instances" /\ t \in V2Tables
      BY <1>5 DEF V1Tables
    <2>2. Empties(f, t) /\ Ensures(c, t, G)
      BY <1>1, <1>2, <1>4, <2>1 DEF EmptiesJust
    <2>3. Rebuilds(f \o c, t, G)
      BY <1>1, <1>2, <1>4, <2>1, <2>2, FillsOn
    <2>4. QED  BY <2>1, <2>3
  <1>8. Empties(f \o c, "plugin_signature_nonces")
    <2>1. PICK t \in Table : t = "plugin_signature_nonces"
      BY RepositoryNames
    <2>2. t \in V2Tables /\ t \notin V1Tables
      BY <2>1 DEF V1Tables, V2Tables
    <2>3. Empties(f, t) /\ ~Touches(c, t)
      BY <1>1, <1>2, <2>2 DEF EmptiesJust
    <2>4. Empties(f \o c, t)
      BY <1>1, <1>2, <1>4, <2>3, FillsOn
    <2>5. QED  BY <2>1, <2>4
  <1>9. ASSUME NEW t PROVE Touches(f \o c, t) <=> t \in V2Tables
    <2>1. Touches(f \o c, t) <=> Touches(f, t) \/ Touches(c, t)
      BY <1>1, <1>2, TouchesOn
    <2>2. QED  BY <1>1, <1>2, <1>5, <2>1 DEF EmptiesJust
  <1>10. f \o c \in Seq(Statement)
    BY <1>1, <1>2
  <1>11. QED  BY <1>3, <1>4, <1>6, <1>7, <1>8, <1>9, <1>10

\* A statement, and one of the same table after it.
LEMMA RunsTwo ==
  ASSUME NEW heed \in BOOLEAN, NEW a \in Statement, NEW b \in Statement, NEW t \in Table,
         NEW P \in Values, NEW M \in Values, NEW Q \in Values,
         \A x \in P : (heed /\ Stops(t, x, a)) \/ Turned(t, x, a) \in M,
         \A x \in M : (heed /\ Stops(t, x, b)) \/ Turned(t, x, b) \in Q
  PROVE  Runs(heed, <<a>> \o <<b>>, t, P, P \cup M \cup Q, Q)
  <1>1. <<a>> \in Seq(Statement) /\ <<b>> \in Seq(Statement)
    OBVIOUS
  <1>2. Runs(heed, <<a>>, t, P, P \cup M, M) /\ Runs(heed, <<b>>, t, M, M \cup Q, Q)
    BY RunsOne
  <1>3. Runs(heed, <<a>> \o <<b>>, t, P, (P \cup M) \cup (M \cup Q), Q)
    BY <1>1, <1>2, RunsOn
  <1>4. (P \cup M) \cup (M \cup Q) = P \cup M \cup Q
    OBVIOUS
  <1>5. QED  BY <1>3, <1>4

\* Three statements can be read as one and two, or as two and one.
LEMMA ThreeInARow ==
  ASSUME NEW a \in Statement, NEW b \in Statement, NEW c \in Statement
  PROVE  /\ <<a>> \o <<b>> \o <<c>> = <<a, b, c>>
         /\ <<a>> \o (<<b>> \o <<c>>) = <<a, b, c>>
  <1>1. PICK f \in Seq(Statement) : f = <<a>> \o <<b>> \o <<c>>
    <2>1. <<a>> \o <<b>> \o <<c>> \in Seq(Statement)
      OBVIOUS
    <2>2. QED  BY <2>1
  <1>2. PICK g \in Seq(Statement) : g = <<a>> \o (<<b>> \o <<c>>)
    <2>1. <<a>> \o (<<b>> \o <<c>>) \in Seq(Statement)
      OBVIOUS
    <2>2. QED  BY <2>1
  <1>3. PICK h \in Seq(Statement) : h = <<a, b, c>>
    <2>1. <<a, b, c>> \in Seq(Statement)
      OBVIOUS
    <2>2. QED  BY <2>1
  <1>4. Len(f) = 3 /\ f[1] = a /\ f[2] = b /\ f[3] = c
    <2>1. PICK p \in Seq(Statement) :
            p = <<a>> \o <<b>> /\ Len(p) = 2 /\ p[1] = a /\ p[2] = b
      <3>1. /\ <<a>> \o <<b>> \in Seq(Statement) /\ Len(<<a>> \o <<b>>) = 2
            /\ (<<a>> \o <<b>>)[1] = a /\ (<<a>> \o <<b>>)[2] = b
        OBVIOUS
      <3>2. QED  BY <3>1
    <2>2. f = p \o <<c>>
      BY <1>1, <2>1
    <2>3. Len(p \o <<c>>) = 3
      BY <2>1
    <2>4. (p \o <<c>>)[1] = a /\ (p \o <<c>>)[2] = b /\ (p \o <<c>>)[3] = c
      BY <2>1
    <2>5. QED  BY <2>2, <2>3, <2>4
  <1>5. Len(g) = 3 /\ g[1] = a /\ g[2] = b /\ g[3] = c
    <2>1. PICK p \in Seq(Statement) :
            p = <<b>> \o <<c>> /\ Len(p) = 2 /\ p[1] = b /\ p[2] = c
      <3>1. /\ <<b>> \o <<c>> \in Seq(Statement) /\ Len(<<b>> \o <<c>>) = 2
            /\ (<<b>> \o <<c>>)[1] = b /\ (<<b>> \o <<c>>)[2] = c
        OBVIOUS
      <3>2. QED  BY <3>1
    <2>2. g = <<a>> \o p
      BY <1>2, <2>1
    <2>3. Len(<<a>> \o p) = 3
      BY <2>1
    <2>4. (<<a>> \o p)[1] = a /\ (<<a>> \o p)[2] = b /\ (<<a>> \o p)[3] = c
      BY <2>1
    <2>5. QED  BY <2>2, <2>3, <2>4
  <1>6. Len(h) = 3 /\ h[1] = a /\ h[2] = b /\ h[3] = c
    BY <1>3
  <1>7. \A i \in 1 .. 3 : f[i] = h[i] /\ g[i] = h[i]
    BY <1>4, <1>5, <1>6
  <1>8. f = h /\ g = h
    BY <1>4, <1>5, <1>6, <1>7, SeqEqual
  <1>9. QED  BY <1>1, <1>2, <1>3, <1>8

\* When ALTER TABLE is refused.
LEMMA StopsAlter ==
  ASSUME NEW t \in Table, NEW x \in SUBSET Feature, NEW s \in Statement, s.table = t
  PROVE  /\ s.op = "add" => (Stops(t, x, s) <=> x = {} \/ s.features \cap x # {})
         /\ s.op = "remove" => (Stops(t, x, s) <=> ~(s.features \subseteq x))
  BY DEF Stops, Refuses, Everywhere

\* What the file that alters the instances does to the other tables.
LEMMA HardeningDoes ==
  ASSUME RepositoryFiles
  PROVE  /\ HardeningUp \in Seq(Statement) /\ HardeningDown \in Seq(Statement)
         /\ Ensures(HardeningUp, "plugin_audit_events", {"v1"})
         /\ Empties(HardeningDown, "plugin_audit_events")
         /\ \A t : /\ Touches(HardeningUp, t) <=>
                        t \in {"plugin_audit_events", "plugin_instances"}
                   /\ Touches(HardeningDown, t) <=>
                        t \in {"plugin_audit_events", "plugin_instances"}
  <1>1. PICK F \in SUBSET Feature, G \in SUBSET Feature, H \in SUBSET Feature :
          F = {"v1"} /\ G = {"health"} /\ H = {"health_index"}
    BY RepositoryNames
  <1>2. PICK a, b, c, d : /\ a = Alter("add", G) /\ b = Alter("add", H)
                          /\ c = Alter("remove", H) /\ d = Alter("remove", G)
    OBVIOUS
  <1>3. /\ a \in Statement /\ a.table = "plugin_instances"
        /\ b \in Statement /\ b.table = "plugin_instances"
        /\ c \in Statement /\ c.table = "plugin_instances"
        /\ d \in Statement /\ d.table = "plugin_instances"
    <2>1. \A op \in {"add", "remove"}, features \in SUBSET Feature :
            /\ Alter(op, features) \in Statement
            /\ Alter(op, features).table = "plugin_instances"
      BY RepositoryNames DEF Alter, Statement
    <2>2. QED  BY <1>2, <2>1
  <1>4. PICK e, p : /\ e = CreateIfNotExists("plugin_audit_events", F)
                    /\ p = DropIfExists("plugin_audit_events")
    OBVIOUS
  <1>5. /\ e \in Statement /\ e.table = "plugin_audit_events"
        /\ p \in Statement /\ p.table = "plugin_audit_events"
    BY <1>4, RepositoryNames, CreateIs, DropIs
  <1>6. PICK f \in Seq(Statement) : f = <<a, b, e>> /\ f = HardeningUp
    <2>1. <<a, b, e>> \in Seq(Statement)
      BY <1>3, <1>5
    <2>2. HardeningUp = <<a, b, e>>
      BY <1>1, <1>2, <1>4 DEF HardeningUp
    <2>3. QED  BY <2>1, <2>2
  <1>7. PICK g \in Seq(Statement) : g = <<p, c, d>> /\ g = HardeningDown
    <2>1. <<p, c, d>> \in Seq(Statement)
      BY <1>3, <1>5
    <2>2. HardeningDown = <<p, c, d>>
      BY <1>1, <1>2, <1>4 DEF HardeningDown
    <2>3. QED  BY <2>1, <2>2
  <1>8. /\ Len(f) = 3 /\ DOMAIN f = 1 .. 3 /\ f[1] = a /\ f[2] = b /\ f[3] = e
        /\ Len(g) = 3 /\ DOMAIN g = 1 .. 3 /\ g[1] = p /\ g[2] = c /\ g[3] = d
    BY <1>6, <1>7
  <1>9. Ensures(f, "plugin_audit_events", F)
    <2>1. \A i \in 1 .. 3 : f[i].table = f[3].table => i = 3
      BY <1>3, <1>5, <1>8
    <2>2. Does(f, f[3])
      <3>1. 3 \in 1 .. Len(f) /\ \A i \in 1 .. Len(f) : f[i].table = f[3].table => i = 3
        BY <1>8, <2>1
      <3>2. QED  BY <3>1, DoesOnce
    <2>3. QED  BY <1>4, <1>8, <2>2, RepositoryNames, CreateIs
  <1>10. Empties(g, "plugin_audit_events")
    <2>1. \A i \in 1 .. 3 : g[i].table = g[1].table => i = 1
      BY <1>3, <1>5, <1>8
    <2>2. Does(g, g[1])
      <3>1. 1 \in 1 .. Len(g) /\ \A i \in 1 .. Len(g) : g[i].table = g[1].table => i = 1
        BY <1>8, <2>1
      <3>2. QED  BY <3>1, DoesOnce
    <2>3. QED  BY <1>4, <1>8, <2>2, RepositoryNames, DropIs
  <1>11. \A t : /\ Touches(f, t) <=> t \in {"plugin_audit_events", "plugin_instances"}
                /\ Touches(g, t) <=> t \in {"plugin_audit_events", "plugin_instances"}
    BY <1>3, <1>5, <1>8 DEF Touches
  <1>12. QED  BY <1>1, <1>6, <1>7, <1>9, <1>10, <1>11

\* The instances before and after the health columns are added, or removed: the database
\* refuses to add them twice, and to remove what is not there.
LEMMA HardeningInstances ==
  ASSUME RepositoryFiles, NEW P, P = {{"v1"}, {"v1", "health"}, {"v1", "health", "health_index"}},
         NEW A, A = P \cup {{}, {"v2", "health"}, {"v3", "health"}}
  PROVE  /\ Runs(FALSE, HardeningUp, "plugin_instances", P, P,
                 {{"v1", "health", "health_index"}})
         /\ Runs(TRUE, HardeningUp, "plugin_instances", A, A,
                 {{"v1", "health", "health_index"}})
         /\ Runs(TRUE, HardeningDown, "plugin_instances", A, A, {{"v1"}})
  <1>1. PICK F \in SUBSET Feature, G \in SUBSET Feature, H \in SUBSET Feature :
          F = {"v1"} /\ G = {"health"} /\ H = {"health_index"}
    BY RepositoryNames
  <1>2. PICK t \in Table : t = "plugin_instances"
    BY RepositoryNames
  <1>3. \A op \in {"add", "remove"}, features \in SUBSET Feature :
          /\ Alter(op, features) \in Statement /\ Alter(op, features).table = t
          /\ Alter(op, features).op = op /\ Alter(op, features).features = features
    BY <1>2 DEF Alter, Statement
  <1>4. PICK a \in Statement, b \in Statement, c \in Statement, d \in Statement :
          /\ a = Alter("add", G) /\ b = Alter("add", H)
          /\ c = Alter("remove", H) /\ d = Alter("remove", G)
          /\ a.table = t /\ b.table = t /\ c.table = t /\ d.table = t
          /\ a.op = "add" /\ b.op = "add" /\ c.op = "remove" /\ d.op = "remove"
          /\ a.features = G /\ b.features = H /\ c.features = H /\ d.features = G
    BY <1>3
  <1>5. PICK e, p : /\ e = CreateIfNotExists("plugin_audit_events", F)
                    /\ p = DropIfExists("plugin_audit_events")
    OBVIOUS
  <1>6. /\ e \in Statement /\ e.table = "plugin_audit_events"
        /\ p \in Statement /\ p.table = "plugin_audit_events"
    BY <1>5, RepositoryNames, CreateIs, DropIs
  <1>7. PICK x1 \in SUBSET Feature, x2 \in SUBSET Feature, x3 \in SUBSET Feature,
             y \in SUBSET Feature, z \in SUBSET Feature :
          /\ x1 = {"v1"} /\ x2 = {"v1", "health"} /\ x3 = {"v1", "health", "health_index"}
          /\ y = {"v2", "health"} /\ z = {"v3", "health"}
    <2>1. /\ {"v1"} \in SUBSET Feature /\ {"v1", "health"} \in SUBSET Feature
          /\ {"v1", "health", "health_index"} \in SUBSET Feature
          /\ {"v2", "health"} \in SUBSET Feature /\ {"v3", "health"} \in SUBSET Feature
      BY RepositoryNames
    <2>2. QED  BY <2>1
  <1>8. P = {x1, x2, x3} /\ A = {x1, x2, x3, {}, y, z} /\ P \in Values /\ A \in Values
    BY <1>7 DEF Values
  <1>9. /\ x1 \cup G = x2 /\ x2 \cup G = x2 /\ x3 \cup G = x3
        /\ x2 \cup H = x3 /\ x3 \cup H = x3
        /\ x3 \ H = x2 /\ x2 \ G = x1
        /\ G \cap x2 # {} /\ G \cap x3 # {} /\ G \cap y # {} /\ G \cap z # {}
        /\ ~(H \subseteq x1) /\ ~(H \subseteq x2) /\ ~(H \subseteq {})
        /\ ~(H \subseteq y) /\ ~(H \subseteq z)
    BY <1>1, <1>7
  <1>10. /\ \A x \in SUBSET Feature :
              /\ Turned(t, x, a) = x \cup G /\ Turned(t, x, b) = x \cup H
              /\ Turned(t, x, c) = x \ H /\ Turned(t, x, d) = x \ G
              /\ x = {} \/ G \cap x # {} => Stops(t, x, a)
              /\ ~(H \subseteq x) => Stops(t, x, c)
    BY <1>4, TurnedAdd, TurnedRemove, StopsAlter
  <1>11. /\ Turned(t, x1, a) = x2 /\ Turned(t, x2, a) = x2 /\ Turned(t, x3, a) = x3
         /\ Turned(t, x2, b) = x3 /\ Turned(t, x3, b) = x3
         /\ Turned(t, x3, c) = x2 /\ Turned(t, x2, d) = x1
    BY <1>9, <1>10
  <1>12. /\ Stops(t, {}, a) /\ Stops(t, x2, a) /\ Stops(t, x3, a)
         /\ Stops(t, y, a) /\ Stops(t, z, a)
         /\ Stops(t, {}, c) /\ Stops(t, x1, c) /\ Stops(t, x2, c)
         /\ Stops(t, y, c) /\ Stops(t, z, c)
    BY <1>9, <1>10
  <1>13. {x2, x3} \in Values /\ {x1} \in Values /\ {x2} \in Values /\ {x3} \in Values
    BY DEF Values
  <1>14. Runs(FALSE, <<a>> \o <<b>>, t, P, P \cup {x2, x3} \cup {x3}, {x3})
    <2>1. /\ \A x \in P : Turned(t, x, a) \in {x2, x3}
          /\ \A x \in {x2, x3} : Turned(t, x, b) \in {x3}
      BY <1>8, <1>11
    <2>2. QED  BY <1>8, <1>13, <2>1, RunsTwo
  <1>15. Runs(TRUE, <<a>> \o <<b>>, t, A, A \cup {x2} \cup {x3}, {x3})
    <2>1. ASSUME NEW x \in A PROVE Stops(t, x, a) \/ Turned(t, x, a) \in {x2}
      <3>1. x = x1 \/ x = x2 \/ x = x3 \/ x = {} \/ x = y \/ x = z
        BY <1>8, <2>1
      <3>2. QED  BY <1>11, <1>12, <3>1
    <2>2. \A x \in {x2} : Turned(t, x, b) \in {x3}
      BY <1>11
    <2>3. QED  BY <1>8, <1>13, <2>1, <2>2, RunsTwo
  <1>16. Runs(TRUE, <<c>> \o <<d>>, t, A, A \cup {x2} \cup {x1}, {x1})
    <2>1. ASSUME NEW x \in A PROVE Stops(t, x, c) \/ Turned(t, x, c) \in {x2}
      <3>1. x = x1 \/ x = x2 \/ x = x3 \/ x = {} \/ x = y \/ x = z
        BY <1>8, <2>1
      <3>2. QED  BY <1>11, <1>12, <3>1
    <2>2. \A x \in {x2} : Turned(t, x, d) \in {x1}
      BY <1>11
    <2>3. QED  BY <1>8, <1>13, <2>1, <2>2, RunsTwo
  <1>17. /\ Runs(FALSE, <<a>> \o <<b>>, t, P, P, {x3})
         /\ Runs(TRUE, <<a>> \o <<b>>, t, A, A, {x3})
         /\ Runs(TRUE, <<c>> \o <<d>>, t, A, A, {x1})
    <2>1. P \cup {x2, x3} \cup {x3} = P
      BY <1>8
    <2>2. A \cup {x2} \cup {x3} = A
      BY <1>8
    <2>3. A \cup {x2} \cup {x1} = A
      BY <1>8
    <2>4. Runs(FALSE, <<a>> \o <<b>>, t, P, P, {x3})
      BY <1>14, <2>1
    <2>5. Runs(TRUE, <<a>> \o <<b>>, t, A, A, {x3})
      BY <1>15, <2>2
    <2>6. Runs(TRUE, <<c>> \o <<d>>, t, A, A, {x1})
      BY <1>16, <2>3
    <2>7. QED  BY <2>4, <2>5, <2>6
  <1>18. PICK f \in Seq(Statement), g \in Seq(Statement), h \in Seq(Statement),
              k \in Seq(Statement) :
           /\ f = <<a>> \o <<b>> /\ g = <<e>> /\ h = <<p>> /\ k = <<c>> \o <<d>>
    <2>1. /\ <<a>> \o <<b>> \in Seq(Statement) /\ <<e>> \in Seq(Statement)
          /\ <<p>> \in Seq(Statement) /\ <<c>> \o <<d>> \in Seq(Statement)
      BY <1>6
    <2>2. QED  BY <2>1
  <1>19. ~Touches(g, t) /\ ~Touches(h, t)
    BY <1>2, <1>6, <1>18, OneOnce
  <1>20. HardeningUp = f \o g
    <2>1. HardeningUp = <<a, b, e>>
      BY <1>1, <1>4, <1>5 DEF HardeningUp
    <2>2. <<a>> \o <<b>> \o <<e>> = <<a, b, e>>
      BY <1>6, ThreeInARow
    <2>3. QED  BY <1>18, <2>1, <2>2
  <1>21. HardeningDown = h \o k
    <2>1. HardeningDown = <<p, c, d>>
      BY <1>1, <1>4, <1>5 DEF HardeningDown
    <2>2. <<p>> \o (<<c>> \o <<d>>) = <<p, c, d>>
      BY <1>6, ThreeInARow
    <2>3. QED  BY <1>18, <2>1, <2>2
  <1>22. Runs(FALSE, f \o g, t, P, P \cup {x3}, {x3})
    <2>1. Runs(FALSE, g, t, {x3}, {x3}, {x3})
      BY <1>13, <1>19, KeepsRuns
    <2>2. Runs(FALSE, f, t, P, P, {x3})
      BY <1>17, <1>18
    <2>3. QED  BY <2>1, <2>2, RunsOn
  <1>23. Runs(TRUE, f \o g, t, A, A \cup {x3}, {x3})
    <2>1. Runs(TRUE, g, t, {x3}, {x3}, {x3})
      BY <1>13, <1>19, KeepsRuns
    <2>2. Runs(TRUE, f, t, A, A, {x3})
      BY <1>17, <1>18
    <2>3. QED  BY <2>1, <2>2, RunsOn
  <1>24. Runs(TRUE, h \o k, t, A, A \cup A, {x1})
    <2>1. Runs(TRUE, h, t, A, A, A)
      BY <1>8, <1>19, KeepsRuns
    <2>2. Runs(TRUE, k, t, A, A, {x1})
      BY <1>17, <1>18
    <2>3. QED  BY <2>1, <2>2, RunsOn
  <1>25. P \cup {x3} = P /\ A \cup {x3} = A /\ A \cup A = A
    BY <1>8
  <1>26. /\ Runs(FALSE, HardeningUp, t, P, P, {x3})
         /\ Runs(TRUE, HardeningUp, t, A, A, {x3})
         /\ Runs(TRUE, HardeningDown, t, A, A, {x1})
    <2>1. Runs(FALSE, HardeningUp, t, P, P, {x3})
      <3>1. P \cup {x3} = P
        BY <1>25
      <3>2. Runs(FALSE, HardeningUp, t, P, P \cup {x3}, {x3})
        BY <1>20, <1>22
      <3>3. QED  BY <3>1, <3>2
    <2>2. Runs(TRUE, HardeningUp, t, A, A, {x3})
      <3>1. A \cup {x3} = A
        BY <1>25
      <3>2. Runs(TRUE, HardeningUp, t, A, A \cup {x3}, {x3})
        BY <1>20, <1>23
      <3>3. QED  BY <3>1, <3>2
    <2>3. Runs(TRUE, HardeningDown, t, A, A, {x1})
      <3>1. A \cup A = A
        OBVIOUS
      <3>2. Runs(TRUE, HardeningDown, t, A, A \cup A, {x1})
        BY <1>21, <1>24
      <3>3. QED  BY <3>1, <3>2
    <2>4. QED  BY <2>1, <2>2, <2>3
  <1>27. QED  BY <1>2, <1>7, <1>26

\* The up file takes the table from P to Q, and from any of A to one of A; the down file takes
\* it from any of A to one of P, unless it leaves alone what is right in any case.
UpFits(f, t, P, Q, A) == Runs(FALSE, f, t, P, P, Q) /\ Runs(TRUE, f, t, A, A, A)

DownFits(f, t, A, P, Q) == IF Touches(f, t) THEN Runs(TRUE, f, t, A, A, P) ELSE Q \subseteq P

\* Files that fit: an up file that does not name the table, ensures it, or rebuilds it, ...
LEMMA UpPasses ==
  ASSUME NEW f \in Seq(Statement), NEW t \in Table, NEW P \in Values, NEW Q \in Values,
         NEW A \in Values, ~Touches(f, t), P \subseteq Q
  PROVE  UpFits(f, t, P, Q, A)
  <1>1. Runs(FALSE, f, t, P, P, P) /\ Runs(TRUE, f, t, A, A, A)
    BY KeepsRuns
  <1>2. Loosens(P, P, P, P, P, Q)
    BY DEF Loosens
  <1>3. Runs(FALSE, f, t, P, P, Q)
    BY <1>1, <1>2, RunsLooser
  <1>4. QED  BY <1>1, <1>3 DEF UpFits

LEMMA UpEnsures ==
  ASSUME NEW f \in Seq(Statement), NEW t \in Table, NEW P \in Values, NEW Q \in Values,
         NEW A \in Values, NEW F \in SUBSET Feature, Ensures(f, t, F),
         F \in P, F \in A, F \in Q,
         \A x \in P : x # {} => x \in Q
  PROVE  UpFits(f, t, P, Q, A)
  <1>1. \A X \in Values : F \in X =>
          \E M, R : Runs(FALSE, f, t, X, M, R) /\ M \subseteq X /\ R = (X \ {{}}) \cup {F}
    <2> SUFFICES ASSUME NEW X \in Values, F \in X
                 PROVE  \E M, R : /\ Runs(FALSE, f, t, X, M, R)
                                 /\ M \subseteq X /\ R = (X \ {{}}) \cup {F}
      OBVIOUS
    <2>1. Runs(FALSE, f, t, X, X \cup {F}, (X \ {{}}) \cup {F})
      BY DEF Ensures
    <2>2. X \cup {F} \subseteq X
      OBVIOUS
    <2>3. QED  BY <2>1, <2>2
  <1>2. PICK M, R : Runs(FALSE, f, t, P, M, R) /\ M \subseteq P /\ R = (P \ {{}}) \cup {F}
    BY <1>1
  <1>3. PICK N, S : Runs(FALSE, f, t, A, N, S) /\ N \subseteq A /\ S = (A \ {{}}) \cup {F}
    BY <1>1
  <1>4. Loosens(P, M, R, P, P, Q) /\ Loosens(A, N, S, A, A, A)
    BY <1>2, <1>3 DEF Loosens
  <1>5. Runs(FALSE, f, t, P, P, Q)
    <2>1. Runs(FALSE, f, t, P, M, R) /\ Loosens(P, M, R, P, P, Q)
      BY <1>2, <1>4
    <2>2. QED  BY <2>1, RunsLooser
  <1>6. Runs(TRUE, f, t, A, A, A)
    <2>1. Runs(FALSE, f, t, A, N, S) /\ Loosens(A, N, S, A, A, A)
      BY <1>3, <1>4
    <2>2. QED  BY <2>1, RunsLooser
  <1>7. QED  BY <1>5, <1>6 DEF UpFits

\* A file that makes the table one of Q, where what it is in between may be there before.
LEMMA MakesRuns ==
  ASSUME NEW f \in Seq(Statement), NEW t \in Table, NEW P \in Values, NEW Q \in Values,
         NEW R \in Values, NEW M \in SUBSET P, Makes(f, t, M, Q), Q \subseteq R
  PROVE  Runs(FALSE, f, t, P, P, R) /\ Runs(TRUE, f, t, P, P, R)
  <1>1. PICK N : Runs(FALSE, f, t, P, N, Q) /\ N \subseteq P
    <2>1. Runs(FALSE, f, t, P, P \cup M, Q)
      BY DEF Makes
    <2>2. P \cup M \subseteq P
      OBVIOUS
    <2>3. QED  BY <2>1, <2>2
  <1>2. Loosens(P, N, Q, P, P, R)
    BY <1>1 DEF Loosens
  <1>3. Runs(FALSE, f, t, P, P, R)
    BY <1>1, <1>2, RunsLooser
  <1>4. Runs(TRUE, f, t, P, P, R)
    BY <1>1, <1>2, RunsLooser
  <1>5. QED  BY <1>3, <1>4

LEMMA UpRebuilds ==
  ASSUME NEW f \in Seq(Statement), NEW t \in Table, NEW P \in Values, NEW Q \in Values,
         NEW A \in Values, NEW F \in SUBSET Feature, Rebuilds(f, t, F),
         {} \in P, F \in P, {} \in A, F \in A, F \in Q
  PROVE  UpFits(f, t, P, Q, A)
  <1>1. Makes(f, t, {{}, F}, {F}) /\ {F} \in Values
    BY DEF Rebuilds, Values
  <1>2. PICK M, D : /\ Makes(f, t, M, D) /\ D \in Values /\ D \subseteq Q /\ D \subseteq A
                    /\ M \in SUBSET P /\ M \in SUBSET A
    <2>1. /\ {F} \subseteq Q /\ {F} \subseteq A
          /\ {{}, F} \in SUBSET P /\ {{}, F} \in SUBSET A
      OBVIOUS
    <2>2. PICK M, D : M = {{}, F} /\ D = {F}
      OBVIOUS
    <2>3. /\ Makes(f, t, M, D) /\ D \in Values /\ D \subseteq Q /\ D \subseteq A
          /\ M \in SUBSET P /\ M \in SUBSET A
      BY <1>1, <2>1, <2>2
    <2> QED  BY <2>3
  <1>3. Runs(FALSE, f, t, P, P, Q)
    BY <1>2, MakesRuns
  <1>4. Runs(TRUE, f, t, A, A, A)
    BY <1>2, MakesRuns
  <1>5. QED  BY <1>3, <1>4 DEF UpFits

\* ... and a down file that rebuilds the table, or drops it.
LEMMA DownRebuilds ==
  ASSUME NEW f \in Seq(Statement), NEW t \in Table, NEW P \in Values, NEW Q,
         NEW A \in Values, NEW F \in SUBSET Feature,
         Rebuilds(f, t, F), {} \in A, F \in A, F \in P
  PROVE  DownFits(f, t, A, P, Q)
  <1>1. PICK M \in SUBSET A, D \in Values : Makes(f, t, M, D) /\ D \subseteq P
    <2>1. PICK M, D : M = {{}, F} /\ D = {F}
      OBVIOUS
    <2>2. M \in SUBSET A /\ D \in Values /\ D \subseteq P
      BY <2>1 DEF Values
    <2>3. Makes(f, t, M, D)
      BY <2>1 DEF Rebuilds
    <2>4. QED  BY <2>2, <2>3
  <1>2. Touches(f, t)
    BY <1>1 DEF Makes
  <1>3. Runs(TRUE, f, t, A, A, P)
    BY <1>1, MakesRuns
  <1>4. QED  BY <1>2, <1>3 DEF DownFits

LEMMA DownEmpties ==
  ASSUME NEW f \in Seq(Statement), NEW t \in Table, NEW P \in Values, NEW Q,
         NEW A \in Values, Empties(f, t), {} \in A, {} \in P
  PROVE  DownFits(f, t, A, P, Q)
  <1>1. PICK M \in SUBSET A, D \in Values : Makes(f, t, M, D) /\ D \subseteq P
    <2>1. PICK M, D : M = {{}} /\ D = {{}}
      OBVIOUS
    <2>2. M \in SUBSET A /\ D \in Values /\ D \subseteq P
      BY <2>1 DEF Values
    <2>3. Makes(f, t, M, D)
      BY <2>1 DEF Empties
    <2>4. QED  BY <2>2, <2>3
  <1>2. Touches(f, t)
    BY <1>1 DEF Makes
  <1>3. Runs(TRUE, f, t, A, A, P)
    BY <1>1, MakesRuns
  <1>4. QED  BY <1>2, <1>3 DEF DownFits

\* The table t is x in the end, and its files fit what it may be before and after them.
Fitting(t, ok, all, x) ==
  /\ all \in Values
  /\ ok \in [0 .. Newest -> SUBSET all]
  /\ {} \in ok[0] /\ ok[Newest] = {x}
  /\ \A v \in Version : /\ UpFits(UpFile[v], t, ok[v - 1], ok[v], all)
                        /\ DownFits(DownFile[v], t, all, ok[v - 1], ok[v])

\* The files build x, as each fits; and they are right for the table.
LEMMA FittingConverges ==
  ASSUME NEW t \in Table, NEW ok, NEW all, NEW x, Fitting(t, ok, all, x)
  PROVE  ConvergesAt(t, ok, all)
  <1>1. \A n \in 0 .. Newest : ok[n] \in Values /\ ok[n] \subseteq all
    BY DEF Fitting, Values
  <1>2. \A v \in Version : /\ UpFile[v] \in Seq(Statement)
                           /\ v - 1 \in 0 .. Newest /\ v \in 0 .. Newest
    BY MigrateAssumption
  <1> DEFINE Wrong == {v \in 0 .. Newest : BuiltUpTo[v][t] \notin ok[v]}
  <1>3. Wrong = {}
    <2> SUFFICES ASSUME Wrong # {} PROVE FALSE
      OBVIOUS
    <2>1. PICK v \in Wrong : \A w \in Wrong : v <= w
      <3>1. Wrong \in SUBSET Nat
        BY MigrateAssumption
      <3> HIDE DEF Wrong
      <3>2. QED  BY <3>1, Least
    <2>2. v # 0
      <3>1. BuiltUpTo[0][t] \in ok[0]
        BY BuiltDef DEF Fitting
      <3>2. BuiltUpTo[v][t] \notin ok[v]
        BY <2>1
      <3>3. QED  BY <3>1, <3>2
    <2>3. v \in Version /\ v - 1 \in 0 .. Newest /\ ~(v <= v - 1)
      BY <2>1, <2>2, MigrateAssumption
    <2>4. BuiltUpTo[v - 1][t] \in ok[v - 1] /\ BuiltUpTo[v - 1] \in Schema
      BY <2>1, <2>3, BuiltDef
    <2>5. Runs(FALSE, UpFile[v], t, ok[v - 1], ok[v - 1], ok[v])
      BY <2>3 DEF Fitting, UpFits
    <2>6. Executed(UpFile[v], BuiltUpTo[v - 1])[t] \in ok[v]
      <3>1. PICK f \in Seq(Statement), sch \in Schema : f = UpFile[v] /\ sch = BuiltUpTo[v - 1]
        BY <1>2, <2>3, <2>4
      <3>2. PICK P, Q : P = ok[v - 1] /\ Q = ok[v]
        OBVIOUS
      <3>3. Runs(FALSE, f, t, P, P, Q) /\ sch[t] \in P
        BY <2>4, <2>5, <3>1, <3>2
      <3>4. Executed(f, sch)[t] \in Q
        BY <3>3, RunsExecuted
      <3>5. QED  BY <3>1, <3>2, <3>4
    <2>7. BuiltUpTo[v][t] \in ok[v]
      BY <2>3, <2>6, BuiltDef
    <2>8. BuiltUpTo[v][t] \notin ok[v]
      BY <2>1
    <2>9. QED  BY <2>7, <2>8
  <1>4. ok[Newest] \subseteq {Built[t]}
    <2>1. Newest \in 0 .. Newest
      BY MigrateAssumption
    <2>2. BuiltUpTo[Newest][t] \in ok[Newest]
      <3>1. \A v \in 0 .. Newest : BuiltUpTo[v][t] \in ok[v]
        BY <1>3
      <3>2. QED  BY <2>1, <3>1
    <2>3. Built[t] \in ok[Newest]
      BY <2>2 DEF Built
    <2>4. QED  BY <2>3 DEF Fitting
  <1>5. ASSUME NEW v \in Version
        PROVE  /\ Runs(TRUE, UpFile[v], t, ok[v - 1], ok[v - 1], ok[v])
               /\ Runs(TRUE, UpFile[v], t, all, all, all)
               /\ IF Touches(DownFile[v], t)
                  THEN Runs(TRUE, DownFile[v], t, all, all, ok[v - 1])
                  ELSE ok[v] \subseteq ok[v - 1]
    <2>1. /\ Runs(FALSE, UpFile[v], t, ok[v - 1], ok[v - 1], ok[v])
          /\ Runs(TRUE, UpFile[v], t, all, all, all)
      BY DEF Fitting, UpFits
    <2>2. Runs(TRUE, UpFile[v], t, ok[v - 1], ok[v - 1], ok[v])
      <3>1. PICK P, Q : P = ok[v - 1] /\ Q = ok[v]
        OBVIOUS
      <3>2. PICK f \in Seq(Statement) : f = UpFile[v] /\ Runs(FALSE, f, t, P, P, Q)
        BY <1>2, <2>1, <3>1
      <3>3. Loosens(P, P, Q, P, P, Q)
        BY DEF Loosens
      <3>4. Runs(TRUE, f, t, P, P, Q)
        BY <3>2, <3>3, RunsLooser
      <3>5. QED  BY <3>1, <3>2, <3>4
    <2>3. DownFits(DownFile[v], t, all, ok[v - 1], ok[v])
      BY DEF Fitting
    <2>4. QED  BY <2>1, <2>2, <2>3 DEF DownFits
  <1>6. {} \in ok[0]
    BY DEF Fitting
  <1>7. QED  BY <1>1, <1>4, <1>5, <1>6 DEF ConvergesAt

\* Neither file of v names the table.
Untouched(v, t) == ~Touches(UpFile[v], t) /\ ~Touches(DownFile[v], t)

\* A table that one file creates, and no other names.
LEMMA CreatedOnce ==
  ASSUME NEW t \in Table, NEW b \in Version, NEW F \in SUBSET Feature,
         Ensures(UpFile[b], t, F) \/ Rebuilds(UpFile[b], t, F), Empties(DownFile[b], t),
         \A v \in Version \ {b} : Untouched(v, t)
  PROVE  \E ok, all : ConvergesAt(t, ok, all)
  <1>1. PICK E \in Values, D \in Values : E = {{}, F} /\ D = {F}
    BY DEF Values
  <1>2. PICK ok : /\ ok \in [0 .. Newest -> SUBSET E]
                  /\ \A n \in 0 .. Newest : /\ n < b => ok[n] = E
                                            /\ n >= b => ok[n] = D
    <2> DEFINE ok == [n \in 0 .. Newest |-> IF n < b THEN E ELSE D]
    <2>1. D \subseteq E
      BY <1>1
    <2>2. ok \in [0 .. Newest -> SUBSET E]
      BY <2>1
    <2>3. \A n \in 0 .. Newest : (n < b => ok[n] = E) /\ (n >= b => ok[n] = D)
      BY MigrateAssumption
    <2>4. QED  BY <2>2, <2>3
  <1>3. {} \in ok[0] /\ ok[Newest] = {F}
    <2>1. 0 \in 0 .. Newest /\ Newest \in 0 .. Newest /\ 0 < b /\ Newest >= b
      BY MigrateAssumption
    <2>2. QED  BY <1>1, <1>2, <2>1
  <1>4. ASSUME NEW v \in Version
        PROVE  /\ UpFits(UpFile[v], t, ok[v - 1], ok[v], E)
               /\ DownFits(DownFile[v], t, E, ok[v - 1], ok[v])
    <2>1. /\ UpFile[v] \in Seq(Statement) /\ DownFile[v] \in Seq(Statement)
          /\ v - 1 \in 0 .. Newest /\ v \in 0 .. Newest
      BY MigrateAssumption
    <2>2. CASE v = b
      <3>1. v - 1 < b /\ v >= b
        BY <2>2, MigrateAssumption
      <3>2. ok[v - 1] = E /\ ok[v] = D
        BY <1>2, <2>1, <3>1
      <3>3. F \in E /\ F \in D /\ {} \in E /\ \A x \in E : x # {} => x \in D
        BY <1>1
      <3>4. PICK f \in Seq(Statement), g \in Seq(Statement) :
              /\ f = UpFile[v] /\ g = DownFile[v] /\ Empties(g, t)
              /\ Ensures(f, t, F) \/ Rebuilds(f, t, F)
        BY <2>1, <2>2
      <3>5. UpFits(f, t, E, D, E)
        <4>1. CASE Ensures(f, t, F)
          BY <3>3, <4>1, UpEnsures
        <4>2. CASE Rebuilds(f, t, F)
          BY <3>3, <4>2, UpRebuilds
        <4>3. QED  BY <3>4, <4>1, <4>2
      <3>6. DownFits(g, t, E, E, D)
        BY <3>3, <3>4, DownEmpties
      <3>7. QED  BY <3>2, <3>4, <3>5, <3>6
    <2>3. CASE v # b
      <3>1. PICK P \in Values : ok[v - 1] = P /\ ok[v] = P
        <4>1. v < b \/ v > b
          BY <2>3, MigrateAssumption
        <4>2. CASE v < b
          <5>1. v - 1 < b
            BY <4>2, MigrateAssumption
          <5>2. QED  BY <1>2, <2>1, <4>2, <5>1
        <4>3. CASE v > b
          <5>1. v - 1 >= b /\ v >= b
            BY <4>3, MigrateAssumption
          <5>2. QED  BY <1>2, <2>1, <5>1
        <4>4. QED  BY <4>1, <4>2, <4>3
      <3>2. Untouched(v, t)
        BY <2>3
      <3>3. PICK f \in Seq(Statement), g \in Seq(Statement) :
              f = UpFile[v] /\ g = DownFile[v] /\ ~Touches(f, t) /\ ~Touches(g, t)
        BY <2>1, <3>2 DEF Untouched
      <3>4. UpFits(f, t, P, P, E)
        BY <3>3, UpPasses
      <3>5. DownFits(g, t, E, P, P)
        BY <3>3 DEF DownFits
      <3>6. QED  BY <3>1, <3>3, <3>4, <3>5
    <2>4. QED  BY <2>2, <2>3
  <1>5. Fitting(t, ok, E, F)
    BY <1>2, <1>3, <1>4 DEF Fitting
  <1>6. QED  BY <1>5, FittingConverges

\* Stages in one table's life, of six files.
LEMMA SixStages ==
  ASSUME Newest = 6, NEW t \in Table, NEW all \in Values, NEW x \in SUBSET Feature,
         NEW o0 \in SUBSET all, NEW o1 \in SUBSET all, NEW o2 \in SUBSET all,
         NEW o3 \in SUBSET all, NEW o4 \in SUBSET all, NEW o5 \in SUBSET all,
         {} \in o0, {x} \in SUBSET all,
         UpFits(UpFile[1], t, o0, o1, all), DownFits(DownFile[1], t, all, o0, o1),
         UpFits(UpFile[2], t, o1, o2, all), DownFits(DownFile[2], t, all, o1, o2),
         UpFits(UpFile[3], t, o2, o3, all), DownFits(DownFile[3], t, all, o2, o3),
         UpFits(UpFile[4], t, o3, o4, all), DownFits(DownFile[4], t, all, o3, o4),
         UpFits(UpFile[5], t, o4, o5, all), DownFits(DownFile[5], t, all, o4, o5),
         UpFits(UpFile[6], t, o5, {x}, all), DownFits(DownFile[6], t, all, o5, {x})
  PROVE  \E ok, al : ConvergesAt(t, ok, al)
  <1>1. PICK ok \in [0 .. 6 -> SUBSET all] :
          /\ ok[0] = o0 /\ ok[1] = o1 /\ ok[2] = o2 /\ ok[3] = o3 /\ ok[4] = o4 /\ ok[5] = o5
          /\ ok[6] = {x}
    <2> DEFINE ok == [n \in 0 .. 6 |-> IF n = 0 THEN o0 ELSE IF n = 1 THEN o1 ELSE
                        IF n = 2 THEN o2 ELSE IF n = 3 THEN o3 ELSE IF n = 4 THEN o4 ELSE
                        IF n = 5 THEN o5 ELSE {x}]
    <2>1. ok \in [0 .. 6 -> SUBSET all]
      OBVIOUS
    <2>2. /\ ok[0] = o0 /\ ok[1] = o1 /\ ok[2] = o2 /\ ok[3] = o3 /\ ok[4] = o4 /\ ok[5] = o5
          /\ ok[6] = {x}
      OBVIOUS
    <2>3. QED  BY <2>1, <2>2
  <1>2. ASSUME NEW v \in Version
        PROVE  /\ UpFits(UpFile[v], t, ok[v - 1], ok[v], all)
               /\ DownFits(DownFile[v], t, all, ok[v - 1], ok[v])
    <2>1. v = 1 \/ v = 2 \/ v = 3 \/ v = 4 \/ v = 5 \/ v = 6
      OBVIOUS
    <2>2. CASE v = 1
      <3>1. v - 1 = 0
        BY <2>2
      <3>2. QED  BY <1>1, <2>2, <3>1
    <2>3. CASE v = 2
      <3>1. v - 1 = 1
        BY <2>3
      <3>2. QED  BY <1>1, <2>3, <3>1
    <2>4. CASE v = 3
      <3>1. v - 1 = 2
        BY <2>4
      <3>2. QED  BY <1>1, <2>4, <3>1
    <2>5. CASE v = 4
      <3>1. v - 1 = 3
        BY <2>5
      <3>2. QED  BY <1>1, <2>5, <3>1
    <2>6. CASE v = 5
      <3>1. v - 1 = 4
        BY <2>6
      <3>2. QED  BY <1>1, <2>6, <3>1
    <2>7. CASE v = 6
      <3>1. v - 1 = 5
        BY <2>7
      <3>2. QED  BY <1>1, <2>7, <3>1
    <2>8. QED  BY <2>1, <2>2, <2>3, <2>4, <2>5, <2>6, <2>7
  <1>3. Fitting(t, ok, all, x)
    BY <1>1, <1>2 DEF Fitting
  <1>4. QED  BY <1>3, FittingConverges

\* Which file is which version's.
LEMMA FilesOf ==
  ASSUME RepositoryFiles
  PROVE  /\ UpFile[1] = CmsUp /\ UpFile[2] = RegistryUp /\ UpFile[3] = HardeningUp
         /\ UpFile[4] = SessionsUp /\ UpFile[5] = V2Up /\ UpFile[6] = V3Up
         /\ DownFile[1] = CmsDown /\ DownFile[2] = RegistryDown /\ DownFile[3] = HardeningDown
         /\ DownFile[4] = SessionsDown /\ DownFile[5] = V2Down /\ DownFile[6] = V3Down
         /\ Newest = 6
  BY DEF RepositoryFiles, Up, Down

\* A version whose files do not name the table fits as it is.
LEMMA Stays ==
  ASSUME NEW v \in Version, NEW t \in Table, Untouched(v, t),
         NEW all \in Values, NEW P \in SUBSET all
  PROVE  UpFits(UpFile[v], t, P, P, all) /\ DownFits(DownFile[v], t, all, P, P)
  <1>1. UpFile[v] \in Seq(Statement) /\ P \in Values
    BY MigrateAssumption DEF Values
  <1>2. UpFits(UpFile[v], t, P, P, all)
    BY <1>1, UpPasses DEF Untouched
  <1>3. DownFits(DownFile[v], t, all, P, P)
    BY DEF Untouched, DownFits
  <1>4. QED  BY <1>2, <1>3

\* The tables of the registry, created by the second or the third file, ...
LEMMA RegistryLife ==
  ASSUME Newest = 6, NEW t \in Table, NEW b \in {2, 3}, NEW A \in SUBSET Feature,
         NEW B \in SUBSET Feature, NEW C \in SUBSET Feature,
         Ensures(UpFile[b], t, A), Empties(DownFile[b], t),
         \A v \in (1 .. 4) \ {b} : Untouched(v, t),
         Rebuilds(UpFile[5], t, B), Rebuilds(DownFile[5], t, A),
         Rebuilds(UpFile[6], t, C), Rebuilds(DownFile[6], t, B)
  PROVE  \E ok, all : ConvergesAt(t, ok, all)
  <1>1. PICK all \in Values : all = {{}, A, B, C}
    BY DEF Values
  <1>2. PICK X \in SUBSET all, Y \in SUBSET all, Z \in SUBSET all, W \in SUBSET all :
          /\ X \in Values /\ Y \in Values /\ Z \in Values /\ W \in Values
          /\ X = {{}, A} /\ Y = {A, {}, B} /\ Z = {B, {}, C} /\ W = {C}
    <2>1. /\ {{}, A} \in SUBSET all /\ {A, {}, B} \in SUBSET all
          /\ {B, {}, C} \in SUBSET all /\ {C} \in SUBSET all
      BY <1>1
    <2>2. \A S \in SUBSET all : S \in Values
      BY DEF Values
    <2>3. QED  BY <2>1, <2>2
  <1>3. /\ A \in X /\ {} \in X /\ A \in Y /\ {} \in Y /\ B \in Y /\ B \in Z /\ {} \in Z /\ C \in Z
        /\ C \in W /\ {} \in all /\ A \in all /\ B \in all /\ C \in all
        /\ \A x \in X : x # {} => x \in Y
        /\ X \in Values /\ Y \in Values /\ Z \in Values /\ W \in Values
    BY <1>1, <1>2
  <1>4. \A v \in Version : UpFile[v] \in Seq(Statement) /\ DownFile[v] \in Seq(Statement)
    BY MigrateAssumption
  <1>5. UpFits(UpFile[b], t, X, Y, all) /\ DownFits(DownFile[b], t, all, X, Y)
    <2>1. PICK f \in Seq(Statement), g \in Seq(Statement) :
            /\ f = UpFile[b] /\ g = DownFile[b] /\ Ensures(f, t, A) /\ Empties(g, t)
      BY <1>4
    <2>2. UpFits(f, t, X, Y, all)
      BY <1>3, <2>1, UpEnsures
    <2>3. DownFits(g, t, all, X, Y)
      BY <1>3, <2>1, DownEmpties
    <2>4. QED  BY <2>1, <2>2, <2>3
  <1>6. UpFits(UpFile[5], t, Y, Z, all) /\ DownFits(DownFile[5], t, all, Y, Z)
    <2>1. PICK f \in Seq(Statement), g \in Seq(Statement) :
            /\ f = UpFile[5] /\ g = DownFile[5] /\ Rebuilds(f, t, B) /\ Rebuilds(g, t, A)
      BY <1>4
    <2>2. UpFits(f, t, Y, Z, all)
      BY <1>3, <2>1, UpRebuilds
    <2>3. DownFits(g, t, all, Y, Z)
      BY <1>3, <2>1, DownRebuilds
    <2>4. QED  BY <2>1, <2>2, <2>3
  <1>7. UpFits(UpFile[6], t, Z, W, all) /\ DownFits(DownFile[6], t, all, Z, W)
    <2>1. PICK f \in Seq(Statement), g \in Seq(Statement) :
            /\ f = UpFile[6] /\ g = DownFile[6] /\ Rebuilds(f, t, C) /\ Rebuilds(g, t, B)
      BY <1>4
    <2>2. UpFits(f, t, Z, W, all)
      BY <1>3, <2>1, UpRebuilds
    <2>3. DownFits(g, t, all, Z, W)
      BY <1>3, <2>1, DownRebuilds
    <2>4. QED  BY <2>1, <2>2, <2>3
  <1>8. \A v \in (1 .. 4) \ {b} : \A P \in SUBSET all :
          UpFits(UpFile[v], t, P, P, all) /\ DownFits(DownFile[v], t, all, P, P)
    BY Stays
  <1>9. PICK O \in SUBSET all : (b = 2 => O = Y) /\ (b = 3 => O = X)
    <2>1. CASE b = 2
      BY <2>1
    <2>2. CASE b = 3
      BY <2>2
    <2>3. QED  BY <2>1, <2>2
  <1>10. /\ UpFits(UpFile[1], t, X, X, all) /\ DownFits(DownFile[1], t, all, X, X)
         /\ UpFits(UpFile[2], t, X, O, all) /\ DownFits(DownFile[2], t, all, X, O)
         /\ UpFits(UpFile[3], t, O, Y, all) /\ DownFits(DownFile[3], t, all, O, Y)
         /\ UpFits(UpFile[4], t, Y, Y, all) /\ DownFits(DownFile[4], t, all, Y, Y)
    <2>1. CASE b = 2
      BY <1>5, <1>8, <1>9, <2>1
    <2>2. CASE b = 3
      BY <1>5, <1>8, <1>9, <2>2
    <2>3. QED  BY <2>1, <2>2
  <1>11. QED  BY <1>2, <1>3, <1>6, <1>7, <1>10, SixStages

\* ... the nonces, created by the fifth, ...
LEMMA NoncesLife ==
  ASSUME Newest = 6, NEW t \in Table, NEW B \in SUBSET Feature, NEW C \in SUBSET Feature,
         \A v \in 1 .. 4 : Untouched(v, t),
         Rebuilds(UpFile[5], t, B), Empties(DownFile[5], t),
         Rebuilds(UpFile[6], t, C), Rebuilds(DownFile[6], t, B)
  PROVE  \E ok, all : ConvergesAt(t, ok, all)
  <1>1. PICK all \in Values : all = {{}, B, C}
    BY DEF Values
  <1>2. PICK X \in SUBSET all, Z \in SUBSET all, W \in SUBSET all :
          /\ X \in Values /\ Z \in Values /\ W \in Values
          /\ X = {{}, B} /\ Z = {B, {}, C} /\ W = {C}
    <2>1. {{}, B} \in SUBSET all /\ {B, {}, C} \in SUBSET all /\ {C} \in SUBSET all
      BY <1>1
    <2>2. \A S \in SUBSET all : S \in Values
      BY DEF Values
    <2>3. QED  BY <2>1, <2>2
  <1>3. /\ B \in X /\ {} \in X /\ B \in Z /\ {} \in Z /\ C \in Z /\ C \in W
        /\ {} \in all /\ B \in all /\ C \in all
        /\ X \in Values /\ Z \in Values /\ W \in Values
    BY <1>1, <1>2
  <1>4. \A v \in Version : UpFile[v] \in Seq(Statement) /\ DownFile[v] \in Seq(Statement)
    BY MigrateAssumption
  <1>5. UpFits(UpFile[5], t, X, Z, all) /\ DownFits(DownFile[5], t, all, X, Z)
    <2>1. PICK f \in Seq(Statement), g \in Seq(Statement) :
            /\ f = UpFile[5] /\ g = DownFile[5] /\ Rebuilds(f, t, B) /\ Empties(g, t)
      BY <1>4
    <2>2. UpFits(f, t, X, Z, all)
      BY <1>3, <2>1, UpRebuilds
    <2>3. DownFits(g, t, all, X, Z)
      BY <1>3, <2>1, DownEmpties
    <2>4. QED  BY <2>1, <2>2, <2>3
  <1>6. UpFits(UpFile[6], t, Z, W, all) /\ DownFits(DownFile[6], t, all, Z, W)
    <2>1. PICK f \in Seq(Statement), g \in Seq(Statement) :
            /\ f = UpFile[6] /\ g = DownFile[6] /\ Rebuilds(f, t, C) /\ Rebuilds(g, t, B)
      BY <1>4
    <2>2. UpFits(f, t, Z, W, all)
      BY <1>3, <2>1, UpRebuilds
    <2>3. DownFits(g, t, all, Z, W)
      BY <1>3, <2>1, DownRebuilds
    <2>4. QED  BY <2>1, <2>2, <2>3
  <1>7. \A v \in 1 .. 4 : UpFits(UpFile[v], t, X, X, all) /\ DownFits(DownFile[v], t, all, X, X)
    BY Stays
  <1>8. /\ UpFits(UpFile[1], t, X, X, all) /\ DownFits(DownFile[1], t, all, X, X)
        /\ UpFits(UpFile[2], t, X, X, all) /\ DownFits(DownFile[2], t, all, X, X)
        /\ UpFits(UpFile[3], t, X, X, all) /\ DownFits(DownFile[3], t, all, X, X)
        /\ UpFits(UpFile[4], t, X, X, all) /\ DownFits(DownFile[4], t, all, X, X)
    BY <1>7
  <1>9. QED  BY <1>2, <1>3, <1>5, <1>6, <1>8, SixStages

\* What ends in Q ends in more.
LEMMA RunsInto ==
  ASSUME NEW heed, NEW f, NEW t, NEW P, NEW M, NEW Q, Runs(heed, f, t, P, M, Q),
         NEW R, Q \subseteq R
  PROVE  Runs(heed, f, t, P, M, R)
  BY DEF Runs, Within

\* ... and the instances, which the third alters.
LEMMA InstancesLife ==
  ASSUME RepositoryFiles, NEW t, t = "plugin_instances",
         Untouched(1, t), Untouched(4, t),
         Ensures(UpFile[2], t, {"v1"}), Empties(DownFile[2], t), Touches(DownFile[3], t),
         Rebuilds(UpFile[5], t, {"v2", "health"}),
         Rebuilds(DownFile[5], t, {"v1", "health", "health_index"}),
         Rebuilds(UpFile[6], t, {"v3", "health"}), Rebuilds(DownFile[6], t, {"v2", "health"})
  PROVE  \E ok, all : ConvergesAt(t, ok, all)
  <1>1. PICK x1 \in SUBSET Feature, x2 \in SUBSET Feature, x3 \in SUBSET Feature,
             y \in SUBSET Feature, z \in SUBSET Feature :
          /\ x1 = {"v1"} /\ x2 = {"v1", "health"} /\ x3 = {"v1", "health", "health_index"}
          /\ y = {"v2", "health"} /\ z = {"v3", "health"}
    <2>1. /\ {"v1"} \in SUBSET Feature /\ {"v1", "health"} \in SUBSET Feature
          /\ {"v1", "health", "health_index"} \in SUBSET Feature
          /\ {"v2", "health"} \in SUBSET Feature /\ {"v3", "health"} \in SUBSET Feature
      BY RepositoryNames
    <2>2. QED  BY <2>1
  <1>2. t \in Table /\ Newest = 6 /\ UpFile[3] = HardeningUp /\ DownFile[3] = HardeningDown
    BY RepositoryNames, FilesOf
  <1>3. \A v \in Version : UpFile[v] \in Seq(Statement) /\ DownFile[v] \in Seq(Statement)
    BY MigrateAssumption
  <1>4. /\ Ensures(UpFile[2], t, x1) /\ Empties(DownFile[2], t)
        /\ Rebuilds(UpFile[5], t, y) /\ Rebuilds(DownFile[5], t, x3)
        /\ Rebuilds(UpFile[6], t, z) /\ Rebuilds(DownFile[6], t, y)
    BY <1>1
  <1>5. PICK P \in Values : P = {x1, x2, x3}
    BY DEF Values
  <1>6. PICK all \in Values : all = P \cup {{}, y, z}
    BY DEF Values
  <1>7. /\ Runs(FALSE, UpFile[3], t, P, P, {x3}) /\ Runs(TRUE, UpFile[3], t, all, all, {x3})
        /\ Runs(TRUE, DownFile[3], t, all, all, {x1})
    <2>1. /\ P = {{"v1"}, {"v1", "health"}, {"v1", "health", "health_index"}}
          /\ all = P \cup {{}, {"v2", "health"}, {"v3", "health"}}
      BY <1>1, <1>5, <1>6
    <2>2. /\ Runs(FALSE, HardeningUp, "plugin_instances", P, P,
                  {{"v1", "health", "health_index"}})
          /\ Runs(TRUE, HardeningUp, "plugin_instances", all, all,
                  {{"v1", "health", "health_index"}})
          /\ Runs(TRUE, HardeningDown, "plugin_instances", all, all, {{"v1"}})
      BY <2>1, HardeningInstances
    <2>3. QED  BY <1>1, <1>2, <2>2
  <1>8. PICK X \in SUBSET all, Y \in SUBSET all, Z \in SUBSET all, W \in SUBSET all :
          X = {{}, x1} /\ Y = {x3, {}, y} /\ Z = {y, {}, z} /\ W = {z}
    <2>1. /\ {{}, x1} \in SUBSET all /\ {x3, {}, y} \in SUBSET all
          /\ {y, {}, z} \in SUBSET all /\ {z} \in SUBSET all
      BY <1>5, <1>6
    <2>2. QED  BY <2>1
  <1>9. P \in SUBSET all
    BY <1>6
  <1>10. X \in Values /\ Y \in Values /\ Z \in Values /\ W \in Values
    BY <1>8 DEF Values
  <1>11. /\ x1 \in X /\ {} \in X /\ x1 \in P /\ x3 \in Y /\ {} \in Y /\ y \in Y /\ y \in Z
         /\ {} \in Z /\ z \in Z /\ z \in W
         /\ \A x \in X : x # {} => x \in P
    BY <1>5, <1>8
  <1>12. {} \in all /\ x1 \in all /\ x3 \in all /\ y \in all /\ z \in all
    BY <1>5, <1>6
  <1>13. UpFits(UpFile[2], t, X, P, all) /\ DownFits(DownFile[2], t, all, X, P)
    <2>1. PICK f \in Seq(Statement), g \in Seq(Statement) :
            /\ f = UpFile[2] /\ g = DownFile[2] /\ Ensures(f, t, x1) /\ Empties(g, t)
      BY <1>2, <1>3, <1>4
    <2>2. UpFits(f, t, X, P, all)
      BY <1>2, <1>10, <1>11, <1>12, <2>1, UpEnsures
    <2>3. DownFits(g, t, all, X, P)
      BY <1>2, <1>10, <1>11, <1>12, <2>1, DownEmpties
    <2>4. QED  BY <2>1, <2>2, <2>3
  <1>14. UpFits(UpFile[3], t, P, Y, all) /\ DownFits(DownFile[3], t, all, P, Y)
    <2>1. {x3} \subseteq Y /\ {x3} \subseteq all /\ {x1} \subseteq P
      BY <1>11, <1>12
    <2>2. Runs(FALSE, UpFile[3], t, P, P, Y)
      BY <1>7, <2>1, RunsInto
    <2>3. Runs(TRUE, UpFile[3], t, all, all, all)
      BY <1>7, <2>1, RunsInto
    <2>4. Runs(TRUE, DownFile[3], t, all, all, P)
      BY <1>7, <2>1, RunsInto
    <2>5. QED  BY <2>2, <2>3, <2>4 DEF UpFits, DownFits
  <1>15. UpFits(UpFile[5], t, Y, Z, all) /\ DownFits(DownFile[5], t, all, Y, Z)
    <2>1. PICK f \in Seq(Statement), g \in Seq(Statement) :
            /\ f = UpFile[5] /\ g = DownFile[5] /\ Rebuilds(f, t, y) /\ Rebuilds(g, t, x3)
      BY <1>2, <1>3, <1>4
    <2>2. UpFits(f, t, Y, Z, all)
      BY <1>2, <1>10, <1>11, <1>12, <2>1, UpRebuilds
    <2>3. DownFits(g, t, all, Y, Z)
      BY <1>2, <1>10, <1>11, <1>12, <2>1, DownRebuilds
    <2>4. QED  BY <2>1, <2>2, <2>3
  <1>16. UpFits(UpFile[6], t, Z, W, all) /\ DownFits(DownFile[6], t, all, Z, W)
    <2>1. PICK f \in Seq(Statement), g \in Seq(Statement) :
            /\ f = UpFile[6] /\ g = DownFile[6] /\ Rebuilds(f, t, z) /\ Rebuilds(g, t, y)
      BY <1>2, <1>3, <1>4
    <2>2. UpFits(f, t, Z, W, all)
      BY <1>2, <1>10, <1>11, <1>12, <2>1, UpRebuilds
    <2>3. DownFits(g, t, all, Z, W)
      BY <1>2, <1>10, <1>11, <1>12, <2>1, DownRebuilds
    <2>4. QED  BY <2>1, <2>2, <2>3
  <1>17. /\ UpFits(UpFile[1], t, X, X, all) /\ DownFits(DownFile[1], t, all, X, X)
         /\ UpFits(UpFile[4], t, Y, Y, all) /\ DownFits(DownFile[4], t, all, Y, Y)
    <2>1. 1 \in Version /\ 4 \in Version
      BY <1>2
    <2>2. QED  BY <1>2, <2>1, Stays
  <1>18. QED  BY <1>2, <1>8, <1>9, <1>11, <1>13, <1>14, <1>15, <1>16, <1>17, SixStages

\* Every table of the repository has one of these lives, ...
LEMMA RepositoryConverges ==
  ASSUME RepositoryFiles, NEW t \in Table
  PROVE  \E ok, all : ConvergesAt(t, ok, all)
  <1>1. /\ UpFile[1] = CmsUp /\ UpFile[2] = RegistryUp /\ UpFile[3] = HardeningUp
        /\ UpFile[4] = SessionsUp /\ UpFile[5] = V2Up /\ UpFile[6] = V3Up
        /\ DownFile[1] = CmsDown /\ DownFile[2] = RegistryDown /\ DownFile[3] = HardeningDown
        /\ DownFile[4] = SessionsDown /\ DownFile[5] = V2Down /\ DownFile[6] = V3Down
        /\ Newest = 6
    BY FilesOf
  <1>2. PICK v1 \in SUBSET Feature, v2 \in SUBSET Feature, v3 \in SUBSET Feature :
          v1 = {"v1"} /\ v2 = {"v2"} /\ v3 = {"v3"}
    BY RepositoryNames
  <1>3. /\ Untouched(1, t) <=> t \notin {"users", "roles"}
        /\ Untouched(2, t) <=> t \notin RegistryTables
        /\ Untouched(3, t) <=> t \notin {"plugin_audit_events", "plugin_instances"}
        /\ Untouched(4, t) <=> t # "iam_refresh_sessions"
    BY <1>1, CmsDoes, RegistryDoes, HardeningDoes, SessionsDo DEF Untouched
  <1>4. /\ Untouched(5, t) <=> t \notin V2Tables
        /\ Untouched(6, t) <=> t \notin V3Tables
    <2>1. /\ Touches(V2Up, t) <=> t \in V2Tables
          /\ Touches(V3Down, t) <=> t \in V3Tables
      BY ShapeFilesDo DEF Remakes
    <2>2. Touches(V3Up, t) <=> t \in V3Tables
      BY V3UpDoes DEF Remakes
    <2>3. Touches(V2Down, t) <=> t \in V2Tables
      BY V2DownDoes
    <2>4. QED  BY <1>1, <2>1, <2>2, <2>3 DEF Untouched
  <1>5. CASE t \in {"users", "roles"}
    <2>1. Ensures(UpFile[1], t, v1) /\ Empties(DownFile[1], t)
      BY <1>1, <1>2, <1>5, CmsDoes
    <2>2. \A v \in Version \ {1} : Untouched(v, t)
      <3>1. /\ Untouched(2, t) /\ Untouched(3, t) /\ Untouched(4, t)
            /\ Untouched(5, t) /\ Untouched(6, t)
        BY <1>3, <1>4, <1>5 DEF RegistryTables, V1Tables, V2Tables, V3Tables
      <3>2. \A v \in Version \ {1} : v = 2 \/ v = 3 \/ v = 4 \/ v = 5 \/ v = 6
        BY <1>1
      <3>3. QED  BY <3>1, <3>2
    <2>3. 1 \in Version
      BY <1>1
    <2>4. QED  BY <2>1, <2>2, <2>3, CreatedOnce
  <1>6. CASE t = "iam_refresh_sessions"
    <2>1. Ensures(UpFile[4], t, v1) /\ Empties(DownFile[4], t)
      BY <1>1, <1>2, <1>6, SessionsDo
    <2>2. \A v \in Version \ {4} : Untouched(v, t)
      <3>1. /\ Untouched(1, t) /\ Untouched(2, t) /\ Untouched(3, t)
            /\ Untouched(5, t) /\ Untouched(6, t)
        BY <1>3, <1>4, <1>6 DEF RegistryTables, V1Tables, V2Tables, V3Tables
      <3>2. \A v \in Version \ {4} : v = 1 \/ v = 2 \/ v = 3 \/ v = 5 \/ v = 6
        BY <1>1
      <3>3. QED  BY <3>1, <3>2
    <2>3. 4 \in Version
      BY <1>1
    <2>4. QED  BY <2>1, <2>2, <2>3, CreatedOnce
  <1>7. CASE t = "plugin_route_claims"
    <2>1. Rebuilds(UpFile[6], t, v3) /\ Empties(DownFile[6], t)
      BY <1>1, <1>2, <1>7, V3UpDoes, ShapeFilesDo
    <2>2. \A v \in Version \ {6} : Untouched(v, t)
      <3>1. /\ Untouched(1, t) /\ Untouched(2, t) /\ Untouched(3, t)
            /\ Untouched(4, t) /\ Untouched(5, t)
        BY <1>3, <1>4, <1>7 DEF RegistryTables, V1Tables, V2Tables
      <3>2. \A v \in Version \ {6} : v = 1 \/ v = 2 \/ v = 3 \/ v = 4 \/ v = 5
        BY <1>1
      <3>3. QED  BY <3>1, <3>2
    <2>3. 6 \in Version
      BY <1>1
    <2>4. QED  BY <2>1, <2>2, <2>3, CreatedOnce
  <1>8. ASSUME t \in {"plugin_services", "plugin_routes", "plugin_audit_events"}
        PROVE  /\ Rebuilds(UpFile[5], t, v2) /\ Rebuilds(DownFile[5], t, v1)
               /\ Rebuilds(UpFile[6], t, v3) /\ Rebuilds(DownFile[6], t, v2)
    <2>1. Rebuilds(V2Up, t, v2) /\ Rebuilds(V3Down, t, v2)
      BY <1>2, <1>8, ShapeFilesDo DEF Remakes
    <2>2. Rebuilds(V3Up, t, v3)
      BY <1>2, <1>8, V3UpDoes DEF Remakes
    <2>3. Rebuilds(V2Down, t, v1)
      BY <1>2, <1>8, V2DownDoes
    <2>4. QED  BY <1>1, <2>1, <2>2, <2>3
  <1>9. CASE t \in {"plugin_services", "plugin_routes"}
    <2>1. Ensures(UpFile[2], t, v1) /\ Empties(DownFile[2], t)
      BY <1>1, <1>2, <1>9, RegistryDoes DEF RegistryTables
    <2>2. \A v \in (1 .. 4) \ {2} : Untouched(v, t)
      <3>1. Untouched(1, t) /\ Untouched(3, t) /\ Untouched(4, t)
        BY <1>3, <1>9
      <3>2. \A v \in (1 .. 4) \ {2} : v = 1 \/ v = 3 \/ v = 4
        OBVIOUS
      <3>3. QED  BY <3>1, <3>2
    <2>3. /\ Rebuilds(UpFile[5], t, v2) /\ Rebuilds(DownFile[5], t, v1)
          /\ Rebuilds(UpFile[6], t, v3) /\ Rebuilds(DownFile[6], t, v2)
      BY <1>8, <1>9
    <2>4. Newest = 6 /\ 2 \in {2, 3}
      BY <1>1
    <2>5. QED  BY <2>1, <2>2, <2>3, <2>4, RegistryLife
  <1>10. CASE t = "plugin_audit_events"
    <2>1. Ensures(UpFile[3], t, v1) /\ Empties(DownFile[3], t)
      BY <1>1, <1>2, <1>10, HardeningDoes
    <2>2. \A v \in (1 .. 4) \ {3} : Untouched(v, t)
      <3>1. Untouched(1, t) /\ Untouched(2, t) /\ Untouched(4, t)
        BY <1>3, <1>10 DEF RegistryTables
      <3>2. \A v \in (1 .. 4) \ {3} : v = 1 \/ v = 2 \/ v = 4
        OBVIOUS
      <3>3. QED  BY <3>1, <3>2
    <2>3. /\ Rebuilds(UpFile[5], t, v2) /\ Rebuilds(DownFile[5], t, v1)
          /\ Rebuilds(UpFile[6], t, v3) /\ Rebuilds(DownFile[6], t, v2)
      BY <1>8, <1>10
    <2>4. Newest = 6 /\ 3 \in {2, 3}
      BY <1>1
    <2>5. QED  BY <2>1, <2>2, <2>3, <2>4, RegistryLife
  <1>11. CASE t = "plugin_signature_nonces"
    <2>1. \A v \in 1 .. 4 : Untouched(v, t)
      <3>1. Untouched(1, t) /\ Untouched(2, t) /\ Untouched(3, t) /\ Untouched(4, t)
        BY <1>3, <1>11 DEF RegistryTables
      <3>2. \A v \in 1 .. 4 : v = 1 \/ v = 2 \/ v = 3 \/ v = 4
        OBVIOUS
      <3>3. QED  BY <3>1, <3>2
    <2>2. Rebuilds(UpFile[5], t, v2) /\ Rebuilds(DownFile[6], t, v2)
      BY <1>1, <1>2, <1>11, ShapeFilesDo DEF Remakes
    <2>3. Rebuilds(UpFile[6], t, v3)
      BY <1>1, <1>2, <1>11, V3UpDoes DEF Remakes
    <2>4. Empties(DownFile[5], t)
      BY <1>1, <1>11, V2DownDoes
    <2>5. QED  BY <1>1, <2>1, <2>2, <2>3, <2>4, NoncesLife
  <1>12. CASE t = "plugin_instances"
    <2>1. Untouched(1, t) /\ Untouched(4, t)
      BY <1>3, <1>12
    <2>2. Ensures(UpFile[2], t, {"v1"}) /\ Empties(DownFile[2], t)
      BY <1>1, <1>12, RegistryDoes DEF RegistryTables
    <2>3. Touches(DownFile[3], t)
      BY <1>1, <1>12, HardeningDoes
    <2>4. Rebuilds(UpFile[5], t, {"v2", "health"}) /\ Rebuilds(DownFile[6], t, {"v2", "health"})
      BY <1>1, <1>12, ShapeFilesDo DEF Remakes
    <2>5. Rebuilds(UpFile[6], t, {"v3", "health"})
      BY <1>1, <1>12, V3UpDoes DEF Remakes
    <2>6. Rebuilds(DownFile[5], t, {"v1", "health", "health_index"})
      BY <1>1, <1>12, V2DownDoes
    <2>7. QED  BY <1>12, <2>1, <2>2, <2>3, <2>4, <2>5, <2>6, InstancesLife
  <1>13. t \in {"users", "roles", "plugin_services", "plugin_instances", "plugin_routes",
                "plugin_audit_events", "plugin_signature_nonces", "plugin_route_claims",
                "iam_refresh_sessions"}
    BY DEF RepositoryFiles, Tables
  <1>14. QED  BY <1>5, <1>6, <1>7, <1>9, <1>10, <1>11, <1>12, <1>13

\* ... and so its files are convergent.
LEMMA RepositoryConvergent ==
  ASSUME RepositoryFiles
  PROVE  ConvergentFiles
  <1> DEFINE all == [t \in Table |-> CHOOSE a : \E o : ConvergesAt(t, o, a)]
             ok == [t \in Table |-> CHOOSE o : ConvergesAt(t, o, all[t])]
  <1>1. ASSUME NEW t \in Table PROVE ConvergesAt(t, ok[t], all[t])
    <2>1. \E o, a : ConvergesAt(t, o, a)
      BY RepositoryConverges
    <2>2. \E o : ConvergesAt(t, o, all[t])
      BY <2>1
    <2>3. QED  BY <2>2
  <1>2. Convergent(ok, all)
    BY <1>1 DEF Convergent
  <1>3. QED  BY <1>2 DEF ConvergentFiles

\* A run that reports success leaves the schema that the repository's six migrations
\* describe, whatever was interrupted before, ...
THEOREM RepositorySuccessMeansCurrent ==
  ASSUME RepositoryFiles
  PROVE  Spec => []SuccessMeansCurrent
  BY RepositoryConvergent, AlwaysSuccessMeansCurrent

\* ... and, if a roll-back was begun and not finished, every table that it does not change.
THEOREM RepositoryTablesCurrent ==
  ASSUME RepositoryFiles
  PROVE  Spec => []TablesCurrent
  <1>1. Spec => [](TablesCurrent /\ SuccessMeansCurrent)
    BY RepositoryConvergent, AlwaysTablesCurrent
  <1>2. QED  BY <1>1, PTL

=============================================================================
