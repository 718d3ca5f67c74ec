---------------------------- MODULE MigrateProofs ----------------------------
(***************************************************************************)
(* The start of any number of replicas, of images with any number of       *)
(* files.  The invariant says what a replica has behind it at each point   *)
(* of the loop, and that of two open transactions that inserted a name,    *)
(* one at most can commit.                                                 *)
(***************************************************************************)
EXTENDS Migrate, TLAPS

Upto(n) == \A m \in Migrations : m < n => m \in recorded

\* What a replica knows of the migrations.
ReplicaOK(r) ==
  LET f == replica[r].file IN
  /\ replica[r].pc \in {"start", "creating"} => f = 1
  /\ replica[r].pc = "check" => f >= 1
  /\ replica[r].pc \in {"check", "begin", "record", "commit"} => Upto(f)
  /\ replica[r].pc \in {"begin", "record", "commit"} => f \in Migrations
  /\ replica[r].pc = "commit" => f \notin recorded
  /\ replica[r].pc \in {"boot", "serving"} => Upto(Files[r] + 1)

\* The wait of the INSERT: one open transaction at most holds a name.
OneHolder ==
  \A r, s \in Replicas :
    At(r, "commit") /\ At(s, "commit") /\ replica[r].file = replica[s].file => r = s

IInv ==
  /\ TypeOK
  /\ \A r \in Replicas : ReplicaOK(r)
  /\ OneHolder
  /\ AppliedOnceIffRecorded
  /\ RecordedInOrder

LEMMA MigrationsTyped ==
  /\ Migrations \subseteq Nat \ {0}
  /\ \A r \in Replicas, f \in Nat : f >= 1 /\ f <= Files[r] => f \in Migrations
BY MigrateAssumption DEF Migrations

LEMMA InitIInv == Init => IInv
<1>. SUFFICES ASSUME Init PROVE IInv
  OBVIOUS
<1>1. \A r \in Replicas : replica[r] = [pc |-> "start", file |-> 1]
  BY DEF Init
<1>2. TypeOK
  <2>1. [pc |-> "start", file |-> 1] \in Process
    BY DEF Process
  <2>2. replica \in [Replicas -> Process]
    BY <2>1, Zenon DEF Init
  <2>3. applied \in [Migrations -> Nat]
    BY DEF Init
  <2>4. table \in BOOLEAN /\ recorded \subseteq Migrations
    BY DEF Init
  <2>5. stops \in 0 .. MaxStops
    BY MigrateAssumption DEF Init
  <2>. QED  BY <2>2, <2>3, <2>4, <2>5 DEF TypeOK
<1>3. (\A r \in Replicas : ReplicaOK(r)) /\ OneHolder
  BY <1>1 DEF ReplicaOK, OneHolder, At
<1>4. AppliedOnceIffRecorded /\ RecordedInOrder
  BY DEF Init, AppliedOnceIffRecorded, RecordedInOrder
<1>. QED  BY <1>2, <1>3, <1>4 DEF IInv

\* A step that moves one replica and commits nothing.
LEMMA MoveIInv ==
  ASSUME IInv, NEW r \in Replicas, NEW to \in Process, replica' = [replica EXCEPT ![r] = to],
         UNCHANGED <<recorded, applied>>, table' \in BOOLEAN, stops' \in 0 .. MaxStops,
         ReplicaOK(r)',
         to.pc = "commit" => ~Inserting(r) /\ to.file = replica[r].file
  PROVE  IInv'
<1>0. /\ replica \in [Replicas -> Process] /\ replica'[r] = to
      /\ \A s \in Replicas \ {r} : replica'[s] = replica[s]
  BY DEF IInv, TypeOK
<1>1. TypeOK'
  BY DEF IInv, TypeOK
<1>2. \A s \in Replicas : ReplicaOK(s)'
  BY <1>0 DEF IInv, ReplicaOK, Upto
<1>3. OneHolder'
  BY <1>0 DEF IInv, OneHolder, At, Inserting
<1>. QED  BY <1>0, <1>1, <1>2, <1>3 DEF IInv, AppliedOnceIffRecorded, RecordedInOrder

\* A commit, whatever becomes of the replica after it.
LEMMA CommitIInv ==
  ASSUME IInv, NEW r \in Replicas, At(r, "commit"), Committed(r), NEW to \in Process,
         replica' = [replica EXCEPT ![r] = to], UNCHANGED table, stops' \in 0 .. MaxStops,
         to.pc = "down" \/ (to.pc = "check" /\ to.file = replica[r].file + 1)
  PROVE  IInv'
<1>. DEFINE f == replica[r].file
<1>0. /\ replica \in [Replicas -> Process] /\ replica'[r] = to
      /\ \A s \in Replicas \ {r} : replica'[s] = replica[s]
  BY DEF IInv, TypeOK
<1>1. f \in Migrations /\ f \notin recorded /\ Upto(f) /\ f \in Nat
  BY MigrationsTyped DEF IInv, ReplicaOK, At
<1>2. TypeOK'
  BY <1>1 DEF IInv, TypeOK, Committed
<1>3. ASSUME NEW s \in Replicas PROVE ReplicaOK(s)'
  <2>1. recorded' = recorded \cup {f}
    BY DEF Committed
  <2>2. CASE s = r
    BY <1>0, <1>1, <2>1, <2>2, MigrationsTyped DEF ReplicaOK, Upto
  <2>3. CASE s # r
    <3>1. replica[s].pc = "commit" => replica[s].file # f
      BY <2>3 DEF IInv, OneHolder, At
    <3>. QED  BY <1>0, <2>1, <2>3, <3>1 DEF IInv, ReplicaOK, Upto
  <2>. QED  BY <2>2, <2>3
<1>4. OneHolder'
  BY <1>0 DEF IInv, OneHolder, At
<1>5. AppliedOnceIffRecorded' /\ RecordedInOrder'
  <2>1. applied[f] = 0
    BY <1>1 DEF IInv, AppliedOnceIffRecorded
  <2>2. AppliedOnceIffRecorded'
    BY <1>1, <2>1 DEF Committed, IInv, TypeOK, AppliedOnceIffRecorded
  <2>3. RecordedInOrder'
    BY <1>1 DEF Committed, IInv, RecordedInOrder, Upto
  <2>. QED  BY <2>2, <2>3
<1>. QED  BY <1>2, <1>3, <1>4, <1>5 DEF IInv

LEMMA ProgressIInv ==
  ASSUME IInv, NEW r \in Replicas, Progress(r)
  PROVE  IInv'
<1>0. /\ replica \in [Replicas -> Process] /\ replica[r] \in Process /\ ReplicaOK(r)
      /\ table \in BOOLEAN /\ stops \in 0 .. MaxStops
      /\ replica[r].file \in Nat /\ Files[r] \in Nat
  BY MigrateAssumption DEF IInv, TypeOK, Process
<1>. DEFINE Moved(to) == /\ to \in Process /\ replica' = [replica EXCEPT ![r] = to]
                         /\ UNCHANGED <<recorded, applied>>
                         /\ table' \in BOOLEAN /\ stops' \in 0 .. MaxStops
                         /\ replica'[r] = to
<1>1. ASSUME NEW pc \in {"start", "creating", "check", "begin", "record", "commit", "boot",
                         "serving", "down"},
             replica' = [replica EXCEPT ![r].pc = pc],
             UNCHANGED <<recorded, applied>>, table' \in BOOLEAN, UNCHANGED stops,
             pc \in {"creating", "check"} => At(r, "start") \/ At(r, "creating"),
             pc # "start",
             pc = "begin" => At(r, "check") /\ HasFile(r),
             pc = "record" => At(r, "begin"),
             pc = "commit" => At(r, "record") /\ ~Inserting(r) /\ replica[r].file \notin recorded,
             pc = "boot" => At(r, "check") /\ ~HasFile(r),
             pc = "serving" => At(r, "boot"),
             pc = "check" => Upto(replica[r].file)
      PROVE  IInv'
  <2>. DEFINE to == [pc |-> pc, file |-> replica[r].file]
  <2>1. Moved(to)
    <3>1. to \in Process
      BY <1>0 DEF Process
    <3>2. [replica[r] EXCEPT !.pc = pc] = to
      BY <1>0 DEF Process
    <3>3. replica' = [replica EXCEPT ![r] = to]
      BY <1>1, <3>2
    <3>. QED  BY <1>0, <1>1, <3>1, <3>3
  <2>3. ReplicaOK(r)'
    <3>1. /\ replica'[r].pc = pc /\ replica'[r].file = replica[r].file
          /\ UNCHANGED recorded
      BY <1>1, <2>1
    <3>2. /\ At(r, "check") => replica[r].file >= 1 /\ Upto(replica[r].file)
          /\ pc = "creating" => replica[r].file = 1
          /\ pc = "check" => replica[r].file >= 1
      BY <1>0, <1>1 DEF At, ReplicaOK
    <3>3. pc \in {"begin", "record", "commit"} =>
            Upto(replica[r].file) /\ replica[r].file \in Migrations
      BY <1>0, <1>1, <3>2, MigrationsTyped DEF ReplicaOK, At, HasFile
    <3>4. pc \in {"boot", "serving"} => Upto(Files[r] + 1)
      BY <1>0, <1>1, <3>2, MigrationsTyped DEF ReplicaOK, At, HasFile, Upto
    <3>. QED  BY <1>1, <3>1, <3>2, <3>3, <3>4 DEF ReplicaOK, Upto
  <2>. QED  BY <1>1, <2>1, <2>3, MoveIInv
<1>2. CASE CreateTable(r) \/ TableCreated(r)
  <2>1. Upto(replica[r].file)
    BY <1>0, <1>2, MigrationsTyped DEF CreateTable, TableCreated, At, ReplicaOK, Upto, Migrations
  <2>2. PICK pc \in {"creating", "check", "down"} : replica' = [replica EXCEPT ![r].pc = pc]
    BY <1>2 DEF CreateTable, TableCreated, Goes, Fatal
  <2>. QED  BY <1>0, <1>1, <1>2, <2>1, <2>2 DEF CreateTable, TableCreated
<1>3. CASE Skip(r)
  <2>. DEFINE to == [pc |-> "check", file |-> replica[r].file + 1]
  <2>1. Moved(to)
    BY <1>0, <1>3 DEF Skip, NextFile, Process
  <2>2. ReplicaOK(r)'
    BY <1>0, <1>3, <2>1, MigrationsTyped DEF Skip, At, ReplicaOK, Upto
  <2>. QED  BY <1>0, <2>1, <2>2, MoveIInv
<1>4. CASE FindsAbsent(r) \/ MigrateDone(r) \/ Apply(r) \/ Boot(r)
  <2>1. CASE FindsAbsent(r)
    BY <1>0, <1>1, <2>1 DEF FindsAbsent, Goes
  <2>2. CASE MigrateDone(r)
    BY <1>0, <1>1, <2>2 DEF MigrateDone, Goes
  <2>3. CASE Apply(r)
    BY <1>0, <1>1, <2>3 DEF Apply, Goes
  <2>4. CASE Boot(r)
    BY <1>0, <1>1, <2>4 DEF Boot, Goes
  <2>. QED  BY <1>4, <2>1, <2>2, <2>3, <2>4
<1>5. CASE Record(r)
  BY <1>0, <1>1, <1>5 DEF Record, Goes, Fatal
<1>6. CASE Commit(r)
  <2>. DEFINE to == [pc |-> "check", file |-> replica[r].file + 1]
  <2>1. to \in Process /\ replica' = [replica EXCEPT ![r] = to]
    BY <1>0, <1>6 DEF Commit, NextFile, Process
  <2>. QED  BY <1>0, <1>6, <2>1, CommitIInv DEF Commit
<1>7. CASE Restart(r)
  <2>. DEFINE to == [pc |-> "start", file |-> 1]
  <2>1. Moved(to)
    BY <1>0, <1>7 DEF Restart, Process
  <2>2. ReplicaOK(r)'
    BY <2>1 DEF ReplicaOK
  <2>. QED  BY <2>1, <2>2, MoveIInv
<1>. QED  BY <1>2, <1>3, <1>4, <1>5, <1>6, <1>7 DEF Progress

LEMMA FailsIInv ==
  ASSUME IInv, NEW r \in Replicas, Fails(r)
  PROVE  IInv'
<1>. DEFINE to == [pc |-> "down", file |-> replica[r].file]
<1>0. replica \in [Replicas -> Process] /\ table \in BOOLEAN /\ stops \in 0 .. MaxStops
  BY DEF IInv, TypeOK
<1>1. /\ to \in Process /\ replica' = [replica EXCEPT ![r] = to] /\ replica'[r] = to
      /\ UNCHANGED table /\ table' \in BOOLEAN /\ stops' \in 0 .. MaxStops
  <2>1. to \in Process /\ [replica[r] EXCEPT !.pc = "down"] = to
    BY <1>0 DEF Process
  <2>2. replica' = [replica EXCEPT ![r] = to]
    BY <2>1 DEF Fails, Fatal, Goes
  <2>. QED  BY <1>0, <2>1, <2>2, MigrateAssumption DEF Fails
<1>2. CASE UNCHANGED <<recorded, applied>>
  <2>1. ReplicaOK(r)'
    BY <1>1 DEF ReplicaOK
  <2>. QED  BY <1>1, <1>2, <2>1, MoveIInv
<1>3. CASE At(r, "commit") /\ Committed(r)
  BY <1>1, <1>3, CommitIInv
<1>. QED  BY <1>2, <1>3 DEF Fails

LEMMA AlwaysIInv == Spec => []IInv
<1>1. IInv /\ UNCHANGED vars => IInv'
  BY DEF vars, IInv, TypeOK, ReplicaOK, Upto, OneHolder, At, AppliedOnceIffRecorded, RecordedInOrder
<1>2. IInv /\ [Next]_vars => IInv'
  BY <1>1, ProgressIInv, FailsIInv DEF Next
<1>. QED  BY <1>2, InitIInv, PTL DEF Spec

\* The variables have their types, for any rollout and any number of stops.
THEOREM MigrateTypeCorrect == Spec => []TypeOK
  BY AlwaysIInv, PTL DEF IInv

\* A file takes effect exactly once, together with its record, though the
\* replicas look for the record before they open the transaction.
THEOREM AppliedOnceHolds == Spec => []AppliedOnceIffRecorded
  BY AlwaysIInv, PTL DEF IInv

\* The migrations are in place in the order of their files.
THEOREM RecordedInOrderHolds == Spec => []RecordedInOrder
  BY AlwaysIInv, PTL DEF IInv

\* A server only runs on a schema that has every migration of its image.
THEOREM ServesOnItsSchemaHolds == Spec => []ServesOnItsSchema
<1>1. IInv => ServesOnItsSchema
  BY MigrationsTyped, MigrateAssumption DEF IInv, ReplicaOK, Upto, ServesOnItsSchema, At
<1>. QED  BY <1>1, AlwaysIInv, PTL
=============================================================================
