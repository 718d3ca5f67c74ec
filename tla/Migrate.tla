------------------------------- MODULE Migrate -------------------------------
(***************************************************************************)
(* The start of a replica: docker-entrypoint.sh runs ./migrate, then the   *)
(* server.  Replicas start at the same time, of images that hold fewer or  *)
(* more migrations, and nothing but the database is between them: a        *)
(* migration and its record commit together, and the primary key of        *)
(* schema_migrations stops the second of two replicas that found it absent.*)
(* Kubernetes restarts a container that ended.                             *)
(***************************************************************************)
EXTENDS Naturals

CONSTANTS
  Replicas,
  Files,      \* number of files in the migrations directory of each image
  MaxStops    \* bound: failures of a statement and stops of a process

ASSUME MigrateAssumption == Files \in [Replicas -> Nat] /\ MaxStops \in Nat

VARIABLES
  table,      \* TRUE once schema_migrations exists
  recorded,   \* its rows
  applied,    \* how many times the statements of each file were committed
  replica,    \* the process in each container
  stops       \* failures and stops so far

vars == <<table, recorded, applied, replica, stops>>

\* The place of a file in the order of names.
Migrations == UNION {1 .. Files[r] : r \in Replicas}

\* "creating" and "record" to "commit" hold a transaction open.
Process == [pc   : {"start", "creating", "check", "begin", "record", "commit", "boot",
                    "serving", "down"},
            file : Nat]

TypeOK ==
  /\ table \in BOOLEAN
  /\ recorded \subseteq Migrations
  /\ applied \in [Migrations -> Nat]
  /\ replica \in [Replicas -> Process]
  /\ stops \in 0 .. MaxStops

Init ==
  /\ table = FALSE
  /\ recorded = {}
  /\ applied = [m \in Migrations |-> 0]
  /\ replica = [r \in Replicas |-> [pc |-> "start", file |-> 1]]
  /\ stops = 0

At(r, pc) == replica[r].pc = pc

Goes(r, pc) == replica' = [replica EXCEPT ![r].pc = pc]

\* log.Fatal: what was not committed is rolled back, set -e keeps the server
\* from starting, and the container ends.
Fatal(r) == Goes(r, "down")

NextFile(r) == replica' = [replica EXCEPT ![r].pc = "check", ![r].file = @ + 1]

\* CREATE TABLE IF NOT EXISTS schema_migrations.
CreateTable(r) ==
  /\ At(r, "start")
  /\ Goes(r, IF table THEN "check" ELSE "creating")
  /\ UNCHANGED <<table, recorded, applied, stops>>

\* Two replicas that both found no table: the catalogue takes the first, and
\* the statement of the second fails.
TableCreated(r) ==
  /\ At(r, "creating")
  /\ table' = TRUE
  /\ IF table THEN Fatal(r) ELSE Goes(r, "check")
  /\ UNCHANGED <<recorded, applied, stops>>

\* Mutant: one file too many.
HasOneMore(r) == replica[r].file <= Files[r] + 1

HasFile(r) == replica[r].file <= Files[r]

Skip(r) ==
  /\ At(r, "check") /\ HasFile(r)
  /\ replica[r].file \in recorded
  /\ NextFile(r)
  /\ UNCHANGED <<table, recorded, applied, stops>>

\* Mutant: the answer of SELECT EXISTS is not looked at.
AlwaysAbsent(r) ==
  /\ At(r, "check") /\ HasFile(r)
  /\ Goes(r, "begin")
  /\ UNCHANGED <<table, recorded, applied, stops>>

\* SELECT EXISTS, before the transaction and outside of it.
FindsAbsent(r) ==
  /\ At(r, "check") /\ HasFile(r)
  /\ replica[r].file \notin recorded
  /\ Goes(r, "begin")
  /\ UNCHANGED <<table, recorded, applied, stops>>

\* After the last file the entrypoint starts the server.
MigrateDone(r) ==
  /\ At(r, "check") /\ ~HasFile(r)
  /\ Goes(r, "boot")
  /\ UNCHANGED <<table, recorded, applied, stops>>

\* BEGIN and the statements of the file, which may wait for the locks of
\* another replica's transaction.
Apply(r) ==
  /\ At(r, "begin")
  /\ Goes(r, "record")
  /\ UNCHANGED <<table, recorded, applied, stops>>

\* Another transaction that is not over inserted the same name.
Inserting(r) ==
  \E s \in Replicas \ {r} : At(s, "commit") /\ replica[s].file = replica[r].file

\* Mutant: a name that is there already is no error (ON CONFLICT DO NOTHING).
RecordLenient(r) ==
  /\ At(r, "record") /\ ~Inserting(r)
  /\ Goes(r, "commit")
  /\ UNCHANGED <<table, recorded, applied, stops>>

\* INSERT of the name: it waits for a transaction that inserted the same one,
\* and fails on the primary key if that one was committed.
Record(r) ==
  /\ At(r, "record") /\ ~Inserting(r)
  /\ IF replica[r].file \in recorded THEN Fatal(r) ELSE Goes(r, "commit")
  /\ UNCHANGED <<table, recorded, applied, stops>>

Committed(r) ==
  /\ recorded' = recorded \cup {replica[r].file}
  /\ applied' = [applied EXCEPT ![replica[r].file] = @ + 1]

Commit(r) ==
  /\ At(r, "commit")
  /\ Committed(r)
  /\ NextFile(r)
  /\ UNCHANGED <<table, stops>>

\* db.Connect, its ping answered, and ListenAndServe.
Boot(r) ==
  /\ At(r, "boot")
  /\ Goes(r, "serving")
  /\ UNCHANGED <<table, recorded, applied, stops>>

Restart(r) ==
  /\ At(r, "down")
  /\ replica' = [replica EXCEPT ![r] = [pc |-> "start", file |-> 1]]
  /\ UNCHANGED <<table, recorded, applied, stops>>

\* Mutant: an error of a file does not end the loop.
FailsOn(r) ==
  /\ ~At(r, "down") /\ stops < MaxStops
  /\ stops' = stops + 1
  /\ IF At(r, "record") THEN NextFile(r) ELSE Fatal(r)
  /\ UNCHANGED <<table, recorded, applied>>

\* Mutant: the entrypoint starts the server whatever ./migrate returned.
FailsAndServes(r) ==
  /\ ~At(r, "down") /\ stops < MaxStops
  /\ stops' = stops + 1
  /\ Goes(r, IF At(r, "serving") \/ At(r, "boot") THEN "down" ELSE "boot")
  /\ UNCHANGED <<table, recorded, applied>>

\* A statement, the ping or the process fails; a commit that reported an error
\* may have taken place.
Fails(r) ==
  /\ ~At(r, "down") /\ stops < MaxStops
  /\ stops' = stops + 1
  /\ Fatal(r)
  /\ \/ UNCHANGED <<recorded, applied>>
     \/ At(r, "commit") /\ Committed(r)
  /\ UNCHANGED table

Progress(r) ==
  \/ CreateTable(r) \/ TableCreated(r) \/ Skip(r) \/ FindsAbsent(r) \/ MigrateDone(r)
  \/ Apply(r) \/ Record(r) \/ Commit(r) \/ Boot(r) \/ Restart(r)

Next == \E r \in Replicas : Progress(r) \/ Fails(r)

Spec == Init /\ [][Next]_vars

\* A process that runs goes on, and Kubernetes restarts one that ended.
FairSpec == Spec /\ \A r \in Replicas : WF_vars(Progress(r))
-----------------------------------------------------------------------------
\* The statements of a file took effect exactly once if its name is recorded,
\* and not at all otherwise, however many replicas found it absent and whatever
\* failed in between.
AppliedOnceIffRecorded ==
  \A m \in Migrations : applied[m] = IF m \in recorded THEN 1 ELSE 0

\* No migration is in place without those before it.
RecordedInOrder ==
  \A m \in recorded : \A n \in Migrations : n < m => n \in recorded

\* A server that answers requests finds every table and column of its image.
ServesOnItsSchema ==
  \A r \in Replicas : At(r, "serving") => \A m \in Migrations : m <= Files[r] => m \in recorded

\* Replicas that start together do not keep one another from starting: each
\* loser of a race finds the migration recorded when it is restarted.
EveryReplicaServes == \A r \in Replicas : <>[]At(r, "serving")
=============================================================================
