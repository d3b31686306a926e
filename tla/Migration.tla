------------------------------- MODULE Migration -------------------------------
(***************************************************************************)
(* Store::open_path of crates/storage/src/lib.rs:330-388 by several        *)
(* processes on one file.  The version is read on its own, before any      *)
(* transaction; each migration then runs in a transaction of its own with  *)
(* the row that records it.  A process can be killed between any two       *)
(* steps and the file be opened again by another build of the program.     *)
(*                                                                         *)
(* SQLite runs transactions that write one after the other.  One that      *)
(* repeats a migration fails, because its tables exist; one that waits for *)
(* longer than busy_timeout fails too.                                     *)
(***************************************************************************)
EXTENDS Integers, Sequences

CONSTANTS
  Opener,       \* the processes
  Builds        \* the last migration each build of the program knows

ASSUME MigrationAssumption == Builds \subseteq Nat

VARIABLES
  schema,       \* the migrations that the file has been through, in order
  recorded,     \* the rows of schema_migrations
  build,        \* what each process runs
  opening,      \* how far it is with opening the file
  next          \* the migration it runs next

migrationVars == <<schema, recorded, build, opening, next>>

Steps == {"closed", "reading", "migrating", "open", "failed"}

MigrationInit ==
  /\ schema = <<>> /\ recorded = {}
  /\ build \in [Opener -> Builds]
  /\ opening = [o \in Opener |-> "closed"]
  /\ next = [o \in Opener |-> 1]

MoveTo(o, step) == opening' = [opening EXCEPT ![o] = step]

(* from_connection: the pragmas, and the table of the migrations.          *)
Open(o) ==
  /\ opening[o] = "closed"
  /\ \E b \in Builds : build' = [build EXCEPT ![o] = b]
  /\ MoveTo(o, "reading")
  /\ UNCHANGED <<schema, recorded, next>>

Current == CHOOSE v \in recorded \union {0} : \A w \in recorded : w <= v

(* The version; NewerSchema if this build does not know it.                *)
ReadVersion(o) ==
  /\ opening[o] = "reading"
  /\ IF Current > build[o] THEN MoveTo(o, "failed") /\ UNCHANGED next
     ELSE MoveTo(o, "migrating") /\ next' = [next EXCEPT ![o] = Current + 1]
  /\ UNCHANGED <<schema, recorded, build>>

Bug_RecordedLater(o) ==
  /\ opening[o] = "migrating" /\ next[o] <= build[o]
  /\ next[o] \notin recorded
  /\ schema' = Append(schema, next[o])
  /\ recorded' \in {recorded, recorded \union {next[o]}}
  /\ next' = [next EXCEPT ![o] = @ + 1]
  /\ UNCHANGED <<build, opening>>

(* One transaction: the migration and its record, or neither.              *)
Migrate(o) ==
  /\ opening[o] = "migrating" /\ next[o] <= build[o]
  /\ \A i \in DOMAIN schema : schema[i] # next[o]
  /\ schema' = Append(schema, next[o])
  /\ recorded' = recorded \union {next[o]}
  /\ next' = [next EXCEPT ![o] = @ + 1]
  /\ UNCHANGED <<build, opening>>

(* The tables exist, or another process holds the lock for too long.       *)
MigrationFails(o) ==
  /\ opening[o] = "migrating" /\ next[o] <= build[o]
  /\ \/ \E i \in DOMAIN schema : schema[i] = next[o]
     \/ \E p \in Opener \ {o} : opening[p] = "migrating"
  /\ MoveTo(o, "failed")
  /\ UNCHANGED <<schema, recorded, build, next>>

IsOpen(o) ==
  /\ opening[o] = "migrating" /\ next[o] > build[o]
  /\ MoveTo(o, "open")
  /\ UNCHANGED <<schema, recorded, build, next>>

(* The process ends, or is killed: what is not committed is rolled back.   *)
Close(o) ==
  /\ opening[o] # "closed"
  /\ MoveTo(o, "closed")
  /\ UNCHANGED <<schema, recorded, build, next>>

MigrationStep(o) ==
  Open(o) \/ ReadVersion(o) \/ Migrate(o) \/ MigrationFails(o) \/ IsOpen(o)

-----------------------------------------------------------------------------
(* The file has been through every migration up to the one that is         *)
(* recorded last, once and in order, whichever processes were opening it   *)
(* and wherever they were killed; and a process that has opened it finds   *)
(* the tables its build knows.                                             *)
MigratedOnce ==
  /\ \A i \in DOMAIN schema : schema[i] = i
  /\ recorded = 1..Len(schema)
  /\ \A o \in Opener : opening[o] = "open" => build[o] <= Len(schema)
=============================================================================
