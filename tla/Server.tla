------------------------------- MODULE Server --------------------------------
(***************************************************************************)
(* The life of one gateway process (backend/cmd/server/main.go) and of the *)
(* database it prepares (backend/internal/database/db.go): it connects     *)
(* with retries, runs the migrations that are not recorded, serves, and    *)
(* stops on a signal or a crash, to be started again.  The database        *)
(* outlives it.  Statements are atomic, a migration file is one (pgx sends *)
(* it as one simple query).                                                *)
(***************************************************************************)
EXTENDS Naturals

CONSTANTS
  NumFiles,     \* migration files, in the order of their names
  MaxAttempts   \* to connect (10 in the code)

ASSUME ServerAssumption == NumFiles \in Nat \ {0} /\ MaxAttempts \in Nat \ {0}

Files == 1 .. NumFiles

VARIABLES
  phase,     \* down, connect, check, exec, record, serving, stopping
  attempt,   \* of database.New
  file,      \* the migration at hand
  dbUp,      \* the database accepts connections
  applied,   \* files that were executed
  recorded,  \* schema_migrations
  default    \* the policy "Default Allow All": none, on, off (every copy of it)

process  == <<phase, attempt, file>>
database == <<applied, recorded, default>>
serverVars == <<process, dbUp, database>>

\* Handlers run.
Running == phase \in {"serving", "stopping"}

ServerInit ==
  /\ phase = "down" /\ attempt = 0 /\ file = 1
  /\ dbUp = TRUE
  /\ applied = {} /\ recorded = {} /\ default = "none"

-----------------------------------------------------------------------------
(* main, database.New and RunMigrations *)

Start ==
  /\ phase = "down"
  /\ phase' = "connect" /\ attempt' = 1 /\ file' = 1
  /\ UNCHANGED <<dbUp, database>>

Connect ==
  /\ phase = "connect"
  /\ \/ dbUp /\ phase' = "check" /\ attempt' = 0
     \/ ~dbUp /\ attempt < MaxAttempts /\ attempt' = attempt + 1 /\ UNCHANGED phase
     \/ ~dbUp /\ attempt = MaxAttempts /\ phase' = "down" /\ attempt' = 0
  /\ UNCHANGED <<file, dbUp, database>>

\* An error of the database ends the process.
Check ==
  /\ phase = "check"
  /\ \/ ~dbUp /\ phase' = "down" /\ UNCHANGED file
     \/ dbUp /\ file \in recorded /\ file < NumFiles /\ file' = file + 1 /\ UNCHANGED phase
     \/ dbUp /\ file \in recorded /\ file = NumFiles /\ phase' = "serving" /\ UNCHANGED file
     \/ dbUp /\ file \notin recorded /\ phase' = "exec" /\ UNCHANGED file
  /\ UNCHANGED <<attempt, dbUp, database>>

\* Mutant: its error is not looked at.
Exec_IgnoresError ==
  /\ phase = "exec"
  /\ phase' = "record"
  /\ applied' = IF dbUp THEN applied \cup {file} ELSE applied
  /\ default' = IF dbUp /\ file = 1 THEN "on" ELSE default
  /\ UNCHANGED <<recorded, attempt, file, dbUp>>

\* Run a second time, the first file leaves the tables as they are and inserts
\* its policies once more: their names are not unique.
Exec ==
  /\ phase = "exec"
  /\ \/ ~dbUp /\ phase' = "down" /\ UNCHANGED database
     \/ /\ dbUp /\ phase' = "record"
        /\ applied' = applied \cup {file}
        /\ default' = IF file = 1 THEN "on" ELSE default
        /\ UNCHANGED recorded
  /\ UNCHANGED <<attempt, file, dbUp>>

\* Mutant: nothing is recorded.
Record_Not ==
  /\ phase = "record"
  /\ IF dbUp /\ file < NumFiles THEN phase' = "check" /\ file' = file + 1
     ELSE phase' = (IF dbUp THEN "serving" ELSE "down") /\ UNCHANGED file
  /\ UNCHANGED <<attempt, dbUp, database>>

\* The next file, if there is one.
Record ==
  /\ phase = "record"
  /\ recorded' = IF dbUp THEN recorded \cup {file} ELSE recorded
  /\ IF dbUp /\ file < NumFiles THEN phase' = "check" /\ file' = file + 1
     ELSE phase' = (IF dbUp THEN "serving" ELSE "down") /\ UNCHANGED file
  /\ UNCHANGED <<attempt, dbUp, applied, default>>

-----------------------------------------------------------------------------
(* Shutdown and faults *)

\* Before it listens, a signal kills the process.
Signal ==
  /\ phase # "down"
  /\ phase' = IF Running THEN "stopping" ELSE "down"
  /\ attempt' = 0
  /\ UNCHANGED <<file, dbUp, database>>

\* ListenAndServe returns as soon as Shutdown begins: main runs its deferred
\* calls, the managers' first and the pool's last, while handlers are at work,
\* whose statements then fail.
Exit ==
  /\ phase = "stopping"
  /\ phase' = "down"
  /\ UNCHANGED <<attempt, file, dbUp, database>>

Crash ==
  /\ phase # "down"
  /\ phase' = "down" /\ attempt' = 0
  /\ UNCHANGED <<file, dbUp, database>>

\* Once the process serves, an outage is requests that fail.
DbFails ==
  /\ dbUp /\ ~Running
  /\ dbUp' = FALSE
  /\ UNCHANGED <<process, database>>

DbRecovers ==
  /\ ~dbUp /\ dbUp' = TRUE
  /\ UNCHANGED <<process, database>>

\* An administrator disables every copy of the default policy.
DisableDefault ==
  /\ Running
  /\ default' = "off"
  /\ UNCHANGED <<process, dbUp, applied, recorded>>
=============================================================================
