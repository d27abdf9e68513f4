------------------------------- MODULE Trails --------------------------------
(***************************************************************************)
(* openTrail in cmd/qryx: what --save-evidence and trend are given decides *)
(* whether the records are kept in a JSON Lines file or in a PostgreSQL    *)
(* table.  Every process that is given the same target gets the same       *)
(* backend; the other one stays as it is.                                  *)
(***************************************************************************)
EXTENDS JSONLTrail

CONSTANTS
    MaxRecords,  \* PostgresTrail
    MaxTime      \* its MaxStamp: records may be taken at the same time there

VARIABLES
    target,                                       \* "path" or "postgres"
    rows, nextId, dbClock, dbPc, dbArg, insert, fetched, dbGot, dbOutcome

DB == INSTANCE PostgresTrail WITH
          MaxStamp <- MaxTime,
          clock <- dbClock, pc <- dbPc, arg <- dbArg, got <- dbGot, outcome <- dbOutcome

TrailsOK == ConstantsOK /\ DB!TableOK

jsonl    == <<shortWrites, file, clock, pc, arg, left, seen, got, outcome>>
postgres == <<rows, nextId, dbClock, dbPc, dbArg, insert, fetched, dbGot, dbOutcome>>

trailsVars == <<target, jsonl, postgres>>

TrailsInit ==
    /\ target \in {"path", "postgres"}
    /\ IF target = "path" THEN Init ELSE shortWrites = FALSE /\ Init
    /\ DB!Init

TrailsNext ==
    /\ \/ target = "path" /\ Next /\ UNCHANGED postgres
       \/ target = "postgres" /\ DB!Next /\ UNCHANGED jsonl
    /\ UNCHANGED target

TrailsSpec == TrailsInit /\ [][TrailsNext]_trailsVars

-----------------------------------------------------------------------------

\* PostgresTrail.TrailSpec: the table is a log by time.  An append puts its
\* record behind every record taken before it, even when another commits in
\* between, and every trend that answers has seen the whole table.
TableTrail == DB!TrailSpec

=============================================================================
