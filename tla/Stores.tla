------------------------------- MODULE Stores --------------------------------
(***************************************************************************)
(* openStore in cmd/qryx: what --save and --baseline are given decides     *)
(* whether the snapshots are kept in a JSON file or in PostgreSQL tables.  *)
(* Every process that is given the same target gets the same backend; the  *)
(* other one stays as it is.                                               *)
(***************************************************************************)
EXTENDS JSONStore

CONSTANTS Asset, MaxScans   \* PostgresStore

VARIABLES
    target,                                       \* "path" or "postgres"
    scans, tx, nextId, clock, dbPc, dbArg, found, dbGot, dbOutcome

DB == INSTANCE PostgresStore WITH
          pc <- dbPc, arg <- dbArg, got <- dbGot, outcome <- dbOutcome

ASSUME StoresAssumption == DB!ConstantsOK

json     == <<file, tmp, pc, arg, got, outcome>>
postgres == <<scans, tx, nextId, clock, dbPc, dbArg, found, dbGot, dbOutcome>>

storesVars == <<target, json, postgres>>

StoresInit ==
    /\ target \in {"path", "postgres"}
    /\ IF target = "path" THEN Init ELSE file = None /\ Init
    /\ DB!Init

StoresNext ==
    /\ \/ target = "path" /\ Next /\ UNCHANGED postgres
       \/ target = "postgres" /\ DB!Next /\ UNCHANGED json
    /\ UNCHANGED target

StoresSpec == StoresInit /\ [][StoresNext]_storesVars

-----------------------------------------------------------------------------

\* PostgresStore.BaselineNeverOlder: the baseline in the tables never goes back
\* in time, even when a Save that took its snapshot earlier commits later.
BaselineNeverOlder == DB!BaselineNeverOlder

\* PostgresStore.CellSpec: the tables are one cell that hands out the snapshot
\* taken last, and a Load in three queries sees it at one instant, whole.
TableCell == DB!CellSpec

=============================================================================
