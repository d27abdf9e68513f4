------------------------------- MODULE Targets -------------------------------
(***************************************************************************)
(* What the runs of qryx leave for later ones: snapshots in the target of  *)
(* --save and --baseline (Stores), evidence records in that of             *)
(* --save-evidence and trend (Trails).  Nothing that is done to one of     *)
(* them reaches the other.                                                 *)
(***************************************************************************)
EXTENDS Stores

CONSTANTS
    Kinds,                                    \* the targets in use: store, trail
    MaxStamp, Scores, MaxRecords, MaxTime     \* Trails

VARIABLES
    shortWrites, bytes, tick, step, record, left, seen, history, ended,
    sink, rows, ids, dbTick, dbStep, dbRecord, insert, fetched, dbHistory, dbEnded

T == INSTANCE Trails WITH
        file <- bytes, clock <- tick, pc <- step, arg <- record, got <- history,
        outcome <- ended, target <- sink, nextId <- ids, dbClock <- dbTick,
        dbPc <- dbStep, dbArg <- dbRecord, dbGot <- dbHistory, dbOutcome <- dbEnded

ASSUME TargetsAssumption == Kinds \subseteq {"store", "trail"} /\ T!TrailsOK

trails == <<shortWrites, bytes, tick, step, record, left, seen, history, ended,
            sink, rows, ids, dbTick, dbStep, dbRecord, insert, fetched, dbHistory,
            dbEnded>>

targetsVars == <<storesVars, trails>>

\* What a target that is not used looks like.
NoStore == target = "path" /\ file = None /\ Init /\ DB!Init
NoTrail == sink = "path" /\ shortWrites = FALSE /\ T!Init /\ T!DB!Init

TargetsInit ==
    /\ IF "store" \in Kinds THEN StoresInit ELSE NoStore
    /\ IF "trail" \in Kinds THEN T!TrailsInit ELSE NoTrail

TargetsNext ==
    \/ "store" \in Kinds /\ StoresNext /\ UNCHANGED trails
    \/ "trail" \in Kinds /\ T!TrailsNext /\ UNCHANGED storesVars

TargetsSpec == TargetsInit /\ [][TargetsNext]_targetsVars

-----------------------------------------------------------------------------

\* JSONLTrail.HistoryGrows: "A malformed line is an error to protect trail
\* integrity": what a History of the file returned once stays the beginning of
\* every later one, whatever was torn in between.
HistoryGrows == T!HistoryGrows

\* JSONLTrail.NoLockNeeded: as long as the system takes each line in one piece,
\* the file stays readable however appends race, fail or die.
NoLockNeeded == T!NoLockNeeded

\* JSONLTrail.TrailSpec: the file is a log in append order.  An append puts its
\* record at the end at one instant or not at all, and every trend that answers
\* has seen the whole file at one instant.
TrailSpec == T!TrailSpec

\* PostgresTrail.TrailSpec: the table is a log by time.  An append puts its
\* record behind every record taken before it, even when another commits in
\* between, and every trend that answers has seen the whole table.
TableTrail == T!TableTrail

=============================================================================
