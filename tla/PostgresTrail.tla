--------------------------- MODULE PostgresTrail ---------------------------
(***************************************************************************)
(* store.PostgresTrail: several qryx processes append to and read one      *)
(* evidence table.  Append is a single INSERT, History a single SELECT     *)
(* that lists the records by created_at and id.  The record's time is read *)
(* before the connection is made, so records may be committed in another   *)
(* order than they were taken in; the server may apply an INSERT whose     *)
(* answer never arrives.                                                   *)
(*                                                                         *)
(* The reader is trend --fail-on-regression, as in JSONLTrail.             *)
(***************************************************************************)
EXTENDS TrailData, FiniteSets, SequencesExt

CONSTANTS
    Client,
    None,
    MaxRecords  \* bound: records ever inserted

TableOK == ConstantsOK /\ MaxRecords \in Nat

VARIABLES
    rows,     \* the committed rows of evidence, in the order of their commits
    nextId,   \* the sequence behind evidence.id
    clock,    \* wall clock, read once per Append for CreatedAt
    pc,
    arg,      \* the record a client is appending, None when it is not
    insert,   \* the row its statement has inserted and not committed, or None
    fetched,  \* the rows its History's query returned, or None
    got,      \* the records its last History returned, None if it failed
    outcome   \* how its last call ended, for trend the exit code; none while one runs

vars == <<rows, nextId, clock, pc, arg, insert, fetched, got, outcome>>

Row == [id : 1 .. MaxRecords, rec : EvidenceRecord]

Init ==
    /\ rows = <<>>
    /\ nextId = 1
    /\ clock = 1
    /\ pc = [c \in Client |-> "ready"]
    /\ arg = [c \in Client |-> None]
    /\ insert = [c \in Client |-> None]
    /\ fetched = [c \in Client |-> None]
    /\ got = [c \in Client |-> None]
    /\ outcome = [c \in Client |-> "none"]

\* A call begins: it has not ended yet.
Call(c, l) ==
    /\ pc' = [pc EXCEPT ![c] = l]
    /\ outcome' = [outcome EXCEPT ![c] = "none"]

Goto(c, l) ==
    /\ pc' = [pc EXCEPT ![c] = l]
    /\ UNCHANGED outcome

Return(c, o) ==
    /\ pc' = [pc EXCEPT ![c] = "ready"]
    /\ outcome' = [outcome EXCEPT ![c] = o]
    /\ arg' = [arg EXCEPT ![c] = None]
    /\ insert' = [insert EXCEPT ![c] = None]
    /\ fetched' = [fetched EXCEPT ![c] = None]

-----------------------------------------------------------------------------
(* Append.                                                                 *)

\* time.Now, then Append; the clock may tick between two records or not.
Append1(c, s) ==
    /\ pc[c] = "ready"
    /\ nextId + Cardinality({d \in Client : pc[d] = "insert"}) <= MaxRecords
    /\ \E t \in {clock, clock + 1} \cap 1 .. MaxStamp :
          /\ arg' = [arg EXCEPT ![c] = [stamp |-> t, score |-> s]]
          /\ clock' = t
    /\ Call(c, "insert")
    /\ UNCHANGED <<rows, nextId, insert, fetched, got>>

\* The INSERT reaches the server, which takes an id; no failure gives it back.
Insert(c) ==
    /\ pc[c] = "insert"
    /\ insert' = [insert EXCEPT ![c] = [id |-> nextId, rec |-> arg[c]]]
    /\ nextId' = nextId + 1
    /\ Goto(c, "commit")
    /\ UNCHANGED <<rows, clock, arg, fetched, got>>

\* The server commits the statement; its answer may not arrive.
Commit(c) ==
    /\ pc[c] = "commit"
    /\ rows' = Append(rows, insert[c])
    /\ \E o \in {"ok", "failed"} : Return(c, o)
    /\ UNCHANGED <<nextId, clock, got>>

-----------------------------------------------------------------------------
(* History, and the trend gate on it.                                      *)

Trend(c) ==
    /\ pc[c] = "ready"
    /\ Call(c, "query")
    /\ UNCHANGED <<rows, nextId, clock, arg, insert, fetched, got>>

\* Mutant: ORDER BY id.
BeforeById(r, x) == r.id < x.id

\* ORDER BY created_at, id.
Before(r, x) ==
    \/ r.rec.stamp < x.rec.stamp
    \/ r.rec.stamp = x.rec.stamp /\ r.id < x.id

\* All the rows, in order.
Listing ==
    CHOOSE s \in [1 .. Len(rows) -> ToSet(rows)] :
        /\ ToSet(s) = ToSet(rows)
        /\ \A i, j \in DOMAIN s : i < j => Before(s[i], s[j])

Records(s) == [i \in DOMAIN s |-> s[i].rec]

Query(c) ==
    /\ pc[c] = "query"
    /\ fetched' = [fetched EXCEPT ![c] = Records(Listing)]
    /\ Goto(c, "scan")
    /\ UNCHANGED <<rows, nextId, clock, arg, insert, got>>

\* The loop over rows, and the verdict.
Scan(c) ==
    /\ pc[c] = "scan"
    /\ got' = [got EXCEPT ![c] = fetched[c]]
    /\ Return(c, TrendExit(fetched[c]))
    /\ UNCHANGED <<rows, nextId, clock>>

\* The connection fails, at any point, or the process is killed.
Fail(c) ==
    /\ pc[c] # "ready"
    /\ Return(c, "failed")
    /\ got' = IF pc[c] \in {"query", "scan"} THEN [got EXCEPT ![c] = None] ELSE got
    /\ UNCHANGED <<rows, nextId, clock>>

-----------------------------------------------------------------------------

Step(c) ==
    \/ \E s \in Scores : Append1(c, s)
    \/ Insert(c) \/ Commit(c)
    \/ Trend(c) \/ Query(c) \/ Scan(c)
    \/ Fail(c)

Next == \E c \in Client : Step(c)

Spec == Init /\ [][Next]_vars

-----------------------------------------------------------------------------
(* The table is a log by time.                                             *)

CallOf(c) ==
    CASE pc[c] = "ready" -> "ready"
      [] pc[c] = "query" -> "reading"
      [] pc[c] = "scan"  -> "observed"
      [] OTHER           -> "appending"

Trail == INSTANCE EvidenceTrail WITH
            log    <- Records(Listing),
            call   <- [c \in Client |-> CallOf(c)],
            got    <- [c \in Client |-> IF pc[c] = "scan" THEN fetched[c] ELSE got[c]],
            ByTime <- TRUE

\* An append puts its record behind every record taken before it, at one
\* instant or not at all, even when another commits in between; every trend
\* that answers has seen the whole table at one instant.
TrailSpec == Trail!Spec

=============================================================================
