--------------------------- MODULE PostgresStore ---------------------------
(***************************************************************************)
(* store.PostgresStore: several qryx processes save to and load from one   *)
(* database.  Save inserts a scan, its assets and their occurrences in one *)
(* transaction; Load is three queries, each of which sees what was         *)
(* committed when it ran.  Any statement may fail, the process may be      *)
(* killed between any two of them, and the answer to COMMIT may be lost    *)
(* after the server applied it.                                            *)
(*                                                                         *)
(* The database is PostgreSQL at its default isolation, READ COMMITTED:    *)
(* ids come from a sequence, and no rollback gives one back.               *)
(***************************************************************************)
EXTENDS Naturals

CONSTANTS
    Client,
    Asset,      \* asset nodes a snapshot may hold
    MaxScans,   \* bound: scans ever inserted
    None

VARIABLES
    scans,    \* committed rows of scans, each with its assets and occurrences
    tx,       \* the rows a client's open transaction has inserted, or None
    nextId,   \* the sequence behind scans.id
    clock,    \* wall clock, read once per Save for CreatedAt
    pc,
    arg,      \* the snapshot a client is saving, or saved last
    found,    \* what a client's Load has read so far, or None
    got,      \* the snapshot its last Load returned, or None
    outcome

vars == <<scans, tx, nextId, clock, pc, arg, found, got, outcome>>

\* A snapshot: when it was taken, its asset nodes, those with occurrences.
Stored ==
    [taken : 1 .. MaxScans, assets : SUBSET Asset, occurrences : SUBSET Asset]

\* A row of scans, with the rows of assets and occurrences that refer to it.
Row == [id : 1 .. MaxScans, snap : Stored]

ConstantsOK == MaxScans \in Nat \ {0} /\ None \notin Stored /\ None \notin Row

InSave == {"begin", "insertScan", "insertAssets", "commit"}
InLoad == {"latest", "noRows", "loadAssets", "loadOccurrences", "answer"}

TypeOK ==
    /\ scans \in SUBSET Row
    /\ tx \in [Client -> Row \cup {None}]
    /\ nextId \in 1 .. MaxScans + 1
    /\ clock \in 1 .. MaxScans
    /\ pc \in [Client -> {"ready"} \cup InSave \cup InLoad]
    /\ arg \in [Client -> Stored \cup {None}]
    /\ found \in [Client -> Row \cup {None}]
    /\ got \in [Client -> Stored \cup {None}]
    /\ outcome \in [Client -> {"none", "ok", "notfound", "error"}]

Init ==
    /\ scans = {}
    /\ tx = [c \in Client |-> None]
    /\ nextId = 1
    /\ clock = 1
    /\ pc = [c \in Client |-> "ready"]
    /\ arg = [c \in Client |-> None]
    /\ found = [c \in Client |-> None]
    /\ got = [c \in Client |-> None]
    /\ outcome = [c \in Client |-> "none"]

saveVars == <<tx, nextId, clock, arg>>
loadVars == <<found, got>>

Goto(c, l) == pc' = [pc EXCEPT ![c] = l]

Return(c, o) ==
    /\ Goto(c, "ready")
    /\ outcome' = [outcome EXCEPT ![c] = o]

\* Any statement of a client may fail: the call returns its error and the
\* deferred Rollback drops the transaction.  So does the death of the process.
Fail(c) ==
    /\ pc[c] # "ready"
    /\ Return(c, "error")
    /\ tx' = [tx EXCEPT ![c] = None]
    /\ found' = [found EXCEPT ![c] = None]
    /\ got' = IF pc[c] \in InSave THEN got ELSE [got EXCEPT ![c] = None]
    /\ UNCHANGED <<scans, nextId, clock, arg>>

-----------------------------------------------------------------------------
(* Save.                                                                   *)

\* Snap stamps the snapshot just before Save; the clock may tick in between
\* two of them or not.
Save(c, as) ==
    /\ pc[c] = "ready"
    /\ nextId <= MaxScans
    /\ \E t \in {clock, clock + 1} \cap 1 .. MaxScans :
          /\ arg' = [arg EXCEPT ![c] =
                       [taken |-> t, assets |-> as, occurrences |-> as]]
          /\ clock' = t
    /\ Goto(c, "begin")
    /\ UNCHANGED <<scans, tx, nextId, outcome>>
    /\ UNCHANGED loadVars

Begin(c) ==
    /\ pc[c] = "begin"
    /\ Goto(c, "insertScan")
    /\ UNCHANGED <<scans, outcome>>
    /\ UNCHANGED saveVars
    /\ UNCHANGED loadVars

InsertScan(c) ==
    /\ pc[c] = "insertScan"
    /\ nextId <= MaxScans
    /\ tx' = [tx EXCEPT ![c] =
                [id |-> nextId, snap |-> [taken |-> arg[c].taken,
                                          assets |-> {}, occurrences |-> {}]]]
    /\ nextId' = nextId + 1
    /\ Goto(c, "insertAssets")
    /\ UNCHANGED <<scans, clock, arg, outcome>>
    /\ UNCHANGED loadVars

\* One turn of the loop over snap.Assets, its asset's occurrences included.
WithAsset(r, a) == [r EXCEPT !.snap.assets = @ \cup {a},
                             !.snap.occurrences = @ \cup {a}]

\* Mutant: each statement commits on its own, as it would without Begin.
InsertAssetAutoCommit(c) ==
    /\ pc[c] = "insertAssets"
    /\ \E a \in arg[c].assets \ tx[c].snap.assets :
          /\ tx' = [tx EXCEPT ![c] = WithAsset(@, a)]
          /\ scans' = (scans \ {tx[c]}) \cup {WithAsset(tx[c], a)}
    /\ UNCHANGED <<nextId, clock, pc, arg, outcome>>
    /\ UNCHANGED loadVars

InsertAsset(c) ==
    /\ pc[c] = "insertAssets"
    /\ \E a \in arg[c].assets \ tx[c].snap.assets :
          tx' = [tx EXCEPT ![c] = WithAsset(@, a)]
    /\ UNCHANGED <<scans, nextId, clock, pc, arg, outcome>>
    /\ UNCHANGED loadVars

EndLoop(c) ==
    /\ pc[c] = "insertAssets"
    /\ tx[c].snap.assets = arg[c].assets
    /\ Goto(c, "commit")
    /\ UNCHANGED <<scans, outcome>>
    /\ UNCHANGED saveVars
    /\ UNCHANGED loadVars

\* The server applies the transaction; its answer may not arrive.
Commit(c) ==
    /\ pc[c] = "commit"
    /\ scans' = scans \cup {tx[c]}
    /\ tx' = [tx EXCEPT ![c] = None]
    /\ \E o \in {"ok", "error"} : Return(c, o)
    /\ UNCHANGED <<nextId, clock, arg>>
    /\ UNCHANGED loadVars

-----------------------------------------------------------------------------
(* Load.                                                                   *)

Load(c) ==
    /\ pc[c] = "ready"
    /\ Goto(c, "latest")
    /\ UNCHANGED <<scans, outcome>>
    /\ UNCHANGED saveVars
    /\ UNCHANGED loadVars

\* Mutant: ORDER BY id alone.
NewerById(r, x) == r.id > x.id

\* ORDER BY created_at DESC, id DESC.
Newer(r, x) ==
    \/ r.snap.taken > x.snap.taken
    \/ r.snap.taken = x.snap.taken /\ r.id > x.id

Latest == CHOOSE r \in scans : \A x \in scans \ {r} : Newer(r, x)

Unread(r) == [r EXCEPT !.snap.assets = {}, !.snap.occurrences = {}]

SelectLatest(c) ==
    /\ pc[c] = "latest"
    /\ IF scans = {}
         THEN Goto(c, "noRows") /\ UNCHANGED found
         ELSE Goto(c, "loadAssets") /\ found' = [found EXCEPT ![c] = Unread(Latest)]
    /\ UNCHANGED <<scans, got, outcome>>
    /\ UNCHANGED saveVars

NotFound(c) ==
    /\ pc[c] = "noRows"
    /\ got' = [got EXCEPT ![c] = None]
    /\ Return(c, "notfound")
    /\ UNCHANGED <<scans, found>>
    /\ UNCHANGED saveVars

\* The committed rows that refer to the scan the first query returned.
Current(c) == CHOOSE r \in scans : r.id = found[c].id

LoadAssets(c) ==
    /\ pc[c] = "loadAssets"
    /\ found' = [found EXCEPT ![c].snap.assets = Current(c).snap.assets]
    /\ Goto(c, "loadOccurrences")
    /\ UNCHANGED <<scans, got, outcome>>
    /\ UNCHANGED saveVars

\* An occurrence whose asset was not read is dropped.
LoadOccurrences(c) ==
    /\ pc[c] = "loadOccurrences"
    /\ found' = [found EXCEPT ![c].snap.occurrences =
                   found[c].snap.assets \cap Current(c).snap.occurrences]
    /\ Goto(c, "answer")
    /\ UNCHANGED <<scans, got, outcome>>
    /\ UNCHANGED saveVars

Answer(c) ==
    /\ pc[c] = "answer"
    /\ got' = [got EXCEPT ![c] = found[c].snap]
    /\ found' = [found EXCEPT ![c] = None]
    /\ Return(c, "ok")
    /\ UNCHANGED scans
    /\ UNCHANGED saveVars

-----------------------------------------------------------------------------

Step(c) ==
    \/ \E as \in SUBSET Asset : Save(c, as)
    \/ Begin(c) \/ InsertScan(c) \/ InsertAsset(c) \/ EndLoop(c) \/ Commit(c)
    \/ Load(c) \/ SelectLatest(c) \/ NotFound(c)
    \/ LoadAssets(c) \/ LoadOccurrences(c) \/ Answer(c)
    \/ Fail(c)

Next == \E c \in Client : Step(c)

Spec == Init /\ [][Next]_vars

-----------------------------------------------------------------------------

\* What a Load that starts now would hand out.
Best == IF scans = {} THEN None ELSE Latest.snap

\* The baseline never goes back in time, even when a Save that took its
\* snapshot earlier commits later: Load's ORDER BY created_at, and no
\* statement of Save, decides which snapshot is the baseline.
BaselineNeverOlder ==
    [][Best # None => Best' # None /\ Best'.taken >= Best.taken]_vars

-----------------------------------------------------------------------------
(* The tables are one cell that hands out the snapshot taken last.         *)

CallOf(l) ==
    CASE l \in InSave   -> "saving"
      [] l = "latest"   -> "loading"
      [] l = "ready"    -> "ready"
      [] OTHER          -> "observed"

\* A Load that is past its first query has observed the scan it selected,
\* and returns it whole.
Observed(c) ==
    CASE pc[c] \in {"loadAssets", "loadOccurrences", "answer"} -> Current(c).snap
      [] pc[c] = "noRows" -> None
      [] OTHER -> got[c]

\* The tables implement the Store interface's promise (SnapshotStore): Save is
\* one instant or nothing, Load sees one instant, racing saves leave the
\* snapshot taken last.
Cell == INSTANCE SnapshotStore WITH
            Snapshot   <- Stored,
            Taken      <- [s \in Stored |-> s.taken],
            KeepNewest <- TRUE,
            value      <- Best,
            call       <- [c \in Client |-> CallOf(pc[c])],
            got        <- [c \in Client |-> Observed(c)]

CellSpec == Cell!Spec

=============================================================================
