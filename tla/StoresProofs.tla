---------------------------- MODULE StoresProofs ----------------------------
(***************************************************************************)
(* For any number of processes and snapshots, and whichever backend is     *)
(* chosen: the target file is never half written, no Load returns half a   *)
(* snapshot and the file implements the single cell of SnapshotStore; the  *)
(* baseline in the tables never goes back in time, and the tables          *)
(* implement the cell that hands out the snapshot taken last.              *)
(*                                                                         *)
(* The trails, which runs keep beside the stores: a JSON Lines file that   *)
(* is written in pieces without a lock is a log in the order of the        *)
(* appends, the table is a log in the order the records were taken in.     *)
(***************************************************************************)
EXTENDS Targets, Sequences, WellFoundedInduction, TLAPS

-----------------------------------------------------------------------------
(* The file (JSONStore).                                                   *)


\* Between the last byte and the rename, a client's temporary file holds the
\* whole snapshot it was given: the file it then renames over the target.
TmpComplete ==
    \A c \in Client : pc[c] \in {"close", "rename"} => tmp[c] = Whole(arg[c])

IInv == TypeOK /\ TargetWhole /\ LoadSeesWhole /\ TmpComplete

LEMMA ContentOf ==
    ASSUME NEW s \in Snapshot
    PROVE  Whole(s) \in Content /\ Partial(s) \in Content /\ Whole(s).whole
BY DEF Whole, Partial, Content

LEMMA InitIInv == Init => IInv
<1> SUFFICES ASSUME Init PROVE IInv
  OBVIOUS
<1>1. TypeOK
  BY ContentOf DEF Init, TypeOK, InSave
<1>2. TargetWhole /\ LoadSeesWhole /\ TmpComplete
  BY ContentOf DEF Init, TargetWhole, LoadSeesWhole, TmpComplete
<1> QED
  BY <1>1, <1>2 DEF IInv

-----------------------------------------------------------------------------

LEMMA StepType ==
    ASSUME TypeOK, NEW c \in Client, Step(c)
    PROVE  TypeOK'
<1> USE DEF TypeOK, InSave, InLoad, Goto, Return, SetTmp
<1>1. ASSUME NEW s \in Snapshot, Save(c, s) PROVE TypeOK'
  BY <1>1 DEF Save
<1>2. CASE CreateTemp(c)
  BY <1>2, ContentOf DEF CreateTemp
<1>3. CASE Write(c)
  BY <1>3 DEF Write
<1>4. CASE FinishWrite(c)
  BY <1>4, ContentOf DEF FinishWrite
<1>5. CASE Close(c)
  BY <1>5 DEF Close
<1>6. CASE Rename(c)
  BY <1>6 DEF Rename
<1>7. CASE Load(c)
  BY <1>7 DEF Load
<1>8. CASE Open(c)
  BY <1>8 DEF Open
<1>9. CASE Read(c)
  <2>1. PICK o \in {Verdict(got[c]), "error"} :
           /\ Return(c, o)
           /\ got' = IF o = "error" THEN [got EXCEPT ![c] = None] ELSE got
    BY <1>9 DEF Read
  <2>2. o \in {"ok", "notfound", "error"}
    BY DEF Verdict
  <2> QED
    BY <1>9, <2>1, <2>2 DEF Read
<1>10. CASE Kill(c)
  BY <1>10 DEF Kill
<1> QED
  BY <1>1, <1>2, <1>3, <1>4, <1>5, <1>6, <1>7, <1>8, <1>9, <1>10 DEF Step

LEMMA StepTmp ==
    ASSUME TypeOK, TmpComplete, NEW c \in Client, Step(c)
    PROVE  TmpComplete'
<1> USE DEF TypeOK, TmpComplete, InSave, InLoad, Goto, Return, SetTmp
<1>1. ASSUME NEW s \in Snapshot, Save(c, s) PROVE TmpComplete'
  BY <1>1 DEF Save
<1>2. CASE CreateTemp(c) \/ Write(c) \/ FinishWrite(c) \/ Close(c)
  BY <1>2 DEF CreateTemp, Write, FinishWrite, Close
<1>3. CASE Rename(c) \/ Load(c) \/ Open(c) \/ Read(c) \/ Kill(c)
  BY <1>3 DEF Rename, Load, Open, Read, Kill
<1> QED
  BY <1>1, <1>2, <1>3 DEF Step

\* Only Rename changes the target, and it installs a complete file.
LEMMA StepTarget ==
    ASSUME IInv, NEW c \in Client, Step(c)
    PROVE  TargetWhole'
<1> USE DEF IInv, TypeOK, TargetWhole, TmpComplete, InSave
<1>1. CASE Rename(c)
  BY <1>1, ContentOf DEF Rename
<1>2. CASE UNCHANGED file
  BY <1>2
<1> QED
  BY <1>1, <1>2 DEF Step, Save, CreateTemp, Write, FinishWrite, Close,
     Load, Open, Read, Kill

\* Only Open takes something in, and it takes in the target.
LEMMA StepLoad ==
    ASSUME IInv, NEW c \in Client, Step(c)
    PROVE  LoadSeesWhole'
<1> USE DEF IInv, TypeOK, TargetWhole, LoadSeesWhole
<1>1. CASE UNCHANGED got
  BY <1>1
<1>2. CASE got' = [got EXCEPT ![c] = None]
  BY <1>2
<1>3. CASE got' = [got EXCEPT ![c] = file]
  BY <1>3
<1> QED
  BY <1>1, <1>2, <1>3 DEF Step, Save, CreateTemp, Write, FinishWrite, Close,
     Rename, Load, Open, Read, Kill

LEMMA NextIInv == IInv /\ [Next]_vars => IInv'
<1> SUFFICES ASSUME IInv, [Next]_vars PROVE IInv'
  OBVIOUS
<1>1. ASSUME NEW c \in Client, Step(c) PROVE IInv'
  BY <1>1, StepType, StepTmp, StepTarget, StepLoad DEF IInv
<1>2. CASE UNCHANGED vars
  BY <1>2 DEF vars, IInv, TypeOK, TargetWhole, LoadSeesWhole, TmpComplete
<1> QED
  BY <1>1, <1>2 DEF Next

THEOREM Invariance == Spec => []IInv
BY InitIInv, NextIInv, PTL DEF Spec

\* Every variable keeps its type (JSONStore.Save and Load).
THEOREM TypeCorrect == Spec => []TypeOK
BY Invariance, PTL DEF IInv

\* However many saves are interrupted, at whichever system call, the target is
\* absent or holds all the bytes of one snapshot (JSONStore.Save).
THEOREM TargetIsWhole == Spec => []TargetWhole
BY Invariance, PTL DEF IInv

\* No Load that races a Save returns half a snapshot (JSONStore.Load).
THEOREM LoadIsWhole == Spec => []LoadSeesWhole
BY Invariance, PTL DEF IInv

-----------------------------------------------------------------------------
(* Refinement: what each system call is to the cell.                       *)

Calls == [d \in Client |-> CallOf(pc[d])]
Gots  == [d \in Client |-> SnapOf(got[d])]

LEMMA CallsGoto ==
    ASSUME TypeOK, NEW c \in Client, NEW l, Goto(c, l)
    PROVE  Calls' = [Calls EXCEPT ![c] = CallOf(l)]
BY DEF TypeOK, Goto, Calls

LEMMA GotsSet ==
    ASSUME TypeOK, NEW c \in Client, NEW x, got' = [got EXCEPT ![c] = x]
    PROVE  Gots' = [Gots EXCEPT ![c] = SnapOf(x)]
BY DEF TypeOK, Gots

LEMMA CallNames ==
    /\ \A l \in InSave : CallOf(l) = "saving"
    /\ CallOf("open") = "loading" /\ CallOf("read") = "observed"
    /\ CallOf("ready") = "ready"
BY DEF CallOf, InSave

LEMMA SnapNames ==
    /\ SnapOf(None) = None
    /\ \A s \in Snapshot : SnapOf(Whole(s)) = s
BY NoneAssumption, ContentOf DEF SnapOf, Whole

LEMMA InitCell == Init => Cell!Init
<1> SUFFICES ASSUME Init PROVE Cell!Init
  OBVIOUS
<1>1. SnapOf(file) \in Snapshot \cup {None}
  BY SnapNames DEF Init
<1>2. Calls = [c \in Client |-> "ready"]
  BY CallNames DEF Init, Calls
<1>3. Gots = [c \in Client |-> None]
  BY SnapNames DEF Init, Gots
<1> QED
  BY <1>1, <1>2, <1>3 DEF Init, Cell!Init, Calls, Gots

\* A call that ends without having done anything.
LEMMA AbandonStep ==
    ASSUME IInv, NEW c \in Client, pc[c] # "ready",
           NEW o \in {"error", "killed"}, Return(c, o),
           UNCHANGED <<file, arg>>,
           got' = IF pc[c] \in InLoad THEN [got EXCEPT ![c] = None] ELSE got
    PROVE  Cell!Abandon(c)
<1>1. Calls' = [Calls EXCEPT ![c] = "ready"]
  BY CallsGoto, CallNames DEF Return, IInv
<1>2. Calls[c] # "ready"
  BY CallNames DEF Calls, IInv, TypeOK, InLoad
<1>3. Gots' = IF Calls[c] = "saving" THEN Gots ELSE [Gots EXCEPT ![c] = None]
  <2>1. CASE pc[c] \in InLoad
    <3>1. Gots' = [Gots EXCEPT ![c] = None]
      BY <2>1, GotsSet, SnapNames DEF IInv
    <3>2. CallOf(pc[c]) # "saving"
      BY <2>1, CallNames DEF InLoad
    <3>3. Calls[c] # "saving"
      BY <3>2 DEF Calls
    <3> QED
      BY <3>1, <3>3
  <2>2. CASE pc[c] \notin InLoad
    BY <2>2, CallNames DEF IInv, TypeOK, Calls, Gots
  <2> QED
    BY <2>1, <2>2
<1>4. UNCHANGED SnapOf(file)
  BY DEF SnapOf
<1> QED
  BY <1>1, <1>2, <1>3, <1>4 DEF Return, Cell!Abandon, Cell!Return, Calls, Gots

\* A system call the cell does not see: the call is still where it was.
LEMMA StutterStep ==
    ASSUME IInv, NEW c \in Client, NEW l \in InSave, pc[c] \in InSave,
           Goto(c, l), UNCHANGED <<file, arg, got, outcome>>
    PROVE  UNCHANGED Cell!vars
<1>1. UNCHANGED Calls
  <2>1. Calls' = [Calls EXCEPT ![c] = "saving"]
    BY CallsGoto, CallNames DEF IInv
  <2> QED
    BY <2>1, CallNames DEF Calls
<1>2. UNCHANGED Gots /\ UNCHANGED SnapOf(file)
  BY DEF Gots, SnapOf
<1> QED
  BY <1>1, <1>2 DEF Cell!vars, Calls, Gots

LEMMA SaveSimulates ==
    ASSUME IInv, NEW c \in Client, NEW s \in Snapshot, Save(c, s)
    PROVE  Cell!Save(c, s)
<1>1. Calls' = [Calls EXCEPT ![c] = "saving"]
  BY CallsGoto, CallNames DEF Save, IInv, InSave
<1>2. Calls[c] = "ready"
  BY CallNames DEF Calls, Save
<1>3. UNCHANGED Gots /\ UNCHANGED SnapOf(file)
  BY DEF Save, Gots, SnapOf
<1> QED
  BY <1>1, <1>2, <1>3 DEF Save, Cell!Save, Calls, Gots

LEMMA RenameSimulates ==
    ASSUME IInv, NEW c \in Client, Rename(c)
    PROVE  Cell!Commit(c) \/ Cell!Abandon(c)
<1>1. CASE file' = tmp[c] /\ Return(c, "ok")
  <2>1. Calls' = [Calls EXCEPT ![c] = "ready"]
    BY <1>1, CallsGoto, CallNames DEF Return, IInv
  <2>2. Calls[c] = "saving"
    BY CallNames DEF Calls, Rename, InSave
  <2>3. SnapOf(file') = arg[c]
    BY <1>1, SnapNames DEF Rename, IInv, TypeOK, TmpComplete, InSave
  <2>4. UNCHANGED Gots /\ UNCHANGED arg
    BY DEF Rename, Gots
  <2>5. SnapOf(file)' = SnapOf(file')
    BY DEF SnapOf
  <2>6. Cell!Publish(arg[c])
    BY <2>3, <2>5 DEF Cell!Publish
  <2>7. Cell!Return(c, "ok")
    BY <1>1, <2>1 DEF Return, Cell!Return, Calls
  <2> QED
    BY <2>2, <2>4, <2>6, <2>7 DEF Cell!Commit, Calls, Gots
<1>2. CASE UNCHANGED file /\ Return(c, "error")
  BY <1>2, AbandonStep DEF Rename, InLoad
<1> QED
  BY <1>1, <1>2 DEF Rename

LEMMA LoadSimulates ==
    ASSUME IInv, NEW c \in Client, Load(c)
    PROVE  Cell!Load(c)
<1>1. Calls' = [Calls EXCEPT ![c] = "loading"]
  BY CallsGoto, CallNames DEF Load, IInv
<1>2. Calls[c] = "ready"
  BY CallNames DEF Calls, Load
<1>3. UNCHANGED Gots /\ UNCHANGED SnapOf(file)
  BY DEF Load, Gots, SnapOf
<1> QED
  BY <1>1, <1>2, <1>3 DEF Load, Cell!Load, Calls, Gots

LEMMA OpenSimulates ==
    ASSUME IInv, NEW c \in Client, Open(c)
    PROVE  Cell!Observe(c) \/ Cell!Abandon(c)
<1>1. CASE got' = [got EXCEPT ![c] = file] /\ Goto(c, "read") /\ UNCHANGED outcome
  <2>1. Calls' = [Calls EXCEPT ![c] = "observed"]
    BY <1>1, CallsGoto, CallNames DEF IInv
  <2>2. Calls[c] = "loading"
    BY CallNames DEF Calls, Open
  <2>3. Gots' = [Gots EXCEPT ![c] = SnapOf(file)]
    BY <1>1, GotsSet DEF IInv
  <2>4. UNCHANGED SnapOf(file)
    BY DEF Open, SnapOf
  <2> QED
    BY <1>1, <2>1, <2>2, <2>3, <2>4 DEF Open, Cell!Observe, Calls, Gots
<1>2. CASE Return(c, "error") /\ got' = [got EXCEPT ![c] = None]
  BY <1>2, AbandonStep DEF Open, InLoad
<1> QED
  BY <1>1, <1>2 DEF Open

LEMMA ReadSimulates ==
    ASSUME IInv, NEW c \in Client, Read(c)
    PROVE  Cell!Answer(c) \/ Cell!Abandon(c)
<1>1. PICK o \in {Verdict(got[c]), "error"} :
         /\ Return(c, o)
         /\ got' = IF o = "error" THEN [got EXCEPT ![c] = None] ELSE got
  BY DEF Read
<1>2. CASE o = "error"
  BY <1>1, <1>2, AbandonStep DEF Read, InLoad
<1>3. CASE o # "error"
  <2>1. Calls' = [Calls EXCEPT ![c] = "ready"]
    BY <1>1, CallsGoto, CallNames DEF Return, IInv
  <2>2. Calls[c] = "observed"
    BY CallNames DEF Calls, Read
  <2>3. UNCHANGED Gots /\ UNCHANGED SnapOf(file)
    BY <1>1, <1>3 DEF Read, Gots, SnapOf
  <2>4. o = IF Gots[c] = None THEN "notfound" ELSE "ok"
    <3>1. Gots[c] = None <=> got[c] = None
      BY NoneAssumption DEF Gots, SnapOf, IInv, TypeOK, Content
    <3> QED
      BY <1>1, <1>3, <3>1 DEF Verdict, IInv, LoadSeesWhole
  <2>5. Cell!Return(c, IF Gots[c] = None THEN "notfound" ELSE "ok")
    BY <1>1, <2>1, <2>4 DEF Return, Cell!Return, Calls
  <2> QED
    BY <2>2, <2>3, <2>5 DEF Read, Cell!Answer, Calls, Gots
<1> QED
  BY <1>2, <1>3

LEMMA StepSimulates ==
    ASSUME IInv, NEW c \in Client, Step(c)
    PROVE  Cell!Next \/ UNCHANGED Cell!vars
<1>1. ASSUME NEW s \in Snapshot, Save(c, s) PROVE Cell!Next
  BY <1>1, SaveSimulates DEF Cell!Next
<1>2. ASSUME CreateTemp(c) \/ Write(c) \/ FinishWrite(c) \/ Close(c)
      PROVE  Cell!Next \/ UNCHANGED Cell!vars
  <2>1. pc[c] \in InSave /\ pc[c] # "ready" /\ pc[c] \notin InLoad
        /\ UNCHANGED <<file, arg, got>>
    BY <1>2 DEF CreateTemp, Write, FinishWrite, Close, InSave, InLoad
  <2>2. Return(c, "error") \/ \E l \in InSave : Goto(c, l) /\ UNCHANGED outcome
    BY <1>2 DEF CreateTemp, Write, FinishWrite, Close, InSave
  <2>3. CASE Return(c, "error")
    BY <2>1, <2>3, AbandonStep DEF Cell!Next
  <2>4. ASSUME NEW l \in InSave, Goto(c, l), UNCHANGED outcome
        PROVE  UNCHANGED Cell!vars
    BY <2>1, <2>4, StutterStep
  <2> QED
    BY <2>2, <2>3, <2>4
<1>3. CASE Rename(c)
  BY <1>3, RenameSimulates DEF Cell!Next
<1>4. CASE Load(c)
  BY <1>4, LoadSimulates DEF Cell!Next
<1>5. CASE Open(c)
  BY <1>5, OpenSimulates DEF Cell!Next
<1>6. CASE Read(c)
  BY <1>6, ReadSimulates DEF Cell!Next
<1>7. CASE Kill(c)
  BY <1>7, AbandonStep DEF Kill, Cell!Next
<1> QED
  BY <1>1, <1>2, <1>3, <1>4, <1>5, <1>6, <1>7 DEF Step

\* The temporary file and the rename make one cell of the target: Save takes
\* effect at the rename or not at all, Load sees what Open found (JSONStore
\* implements the promise of the Store interface).
THEOREM FileIsCell == Spec => CellSpec
<1>1. ASSUME IInv, [Next]_vars PROVE [Cell!Next]_(Cell!vars)
  <2>1. CASE UNCHANGED vars
    BY <2>1 DEF vars, Cell!vars
  <2>2. CASE Next
    BY <2>2, <1>1, StepSimulates DEF Next
  <2> QED
    BY <1>1, <2>1, <2>2
<1> QED
  BY <1>1, InitCell, Invariance, PTL DEF Spec, CellSpec, Cell!Spec

-----------------------------------------------------------------------------
(* The tables (PostgresStore): the invariant.                              *)

\* Every committed scan has an id of its own, given out by the sequence, and an
\* occurrence row for every asset row.
RowsWhole ==
    /\ \A r \in scans : r.id < nextId /\ r.snap.occurrences = r.snap.assets
    /\ \A r, x \in scans : r.id = x.id => r = x

\* What a client saves has an occurrence for every asset.
ArgWhole ==
    \A c \in Client : dbPc[c] \in DB!InSave =>
        dbArg[c] \in DB!Stored /\ dbArg[c].occurrences = dbArg[c].assets

InTx == {"insertAssets", "commit"}

\* An open transaction holds a scan of its own, with the first assets of the
\* snapshot that is saved, and all of them once the loop is over.
TxGrows ==
    \A c \in Client : dbPc[c] \in InTx =>
        /\ tx[c] \in DB!Row
        /\ tx[c].id < nextId
        /\ tx[c].snap.taken = dbArg[c].taken
        /\ tx[c].snap.occurrences = tx[c].snap.assets
        /\ dbPc[c] = "commit" => tx[c].snap.assets = dbArg[c].assets

TxApart ==
    \A c \in Client : dbPc[c] \in InTx =>
        /\ \A r \in scans : r.id # tx[c].id
        /\ \A d \in Client \ {c} : dbPc[d] \in InTx => tx[d].id # tx[c].id

InRead == {"loadAssets", "loadOccurrences", "answer"}

\* What a Load has read is the part of one committed scan its queries have
\* come to.
Reading ==
    \A c \in Client : dbPc[c] \in InRead =>
        /\ found[c] \in DB!Row
        /\ \E r \in scans :
              /\ r.id = found[c].id
              /\ r.snap.taken = found[c].snap.taken
              /\ dbPc[c] # "loadAssets" => found[c].snap.assets = r.snap.assets
              /\ dbPc[c] = "answer" => found[c].snap.occurrences = r.snap.assets

\* Among the committed scans one is newer than all the others.
LatestIsThere ==
    scans # {} => \E r \in scans : \A x \in scans \ {r} : DB!Newer(r, x)

TablesInv ==
    /\ DB!TypeOK
    /\ RowsWhole
    /\ ArgWhole
    /\ TxGrows
    /\ TxApart
    /\ Reading
    /\ LatestIsThere

-----------------------------------------------------------------------------
(* The tables: what its operators give.                                    *)

LEMMA RowWithAsset ==
    ASSUME NEW r \in DB!Row, NEW a \in Asset
    PROVE  /\ DB!WithAsset(r, a) \in DB!Row
           /\ DB!WithAsset(r, a).id = r.id
           /\ DB!WithAsset(r, a).snap.taken = r.snap.taken
           /\ DB!WithAsset(r, a).snap.assets = r.snap.assets \cup {a}
           /\ DB!WithAsset(r, a).snap.occurrences = r.snap.occurrences \cup {a}
BY DEF DB!WithAsset, DB!Row, DB!Stored

LEMMA UnreadRow ==
    ASSUME NEW r \in DB!Row
    PROVE  /\ DB!Unread(r) \in DB!Row
           /\ DB!Unread(r).id = r.id
           /\ DB!Unread(r).snap.taken = r.snap.taken
BY DEF DB!Unread, DB!Row, DB!Stored

\* Ids break the ties between rows taken at one time.
LEMMA NewerIsTotal ==
    ASSUME NEW r \in DB!Row, NEW x \in DB!Row, r.id # x.id
    PROVE  DB!Newer(r, x) \/ DB!Newer(x, r)
BY StoresAssumption DEF DB!Newer, DB!Row, DB!Stored, DB!ConstantsOK

LEMMA NewerIsTransitive ==
    ASSUME NEW r \in DB!Row, NEW x \in DB!Row, NEW y \in DB!Row,
           DB!Newer(r, x), DB!Newer(x, y)
    PROVE  DB!Newer(r, y)
BY StoresAssumption DEF DB!Newer, DB!Row, DB!Stored, DB!ConstantsOK

LEMMA LatestIs ==
    ASSUME LatestIsThere, scans # {}
    PROVE  /\ DB!Latest \in scans
           /\ \A x \in scans \ {DB!Latest} : DB!Newer(DB!Latest, x)
BY DEF LatestIsThere, DB!Latest

\* The one row with the id the first query returned.
LEMMA CurrentIs ==
    ASSUME RowsWhole, NEW c \in Client, NEW r \in scans, r.id = found[c].id
    PROVE  DB!Current(c) = r
BY DEF RowsWhole, DB!Current

LEMMA ReadingCurrent ==
    ASSUME TablesInv, NEW c \in Client, dbPc[c] \in InRead
    PROVE  /\ DB!Current(c) \in scans
           /\ DB!Current(c) \in DB!Row
           /\ DB!Current(c).id = found[c].id
           /\ DB!Current(c).snap.taken = found[c].snap.taken
           /\ DB!Current(c).snap.occurrences = DB!Current(c).snap.assets
           /\ dbPc[c] # "loadAssets"
                => found[c].snap.assets = DB!Current(c).snap.assets
           /\ dbPc[c] = "answer"
                => found[c].snap.occurrences = DB!Current(c).snap.assets
<1>1. PICK r \in scans :
         /\ r.id = found[c].id
         /\ r.snap.taken = found[c].snap.taken
         /\ dbPc[c] # "loadAssets" => found[c].snap.assets = r.snap.assets
         /\ dbPc[c] = "answer" => found[c].snap.occurrences = r.snap.assets
  BY DEF TablesInv, Reading
<1>2. DB!Current(c) = r
  BY <1>1, CurrentIs DEF TablesInv
<1>3. r \in DB!Row /\ r.snap.occurrences = r.snap.assets
  BY DEF TablesInv, DB!TypeOK, RowsWhole
<1> QED
  BY <1>1, <1>2, <1>3

LEMMA TablesInit == DB!Init => TablesInv
<1> SUFFICES ASSUME DB!Init PROVE TablesInv
  OBVIOUS
<1>1. 1 \in 1 .. MaxScans /\ 1 \in 1 .. MaxScans + 1
  BY StoresAssumption DEF DB!ConstantsOK
<1>2. DB!TypeOK
  BY <1>1 DEF DB!Init, DB!TypeOK
<1>3. RowsWhole /\ ArgWhole /\ TxGrows /\ TxApart /\ Reading /\ LatestIsThere
  BY DEF DB!Init, RowsWhole, ArgWhole, TxGrows, TxApart, Reading, LatestIsThere,
         DB!InSave, InTx, InRead
<1> QED
  BY <1>2, <1>3 DEF TablesInv

-----------------------------------------------------------------------------
(* The tables: every step keeps the invariant.                             *)

LEMMA TablesType ==
    ASSUME TablesInv, NEW c \in Client, DB!Step(c)
    PROVE  DB!TypeOK'
<1> USE DEF TablesInv, DB!TypeOK, DB!Goto, DB!Return, DB!InSave, DB!InLoad,
            DB!saveVars, DB!loadVars
<1>1. ASSUME NEW as \in SUBSET Asset, DB!Save(c, as) PROVE DB!TypeOK'
  <2>1. PICK t \in 1 .. MaxScans :
           /\ dbArg' = [dbArg EXCEPT ![c] =
                          [taken |-> t, assets |-> as, occurrences |-> as]]
           /\ clock' = t
    BY <1>1 DEF DB!Save
  <2>2. [taken |-> t, assets |-> as, occurrences |-> as] \in DB!Stored
    BY DEF DB!Stored
  <2> QED
    BY <1>1, <2>1, <2>2 DEF DB!Save
<1>2. CASE DB!Begin(c) \/ DB!EndLoop(c) \/ DB!Load(c)
  BY <1>2 DEF DB!Begin, DB!EndLoop, DB!Load
<1>3. CASE DB!InsertScan(c)
  <2> DEFINE row == [id |-> nextId, snap |-> [taken |-> dbArg[c].taken,
                                              assets |-> {}, occurrences |-> {}]]
  <2>1. dbArg[c].taken \in 1 .. MaxScans
    BY <1>3 DEF DB!InsertScan, ArgWhole, DB!Stored
  <2>2. nextId \in 1 .. MaxScans /\ nextId + 1 \in 1 .. MaxScans + 1
    BY <1>3, StoresAssumption DEF DB!InsertScan, DB!ConstantsOK
  <2>3. row \in DB!Row
    BY <2>1, <2>2 DEF DB!Row, DB!Stored
  <2> HIDE DEF row
  <2>4. tx' = [tx EXCEPT ![c] = row]
    BY <1>3 DEF DB!InsertScan, row
  <2> QED
    BY <1>3, <2>2, <2>3, <2>4 DEF DB!InsertScan
<1>4. CASE DB!InsertAsset(c)
  <2>1. PICK a \in dbArg[c].assets \ tx[c].snap.assets :
           tx' = [tx EXCEPT ![c] = DB!WithAsset(tx[c], a)]
    BY <1>4 DEF DB!InsertAsset
  <2>2. a \in Asset /\ tx[c] \in DB!Row
    BY <1>4 DEF DB!InsertAsset, ArgWhole, TxGrows, InTx, DB!Stored
  <2> QED
    BY <1>4, <2>1, <2>2, RowWithAsset DEF DB!InsertAsset
<1>5. CASE DB!Commit(c)
  <2>1. tx[c] \in DB!Row
    BY <1>5 DEF DB!Commit, TxGrows, InTx
  <2> QED
    BY <1>5, <2>1 DEF DB!Commit
<1>6. CASE DB!SelectLatest(c)
  <2>1. CASE scans = {}
    BY <1>6, <2>1 DEF DB!SelectLatest
  <2>2. CASE scans # {}
    BY <1>6, <2>2, LatestIs, UnreadRow DEF DB!SelectLatest
  <2> QED
    BY <2>1, <2>2
<1>7. CASE DB!NotFound(c)
  BY <1>7 DEF DB!NotFound
<1>8. CASE DB!LoadAssets(c) \/ DB!LoadOccurrences(c) \/ DB!Answer(c)
  <2>1. dbPc[c] \in InRead
    BY <1>8 DEF DB!LoadAssets, DB!LoadOccurrences, DB!Answer, InRead
  <2>2. found[c] \in DB!Row /\ DB!Current(c) \in DB!Row
    BY <2>1, ReadingCurrent DEF Reading
  <2>3. found'[c] \in DB!Row \cup {None}
    <3>1. CASE DB!LoadAssets(c)
      BY <2>2, <3>1 DEF DB!LoadAssets, DB!Row, DB!Stored
    <3>2. CASE DB!LoadOccurrences(c)
      BY <2>2, <3>2 DEF DB!LoadOccurrences, DB!Row, DB!Stored
    <3>3. CASE DB!Answer(c)
      BY <3>3 DEF DB!Answer
    <3> QED
      BY <1>8, <3>1, <3>2, <3>3
  <2>4. found' = [found EXCEPT ![c] = found'[c]]
    BY <1>8 DEF DB!LoadAssets, DB!LoadOccurrences, DB!Answer
  <2>5. found[c].snap \in DB!Stored
    BY <2>2 DEF DB!Row
  <2> QED
    BY <1>8, <2>3, <2>4, <2>5 DEF DB!LoadAssets, DB!LoadOccurrences, DB!Answer
<1>9. CASE DB!Fail(c)
  BY <1>9 DEF DB!Fail
<1> QED
  BY <1>1, <1>2, <1>3, <1>4, <1>5, <1>6, <1>7, <1>8, <1>9 DEF DB!Step

\* Only Commit adds a scan, and adds no other.
LEMMA ScansStep ==
    ASSUME NEW c \in Client, DB!Step(c)
    PROVE  \/ UNCHANGED scans
           \/ DB!Commit(c) /\ scans' = scans \cup {tx[c]}
BY DEF DB!Step, DB!Save, DB!Begin, DB!InsertScan, DB!InsertAsset, DB!EndLoop,
       DB!Commit, DB!Load, DB!SelectLatest, DB!NotFound, DB!LoadAssets,
       DB!LoadOccurrences, DB!Answer, DB!Fail, DB!saveVars

\* No id is given back.
LEMMA NextIdStep ==
    ASSUME DB!TypeOK, NEW c \in Client, DB!Step(c)
    PROVE  nextId' \in Nat /\ nextId' >= nextId
BY StoresAssumption DEF DB!TypeOK, DB!ConstantsOK, DB!Step, DB!Save, DB!Begin,
       DB!InsertScan, DB!InsertAsset, DB!EndLoop, DB!Commit, DB!Load,
       DB!SelectLatest, DB!NotFound, DB!LoadAssets, DB!LoadOccurrences,
       DB!Answer, DB!Fail, DB!saveVars

\* A client's step leaves the others where they are.
LEMMA OthersStay ==
    ASSUME DB!TypeOK, NEW c \in Client, DB!Step(c), NEW d \in Client \ {c}
    PROVE  /\ dbPc'[d] = dbPc[d] /\ tx'[d] = tx[d] /\ dbArg'[d] = dbArg[d]
           /\ found'[d] = found[d] /\ dbGot'[d] = dbGot[d]
BY DEF DB!TypeOK, DB!Step, DB!Save, DB!Begin, DB!InsertScan, DB!InsertAsset,
       DB!EndLoop, DB!Commit, DB!Load, DB!SelectLatest, DB!NotFound,
       DB!LoadAssets, DB!LoadOccurrences, DB!Answer, DB!Fail, DB!saveVars,
       DB!loadVars, DB!Goto, DB!Return

LEMMA TablesRows ==
    ASSUME TablesInv, NEW c \in Client, DB!Step(c)
    PROVE  RowsWhole'
<1>1. nextId \in Nat /\ nextId' \in Nat /\ nextId' >= nextId
      /\ \A r \in scans : r.id \in Nat
  BY NextIdStep, StoresAssumption DEF TablesInv, DB!TypeOK, DB!ConstantsOK, DB!Row
<1>2. CASE UNCHANGED scans
  BY <1>1, <1>2 DEF TablesInv, RowsWhole
<1>3. CASE DB!Commit(c) /\ scans' = scans \cup {tx[c]}
  <2>1. /\ tx[c] \in DB!Row /\ tx[c].id < nextId
        /\ tx[c].snap.occurrences = tx[c].snap.assets
        /\ \A r \in scans : r.id # tx[c].id
    BY <1>3 DEF TablesInv, TxGrows, TxApart, InTx, DB!Commit
  <2>2. tx[c].id \in Nat
    BY <2>1, StoresAssumption DEF DB!Row, DB!ConstantsOK
  <2> QED
    BY <1>1, <1>3, <2>1, <2>2 DEF TablesInv, RowsWhole
<1> QED
  BY <1>2, <1>3, ScansStep

LEMMA TablesArg ==
    ASSUME TablesInv, NEW c \in Client, DB!Step(c)
    PROVE  ArgWhole'
<1> SUFFICES ASSUME NEW d \in Client, dbPc'[d] \in DB!InSave
             PROVE  /\ dbArg'[d] \in DB!Stored
                    /\ dbArg'[d].occurrences = dbArg'[d].assets
  BY DEF ArgWhole
<1>1. CASE d # c
  BY <1>1, OthersStay DEF TablesInv, ArgWhole
<1>2. ASSUME d = c, NEW as \in SUBSET Asset, DB!Save(c, as)
      PROVE  /\ dbArg'[d] \in DB!Stored
             /\ dbArg'[d].occurrences = dbArg'[d].assets
  <2>1. PICK t \in 1 .. MaxScans :
           dbArg' = [dbArg EXCEPT ![c] =
                       [taken |-> t, assets |-> as, occurrences |-> as]]
    BY <1>2 DEF DB!Save
  <2>2. dbArg'[d] = [taken |-> t, assets |-> as, occurrences |-> as]
    BY <1>2, <2>1 DEF TablesInv, DB!TypeOK
  <2>3. [taken |-> t, assets |-> as, occurrences |-> as] \in DB!Stored
    BY DEF DB!Stored
  <2> QED
    BY <2>2, <2>3
<1>3. CASE d = c /\ ~ \E as \in SUBSET Asset : DB!Save(c, as)
  <2>1. UNCHANGED dbArg
    BY <1>3 DEF DB!Step, DB!Begin, DB!InsertScan, DB!InsertAsset, DB!EndLoop,
       DB!Commit, DB!Load, DB!SelectLatest, DB!NotFound, DB!LoadAssets,
       DB!LoadOccurrences, DB!Answer, DB!Fail, DB!saveVars
  <2>2. dbPc[c] \in DB!InSave
    BY <1>3 DEF TablesInv, DB!TypeOK, DB!InSave, DB!Goto, DB!Return, DB!Step,
       DB!Begin, DB!InsertScan, DB!InsertAsset, DB!EndLoop, DB!Commit, DB!Load,
       DB!SelectLatest, DB!NotFound, DB!LoadAssets, DB!LoadOccurrences,
       DB!Answer, DB!Fail
  <2> QED
    BY <1>3, <2>1, <2>2 DEF TablesInv, ArgWhole
<1> QED
  BY <1>1, <1>2, <1>3

\* What puts or keeps a client's transaction open.
LEMMA TxSteps ==
    ASSUME DB!TypeOK, NEW c \in Client, DB!Step(c), dbPc'[c] \in InTx
    PROVE  DB!InsertScan(c) \/ DB!InsertAsset(c) \/ DB!EndLoop(c)
BY DEF InTx, DB!TypeOK, DB!Goto, DB!Return, DB!Step, DB!Save, DB!Begin,
       DB!Commit, DB!Load, DB!SelectLatest, DB!NotFound, DB!LoadAssets,
       DB!LoadOccurrences, DB!Answer, DB!Fail

LEMMA TxIds ==
    ASSUME TablesInv, NEW c \in Client, DB!Step(c), dbPc'[c] \in InTx
    PROVE  \/ DB!InsertScan(c) /\ tx'[c].id = nextId /\ nextId' = nextId + 1
           \/ dbPc[c] \in InTx /\ tx'[c].id = tx[c].id /\ UNCHANGED nextId
<1>1. CASE DB!InsertScan(c)
  BY <1>1 DEF TablesInv, DB!TypeOK, DB!InsertScan
<1>2. CASE DB!InsertAsset(c)
  <2>1. PICK a \in dbArg[c].assets \ tx[c].snap.assets :
           tx' = [tx EXCEPT ![c] = DB!WithAsset(tx[c], a)]
    BY <1>2 DEF DB!InsertAsset
  <2>2. a \in Asset /\ tx[c] \in DB!Row /\ dbPc[c] \in InTx
    BY <1>2 DEF TablesInv, DB!InsertAsset, ArgWhole, TxGrows, InTx, DB!InSave, DB!Stored
  <2> QED
    BY <1>2, <2>1, <2>2, RowWithAsset DEF TablesInv, DB!TypeOK, DB!InsertAsset
<1>3. CASE DB!EndLoop(c)
  BY <1>3 DEF DB!EndLoop, DB!saveVars, InTx
<1> QED
  BY <1>1, <1>2, <1>3, TxSteps DEF TablesInv

LEMMA TablesTx ==
    ASSUME TablesInv, NEW c \in Client, DB!Step(c)
    PROVE  TxGrows'
<1> DEFINE Right(d) == /\ tx[d] \in DB!Row
                       /\ tx[d].id < nextId
                       /\ tx[d].snap.taken = dbArg[d].taken
                       /\ tx[d].snap.occurrences = tx[d].snap.assets
                       /\ dbPc[d] = "commit" => tx[d].snap.assets = dbArg[d].assets
<1> SUFFICES ASSUME NEW d \in Client, dbPc'[d] \in InTx
             PROVE  Right(d)'
  BY DEF TxGrows
<1>0. /\ nextId \in Nat /\ nextId' \in Nat /\ nextId' >= nextId
      /\ \A r \in DB!Row : r.id \in Nat
  BY NextIdStep, StoresAssumption DEF TablesInv, DB!TypeOK, DB!ConstantsOK, DB!Row
<1>1. CASE d # c
  <2>1. dbPc[d] \in InTx /\ Right(d)
    BY <1>1, OthersStay DEF TablesInv, TxGrows
  <2> QED
    BY <1>0, <1>1, <2>1, OthersStay DEF TablesInv
<1>2. CASE d = c /\ DB!InsertScan(c)
  <2> DEFINE row == [id |-> nextId, snap |-> [taken |-> dbArg[c].taken,
                                              assets |-> {}, occurrences |-> {}]]
  <2>1. tx'[c] = row /\ nextId' = nextId + 1 /\ dbPc'[c] = "insertAssets"
        /\ UNCHANGED dbArg
    BY <1>2 DEF DB!InsertScan, DB!Goto, TablesInv, DB!TypeOK
  <2>2. nextId \in 1 .. MaxScans /\ dbArg[c].taken \in 1 .. MaxScans
    BY <1>2, StoresAssumption DEF TablesInv, DB!TypeOK, DB!InsertScan, ArgWhole,
       DB!InSave, DB!Stored, DB!ConstantsOK
  <2>3. row \in DB!Row
    BY <2>2 DEF DB!Row, DB!Stored
  <2> QED
    BY <1>0, <1>2, <2>1, <2>3
<1>3. CASE d = c /\ DB!InsertAsset(c)
  <2>1. PICK a \in dbArg[c].assets \ tx[c].snap.assets :
           tx' = [tx EXCEPT ![c] = DB!WithAsset(tx[c], a)]
    BY <1>3 DEF DB!InsertAsset
  <2>2. /\ a \in Asset /\ dbPc[c] = "insertAssets"
        /\ Right(c) /\ tx[c] \in DB!Row
        /\ tx'[c] = DB!WithAsset(tx[c], a)
        /\ UNCHANGED <<nextId, dbArg, dbPc>>
    BY <1>3, <2>1 DEF TablesInv, DB!TypeOK, DB!InsertAsset, ArgWhole, TxGrows,
       InTx, DB!InSave, DB!Stored
  <2>3. a \in Asset /\ tx[c] \in DB!Row
    BY <2>2
  <2>4. /\ tx'[c] \in DB!Row
        /\ tx'[c].id = tx[c].id
        /\ tx'[c].snap.taken = tx[c].snap.taken
        /\ tx'[c].snap.assets = tx[c].snap.assets \cup {a}
        /\ tx'[c].snap.occurrences = tx[c].snap.occurrences \cup {a}
    <3>1. tx'[c] = DB!WithAsset(tx[c], a)
      BY <2>2
    <3> QED
      BY <2>3, <3>1, RowWithAsset
  <2> QED
    BY <1>3, <2>2, <2>4
<1>4. CASE d = c /\ DB!EndLoop(c)
  BY <1>4 DEF TablesInv, DB!TypeOK, TxGrows, InTx, DB!EndLoop, DB!saveVars
<1> QED
  BY <1>1, <1>2, <1>3, <1>4, TxSteps DEF TablesInv

LEMMA TablesApart ==
    ASSUME TablesInv, NEW c \in Client, DB!Step(c)
    PROVE  TxApart'
<1>0. /\ nextId \in Nat
      /\ \A r \in scans : r.id \in Nat /\ r.id < nextId
      /\ \A d \in Client : dbPc[d] \in InTx => tx[d].id \in Nat /\ tx[d].id < nextId
  BY StoresAssumption DEF TablesInv, DB!TypeOK, DB!ConstantsOK, RowsWhole,
     TxGrows, DB!Row
<1>1. ASSUME NEW d \in Client, dbPc'[d] \in InTx, NEW r \in scans'
      PROVE  r.id # tx'[d].id
  <2>1. CASE r \notin scans
    <3>1. DB!Commit(c) /\ r = tx[c] /\ dbPc[c] \in InTx /\ d # c
      BY <1>1, <2>1, ScansStep DEF DB!Commit, InTx, DB!Return, DB!Goto,
         TablesInv, DB!TypeOK
    <3>2. dbPc[d] \in InTx /\ tx'[d].id = tx[d].id
      BY <1>1, <3>1, OthersStay DEF TablesInv
    <3> QED
      BY <3>1, <3>2 DEF TablesInv, TxApart
  <2>2. CASE r \in scans
    BY <1>0, <1>1, <2>2, TxIds, OthersStay DEF TablesInv, TxApart
  <2> QED
    BY <2>1, <2>2
<1>2. ASSUME NEW d \in Client, NEW e \in Client, d # e,
             dbPc'[d] \in InTx, dbPc'[e] \in InTx
      PROVE  tx'[d].id # tx'[e].id
  <2>1. CASE d # c /\ e # c
    BY <1>2, <2>1, OthersStay DEF TablesInv, TxApart
  <2>2. CASE d = c \/ e = c
    BY <1>0, <1>2, <2>2, TxIds, OthersStay DEF TablesInv, TxApart
  <2> QED
    BY <2>1, <2>2
<1> QED
  BY <1>1, <1>2 DEF TxApart

\* What puts or keeps a client behind the first query of its Load.
LEMMA ReadSteps ==
    ASSUME DB!TypeOK, NEW c \in Client, DB!Step(c), dbPc'[c] \in InRead
    PROVE  DB!SelectLatest(c) \/ DB!LoadAssets(c) \/ DB!LoadOccurrences(c)
BY DEF InRead, DB!TypeOK, DB!Goto, DB!Return, DB!Step, DB!Save, DB!Begin,
       DB!InsertScan, DB!InsertAsset, DB!EndLoop, DB!Commit, DB!Load,
       DB!NotFound, DB!Answer, DB!Fail

LEMMA TablesReading ==
    ASSUME TablesInv, NEW c \in Client, DB!Step(c)
    PROVE  Reading'
<1> DEFINE From(d, r) ==
      /\ r.id = found[d].id
      /\ r.snap.taken = found[d].snap.taken
      /\ dbPc[d] # "loadAssets" => found[d].snap.assets = r.snap.assets
      /\ dbPc[d] = "answer" => found[d].snap.occurrences = r.snap.assets
<1> SUFFICES ASSUME NEW d \in Client, dbPc'[d] \in InRead
             PROVE  found'[d] \in DB!Row /\ \E r \in scans' : From(d, r)'
  BY DEF Reading
<1>0. scans \subseteq scans' /\ DB!TypeOK
  BY ScansStep DEF TablesInv
<1>1. CASE d # c
  <2>1. found[d] \in DB!Row /\ \E r \in scans : From(d, r)
    BY <1>1, <1>0, OthersStay DEF TablesInv, Reading
  <2> QED
    BY <1>0, <1>1, <2>1, OthersStay
<1>2. CASE d = c /\ DB!SelectLatest(c)
  <2>1. scans # {} /\ found' = [found EXCEPT ![c] = DB!Unread(DB!Latest)]
        /\ dbPc'[c] = "loadAssets"
    BY <1>0, <1>2 DEF DB!SelectLatest, DB!Goto, DB!TypeOK, InRead
  <2>2. PICK latest \in scans : latest = DB!Latest
    BY <2>1, LatestIs DEF TablesInv
  <2>3. latest \in DB!Row /\ found'[c] = DB!Unread(latest)
    BY <1>0, <2>1, <2>2 DEF DB!TypeOK
  <2>4. /\ found'[c] \in DB!Row /\ found'[c].id = latest.id
        /\ found'[c].snap.taken = latest.snap.taken
    BY <2>3, UnreadRow
  <2> QED
    BY <1>0, <1>2, <2>1, <2>4
<1>3. CASE d = c /\ DB!LoadAssets(c)
  <2> DEFINE now == DB!Current(c)
  <2>1. dbPc[c] = "loadAssets" /\ dbPc[c] \in InRead
        /\ dbPc'[c] = "loadOccurrences"
    BY <1>0, <1>3 DEF DB!LoadAssets, DB!Goto, DB!TypeOK, InRead
  <2>2. now \in scans /\ now \in DB!Row /\ now.id = found[c].id
        /\ now.snap.taken = found[c].snap.taken /\ found[c] \in DB!Row
    BY <2>1, ReadingCurrent DEF TablesInv, Reading
  <2>3. found'[c] = [found[c] EXCEPT !.snap.assets = now.snap.assets]
    BY <1>0, <1>3 DEF DB!LoadAssets, DB!TypeOK
  <2> HIDE DEF now
  <2>4. /\ found'[c] \in DB!Row /\ found'[c].id = found[c].id
        /\ found'[c].snap.taken = found[c].snap.taken
        /\ found'[c].snap.assets = now.snap.assets
    BY <2>2, <2>3 DEF DB!Row, DB!Stored
  <2> QED
    BY <1>0, <1>3, <2>1, <2>2, <2>4
<1>4. CASE d = c /\ DB!LoadOccurrences(c)
  <2> DEFINE now == DB!Current(c)
  <2>1. dbPc[c] = "loadOccurrences" /\ dbPc[c] \in InRead /\ dbPc'[c] = "answer"
    BY <1>0, <1>4 DEF DB!LoadOccurrences, DB!Goto, DB!TypeOK, InRead
  <2>2. now \in scans /\ now \in DB!Row /\ now.id = found[c].id
        /\ now.snap.taken = found[c].snap.taken /\ found[c] \in DB!Row
        /\ found[c].snap.assets = now.snap.assets
        /\ now.snap.occurrences = now.snap.assets
    BY <2>1, ReadingCurrent DEF TablesInv, Reading
  <2>3. found'[c] = [found[c] EXCEPT !.snap.occurrences =
                       found[c].snap.assets \cap now.snap.occurrences]
    BY <1>0, <1>4 DEF DB!LoadOccurrences, DB!TypeOK
  <2> HIDE DEF now
  <2>4. /\ found'[c] \in DB!Row /\ found'[c].id = found[c].id
        /\ found'[c].snap.taken = found[c].snap.taken
        /\ found'[c].snap.assets = now.snap.assets
        /\ found'[c].snap.occurrences = now.snap.assets
    BY <2>2, <2>3 DEF DB!Row, DB!Stored
  <2> QED
    BY <1>0, <1>4, <2>1, <2>2, <2>4
<1> QED
  BY <1>0, <1>1, <1>2, <1>3, <1>4, ReadSteps

\* A Commit keeps the latest scan or becomes it.
LEMMA CommitLatest ==
    ASSUME TablesInv, NEW c \in Client, DB!Commit(c)
    PROVE  \/ /\ \A x \in scans : DB!Newer(tx[c], x)
              /\ \A x \in scans' \ {tx[c]} : DB!Newer(tx[c], x)
           \/ /\ scans # {}
              /\ DB!Newer(DB!Latest, tx[c])
              /\ \A x \in scans' \ {DB!Latest} : DB!Newer(DB!Latest, x)
<1>1. scans' = scans \cup {tx[c]} /\ dbPc[c] \in InTx
  BY DEF DB!Commit, InTx
<1>2. tx[c] \in DB!Row /\ \A r \in scans : r \in DB!Row /\ r.id # tx[c].id
  BY <1>1 DEF TablesInv, TxGrows, TxApart, DB!TypeOK
<1>3. CASE scans = {}
  BY <1>1, <1>3
<1>4. CASE scans # {}
  <2>1. DB!Latest \in scans
        /\ \A x \in scans \ {DB!Latest} : DB!Newer(DB!Latest, x)
    BY <1>4, LatestIs DEF TablesInv
  <2>2. CASE DB!Newer(tx[c], DB!Latest)
    <3>1. ASSUME NEW x \in scans PROVE DB!Newer(tx[c], x)
      BY <1>2, <2>1, <2>2, <3>1, NewerIsTransitive
    <3> QED
      BY <1>1, <3>1
  <2>3. CASE DB!Newer(DB!Latest, tx[c])
    BY <1>1, <1>4, <2>1, <2>3
  <2> QED
    BY <1>2, <2>1, <2>2, <2>3, NewerIsTotal
<1> QED
  BY <1>3, <1>4

LEMMA TablesLatest ==
    ASSUME TablesInv, NEW c \in Client, DB!Step(c)
    PROVE  LatestIsThere'
<1>1. CASE UNCHANGED scans
  <2>1. CASE scans = {}
    BY <1>1, <2>1 DEF LatestIsThere
  <2>2. CASE scans # {}
    <3>1. PICK r \in scans : \A x \in scans \ {r} : DB!Newer(r, x)
      BY <2>2 DEF TablesInv, LatestIsThere
    <3> QED
      BY <1>1, <3>1 DEF LatestIsThere
  <2> QED
    BY <2>1, <2>2
<1>2. CASE DB!Commit(c)
  <2>1. tx[c] \in scans' /\ scans \subseteq scans'
    BY <1>2 DEF DB!Commit
  <2> QED
    BY <1>2, <2>1, CommitLatest, LatestIs DEF TablesInv, LatestIsThere
<1> QED
  BY <1>1, <1>2, ScansStep

LEMMA TablesNext ==
    ASSUME TablesInv, DB!Next
    PROVE  TablesInv'
BY TablesType, TablesRows, TablesArg, TablesTx, TablesApart, TablesReading,
   TablesLatest DEF TablesInv, DB!Next

LEMMA TablesStutter ==
    ASSUME TablesInv, UNCHANGED postgres
    PROVE  TablesInv'
<1> USE DEF TablesInv, postgres
<1>1. DB!TypeOK' /\ RowsWhole' /\ ArgWhole'
  BY DEF DB!TypeOK, RowsWhole, ArgWhole
<1>2. TxGrows' /\ TxApart'
  BY DEF TxGrows, TxApart
<1>3. Reading' /\ LatestIsThere'
  BY DEF Reading, LatestIsThere
<1> QED
  BY <1>1, <1>2, <1>3

\* What is so of the tables holds in every run of either backend.
THEOREM TablesInvariance == StoresSpec => []TablesInv
<1>1. StoresInit => TablesInv
  BY TablesInit DEF StoresInit
<1>2. ASSUME TablesInv, [StoresNext]_storesVars PROVE TablesInv'
  BY <1>2, TablesNext, TablesStutter DEF StoresNext, storesVars
<1> QED
  BY <1>1, <1>2, PTL DEF StoresSpec

-----------------------------------------------------------------------------
(* The baseline.                                                           *)

\* DB!Best for any set of rows.
BestOf(S) ==
    IF S = {} THEN None
    ELSE (CHOOSE r \in S : \A x \in S \ {r} : DB!Newer(r, x)).snap

LEMMA BestIsBestOf ==
    DB!Best = BestOf(scans) /\ DB!Best' = BestOf(scans')
BY DEF DB!Best, DB!Latest, BestOf, DB!Newer

LEMMA BestOfLatest ==
    ASSUME NEW S \in SUBSET DB!Row, NEW r \in S,
           \A x \in S \ {r} : DB!Newer(r, x)
    PROVE  BestOf(S) = r.snap
<1>1. ASSUME NEW y \in S, \A x \in S \ {y} : DB!Newer(y, x) PROVE y = r
  BY <1>1, StoresAssumption DEF DB!Newer, DB!Row, DB!Stored, DB!ConstantsOK
<1> QED
  BY <1>1 DEF BestOf

LEMMA BestStored ==
    ASSUME TablesInv
    PROVE  /\ DB!Best \in DB!Stored \cup {None}
           /\ DB!Best # None <=> scans # {}
           /\ scans # {} => DB!Best = DB!Latest.snap
BY LatestIs, StoresAssumption DEF DB!Best, TablesInv, DB!TypeOK, DB!Row,
   DB!ConstantsOK

\* After a Commit the baseline is the snapshot it saved, which is not older than
\* the baseline was, or still the baseline it was, which is not older than what
\* was saved.
LEMMA CommitBest ==
    ASSUME TablesInv, NEW c \in Client, DB!Commit(c)
    PROVE  \/ /\ DB!Best' = tx[c].snap
              /\ DB!Best # None => tx[c].snap.taken >= DB!Best.taken
           \/ /\ DB!Best' = DB!Best
              /\ DB!Best # None
              /\ DB!Best.taken >= tx[c].snap.taken
<1>1. /\ scans' = scans \cup {tx[c]} /\ tx[c] \in DB!Row
      /\ scans \in SUBSET DB!Row /\ scans' \in SUBSET DB!Row
  BY DEF DB!Commit, TablesInv, TxGrows, InTx, DB!TypeOK
<1>2. \A r \in DB!Row : r.snap.taken \in Nat
  BY StoresAssumption DEF DB!Row, DB!Stored, DB!ConstantsOK
<1>3. scans # {} => DB!Latest \in scans
  BY LatestIs DEF TablesInv
<1>4. CASE /\ \A x \in scans : DB!Newer(tx[c], x)
           /\ \A x \in scans' \ {tx[c]} : DB!Newer(tx[c], x)
  <2>1. DB!Best' = tx[c].snap
    BY <1>1, <1>4, BestOfLatest, BestIsBestOf
  <2>2. ASSUME DB!Best # None PROVE tx[c].snap.taken >= DB!Best.taken
    BY <1>1, <1>2, <1>3, <1>4, <2>2, BestStored DEF DB!Newer
  <2> QED
    BY <2>1, <2>2
<1>5. CASE /\ scans # {}
           /\ DB!Newer(DB!Latest, tx[c])
           /\ \A x \in scans' \ {DB!Latest} : DB!Newer(DB!Latest, x)
  <2>1. DB!Best = DB!Latest.snap /\ DB!Best # None
    BY <1>5, BestStored
  <2>2. PICK r \in scans : r = DB!Latest
    BY <1>3, <1>5
  <2>3. DB!Best' = r.snap
    BY <1>1, <1>5, <2>2, BestOfLatest, BestIsBestOf
  <2>4. r.snap.taken >= tx[c].snap.taken
    BY <1>1, <1>2, <1>5, <2>2 DEF DB!Newer
  <2> QED
    BY <2>1, <2>2, <2>3, <2>4
<1> QED
  BY <1>4, <1>5, CommitLatest

\* No step makes the baseline in the tables older or takes it away, whichever
\* order racing Saves take their snapshots, insert and commit in
\* (PostgresStore.Save, and the ORDER BY of Load).
THEOREM TheBaselineNeverAges == StoresSpec => BaselineNeverOlder
<1> DEFINE Ages == DB!Best # None => DB!Best' # None /\ DB!Best'.taken >= DB!Best.taken
<1>1. ASSUME TablesInv, [StoresNext]_storesVars
      PROVE  [Ages]_postgres
  <2>1. ASSUME NEW c \in Client, DB!Step(c) PROVE Ages
    <3>1. DB!Best # None => DB!Best.taken \in Nat
      BY <1>1, BestStored, StoresAssumption DEF DB!Stored, DB!ConstantsOK
    <3>2. CASE UNCHANGED scans
      BY <3>1, <3>2, BestIsBestOf
    <3>3. CASE DB!Commit(c)
      <4>1. tx[c].snap # None
        BY <1>1, <3>3, StoresAssumption DEF DB!Commit, TablesInv, TxGrows, InTx,
           DB!Row, DB!ConstantsOK
      <4> QED
        BY <1>1, <3>1, <3>3, <4>1, CommitBest
    <3> QED
      BY <2>1, <3>2, <3>3, ScansStep
  <2> QED
    BY <1>1, <2>1 DEF StoresNext, storesVars, DB!Next
<1>2. TablesInv /\ [StoresNext]_storesVars => [Ages]_(DB!vars)
  BY <1>1 DEF postgres, DB!vars
<1> QED
  BY <1>2, TablesInvariance, PTL DEF StoresSpec, BaselineNeverOlder,
     DB!BaselineNeverOlder

-----------------------------------------------------------------------------
(* The tables: what each statement is to the cell.                         *)

DBCalls == [d \in Client |-> DB!CallOf(dbPc[d])]
DBGots  == [d \in Client |-> DB!Observed(d)]

LEMMA DBCallNames ==
    /\ \A l \in DB!InSave : DB!CallOf(l) = "saving"
    /\ DB!CallOf("latest") = "loading" /\ DB!CallOf("ready") = "ready"
    /\ DB!CallOf("noRows") = "observed"
    /\ \A l \in InRead : DB!CallOf(l) = "observed"
BY DEF DB!CallOf, DB!InSave, InRead

LEMMA DBCallsGoto ==
    ASSUME TablesInv, NEW c \in Client, NEW l, DB!Goto(c, l)
    PROVE  DBCalls' = [DBCalls EXCEPT ![c] = DB!CallOf(l)]
BY DEF TablesInv, DB!TypeOK, DB!Goto, DBCalls

\* The scan a Load has selected stays what it is, whoever commits meanwhile.
LEMMA CurrentStays ==
    ASSUME TablesInv, NEW c \in Client, DB!Step(c), NEW d \in Client,
           dbPc[d] \in InRead, found'[d].id = found[d].id
    PROVE  DB!Current(d)' = DB!Current(d)
<1>1. PICK r \in scans : r = DB!Current(d) /\ r.id = found[d].id
  BY ReadingCurrent
<1>2. r \in scans' /\ \A x \in scans' : x.id = r.id => x = r
  BY TablesRows, ScansStep DEF RowsWhole
<1>3. DB!Current(d)' = CHOOSE x \in scans' : x.id = found'[d].id
  BY DEF DB!Current
<1> QED
  BY <1>1, <1>2, <1>3

LEMMA ObservedStays ==
    ASSUME TablesInv, NEW c \in Client, DB!Step(c), NEW d \in Client,
           dbPc'[d] = dbPc[d], dbGot'[d] = dbGot[d], found'[d] = found[d]
    PROVE  DB!Observed(d)' = DB!Observed(d)
<1>1. CASE dbPc[d] \in InRead
  BY <1>1, CurrentStays DEF DB!Observed, InRead
<1>2. CASE dbPc[d] \notin InRead
  BY <1>2 DEF DB!Observed, InRead
<1> QED
  BY <1>1, <1>2

\* A step changes what its own client has observed and nothing else.
LEMMA DBGotsSet ==
    ASSUME TablesInv, NEW c \in Client, DB!Step(c), NEW x, DB!Observed(c)' = x
    PROVE  DBGots' = [DBGots EXCEPT ![c] = x]
<1>1. \A d \in Client \ {c} : DB!Observed(d)' = DB!Observed(d)
  BY OthersStay, ObservedStays DEF TablesInv
<1>2. DBGots' = [d \in Client |-> DB!Observed(d)']
  BY DEF DBGots
<1> QED
  BY <1>1, <1>2 DEF DBGots

LEMMA DBGotsStay ==
    ASSUME TablesInv, NEW c \in Client, DB!Step(c),
           DB!Observed(c)' = DB!Observed(c)
    PROVE  UNCHANGED DBGots
<1>1. DBGots' = [DBGots EXCEPT ![c] = DB!Observed(c)]
  BY DBGotsSet
<1> QED
  BY <1>1 DEF DBGots

LEMMA BestStays ==
    ASSUME UNCHANGED scans
    PROVE  UNCHANGED DB!Best
BY BestIsBestOf

LEMMA TablesInitCell == DB!Init => DB!Cell!Init
<1> SUFFICES ASSUME DB!Init PROVE DB!Cell!Init
  OBVIOUS
<1>1. DB!Best = None
  BY DEF DB!Init, DB!Best
<1>2. DBCalls = [c \in Client |-> "ready"]
  BY DBCallNames DEF DB!Init, DBCalls
<1>3. DBGots = [c \in Client |-> None]
  BY DEF DB!Init, DBGots, DB!Observed
<1> QED
  BY <1>1, <1>2, <1>3 DEF DB!Init, DB!Cell!Init, DBCalls, DBGots

LEMMA DBSaveSimulates ==
    ASSUME TablesInv, NEW c \in Client, NEW as \in SUBSET Asset, DB!Save(c, as)
    PROVE  DB!Cell!Next
<1>1. PICK t \in 1 .. MaxScans :
         dbArg' = [dbArg EXCEPT ![c] =
                     [taken |-> t, assets |-> as, occurrences |-> as]]
  BY DEF DB!Save
<1> DEFINE s == [taken |-> t, assets |-> as, occurrences |-> as]
<1>2. s \in DB!Stored
  BY DEF DB!Stored
<1>3. DBCalls' = [DBCalls EXCEPT ![c] = "saving"]
  BY DBCallsGoto, DBCallNames DEF DB!Save, DB!InSave
<1>4. DBCalls[c] = "ready"
  BY DBCallNames DEF DBCalls, DB!Save
<1>5. UNCHANGED DBGots /\ UNCHANGED DB!Best
  <2>1. DB!Step(c) /\ UNCHANGED <<scans, dbGot>>
    BY DEF DB!Step, DB!Save, DB!loadVars
  <2>2. dbPc[c] = "ready" /\ dbPc'[c] = "begin"
    BY DEF TablesInv, DB!TypeOK, DB!Save, DB!Goto
  <2>3. DB!Observed(c)' = DB!Observed(c)
    BY <2>1, <2>2 DEF DB!Observed
  <2> QED
    BY <2>1, <2>3, DBGotsStay, BestStays
<1>6. DB!Cell!Save(c, s)
  BY <1>1, <1>3, <1>4, <1>5 DEF DB!Cell!Save, DBCalls, DBGots, DB!Save
<1> QED
  BY <1>2, <1>6 DEF DB!Cell!Next

\* A statement of Save before the COMMIT.
LEMMA DBInsertSimulates ==
    ASSUME TablesInv, NEW c \in Client,
           DB!Begin(c) \/ DB!InsertScan(c) \/ DB!InsertAsset(c) \/ DB!EndLoop(c)
    PROVE  UNCHANGED DB!Cell!vars
<1>1. DB!Step(c) /\ UNCHANGED <<scans, dbGot, dbArg, dbOutcome>>
  BY DEF DB!Step, DB!Begin, DB!InsertScan, DB!InsertAsset, DB!EndLoop,
     DB!saveVars, DB!loadVars
<1>2. PICK l \in DB!InSave : dbPc' = [dbPc EXCEPT ![c] = l]
  <2>1. CASE DB!InsertAsset(c)
    BY <2>1 DEF TablesInv, DB!TypeOK, DB!InsertAsset, DB!InSave
  <2> QED
    BY <2>1 DEF DB!Begin, DB!InsertScan, DB!EndLoop, DB!Goto, DB!InSave
<1>3. dbPc[c] \in DB!InSave
  BY DEF DB!Begin, DB!InsertScan, DB!InsertAsset, DB!EndLoop, DB!InSave
<1>4. UNCHANGED DBCalls
  <2>1. DBCalls' = [DBCalls EXCEPT ![c] = "saving"]
    <3>1. DB!Goto(c, l)
      BY <1>2 DEF DB!Goto
    <3>2. DB!CallOf(l) = "saving"
      BY <1>2, DBCallNames
    <3> QED
      BY <3>1, <3>2, DBCallsGoto
  <2> QED
    BY <1>3, <2>1, DBCallNames DEF DBCalls
<1>5. UNCHANGED DBGots
  <2>1. DB!Observed(c)' = DB!Observed(c)
    BY <1>1, <1>2, <1>3 DEF TablesInv, DB!TypeOK, DB!Observed, DB!InSave
  <2> QED
    BY <1>1, <2>1, DBGotsStay
<1> QED
  BY <1>1, <1>4, <1>5, BestStays DEF DB!Cell!vars, DBCalls, DBGots

LEMMA DBCommitSimulates ==
    ASSUME TablesInv, NEW c \in Client, DB!Commit(c)
    PROVE  DB!Cell!Next
<1>1. PICK o \in {"ok", "error"} : DB!Return(c, o)
  BY DEF DB!Commit
<1>2. DB!Step(c) /\ UNCHANGED <<dbArg, dbGot, found>> /\ dbPc[c] = "commit"
      /\ dbPc'[c] = "ready"
  BY <1>1 DEF DB!Step, DB!Commit, DB!loadVars, TablesInv, DB!TypeOK, DB!Return, DB!Goto
<1>3. DBCalls' = [DBCalls EXCEPT ![c] = "ready"] /\ DBCalls[c] = "saving"
  BY <1>1, <1>2, DBCallsGoto, DBCallNames DEF DB!Return, DBCalls, DB!InSave
<1>4. UNCHANGED DBGots
  <2>1. DB!Observed(c)' = DB!Observed(c)
    BY <1>2 DEF DB!Observed
  <2> QED
    BY <1>2, <2>1, DBGotsStay
<1>5. tx[c].snap = dbArg[c] /\ dbArg[c] \in DB!Stored
  BY <1>2 DEF TablesInv, TxGrows, ArgWhole, InTx, DB!InSave, DB!Row, DB!Stored
<1> DEFINE Taken2 == [s \in DB!Stored |-> s.taken]
<1>6. Taken2[dbArg[c]] = dbArg[c].taken
      /\ DB!Best # None => Taken2[DB!Best] = DB!Best.taken
  BY <1>5, BestStored
<1>7. DB!Cell!Publish(dbArg[c])
  BY <1>5, <1>6, CommitBest DEF DB!Cell!Publish
<1>8. DB!Cell!Commit(c)
  BY <1>1, <1>2, <1>3, <1>4, <1>7 DEF DB!Cell!Commit, DB!Cell!Return, DB!Return,
     DBCalls, DBGots
<1> QED
  BY <1>8 DEF DB!Cell!Next

LEMMA DBLoadSimulates ==
    ASSUME TablesInv, NEW c \in Client, DB!Load(c)
    PROVE  DB!Cell!Next
<1>1. DB!Step(c) /\ UNCHANGED <<scans, dbArg, dbGot, dbOutcome>>
      /\ dbPc[c] = "ready" /\ dbPc'[c] = "latest"
  BY DEF DB!Step, DB!Load, DB!saveVars, DB!loadVars, TablesInv, DB!TypeOK, DB!Goto
<1>2. DBCalls' = [DBCalls EXCEPT ![c] = "loading"] /\ DBCalls[c] = "ready"
  BY <1>1, DBCallsGoto, DBCallNames DEF DB!Load, DBCalls
<1>3. UNCHANGED DBGots
  <2>1. DB!Observed(c)' = DB!Observed(c)
    BY <1>1 DEF DB!Observed
  <2> QED
    BY <1>1, <2>1, DBGotsStay
<1>4. DB!Cell!Load(c)
  BY <1>1, <1>2, <1>3, BestStays DEF DB!Cell!Load, DBCalls, DBGots
<1> QED
  BY <1>4 DEF DB!Cell!Next

\* The first query decides what the Load returns.
LEMMA DBSelectSimulates ==
    ASSUME TablesInv, NEW c \in Client, DB!SelectLatest(c)
    PROVE  DB!Cell!Next
<1>1. DB!Step(c) /\ UNCHANGED <<scans, dbArg, dbGot, dbOutcome>>
      /\ dbPc[c] = "latest"
  BY DEF DB!Step, DB!SelectLatest, DB!saveVars
<1>2. /\ DBCalls' = [DBCalls EXCEPT ![c] = "observed"]
      /\ DB!Observed(c)' = DB!Best
  <2>1. CASE scans = {}
    <3>1. DB!Goto(c, "noRows") /\ dbPc'[c] = "noRows"
      BY <2>1 DEF DB!SelectLatest, DB!Goto, TablesInv, DB!TypeOK
    <3> QED
      BY <2>1, <3>1, DBCallsGoto, DBCallNames DEF DB!Observed, DB!Best
  <2>2. CASE scans # {}
    <3>1. DB!Goto(c, "loadAssets") /\ dbPc'[c] = "loadAssets"
          /\ found'[c] = DB!Unread(DB!Latest)
      BY <2>2 DEF DB!SelectLatest, DB!Goto, TablesInv, DB!TypeOK
    <3>2. PICK r \in scans : r = DB!Latest
      BY <2>2, LatestIs DEF TablesInv
    <3>3. found'[c].id = r.id
      BY <3>1, <3>2, UnreadRow DEF TablesInv, DB!TypeOK
    <3>4. DB!Current(c)' = CHOOSE x \in scans' : x.id = found'[c].id
      BY DEF DB!Current
    <3>5. DB!Current(c)' = r
      BY <1>1, <3>3, <3>4 DEF TablesInv, RowsWhole
    <3>6. DB!Observed(c)' = DB!Current(c)'.snap
      BY <3>1 DEF DB!Observed
    <3> QED
      BY <2>2, <3>1, <3>2, <3>5, <3>6, BestStored, DBCallsGoto, DBCallNames
         DEF InRead
  <2> QED
    BY <2>1, <2>2
<1>3. DBCalls[c] = "loading"
  BY <1>1, DBCallNames DEF DBCalls
<1>4. DBGots' = [DBGots EXCEPT ![c] = DB!Best]
  BY <1>1, <1>2, DBGotsSet
<1>5. DB!Cell!Observe(c)
  BY <1>1, <1>2, <1>3, <1>4, BestStays DEF DB!Cell!Observe, DBCalls, DBGots
<1> QED
  BY <1>5 DEF DB!Cell!Next

\* The other queries add what belongs to the scan that is already selected.
LEMMA DBReadSimulates ==
    ASSUME TablesInv, NEW c \in Client, DB!LoadAssets(c) \/ DB!LoadOccurrences(c)
    PROVE  UNCHANGED DB!Cell!vars
<1>1. DB!Step(c) /\ UNCHANGED <<scans, dbArg, dbGot, dbOutcome>>
      /\ dbPc[c] \in InRead
  BY DEF DB!Step, DB!LoadAssets, DB!LoadOccurrences, DB!saveVars, InRead
<1>2. PICK l \in InRead : DB!Goto(c, l)
  BY DEF DB!LoadAssets, DB!LoadOccurrences, InRead
<1>3. UNCHANGED DBCalls
  <2>1. DBCalls' = [DBCalls EXCEPT ![c] = "observed"]
    BY <1>2, DBCallsGoto, DBCallNames
  <2> QED
    BY <1>1, <2>1, DBCallNames DEF DBCalls
<1>4. UNCHANGED DBGots
  <2>1. found[c] \in DB!Row
    BY <1>1 DEF TablesInv, Reading
  <2>2. found'[c].id = found[c].id
    BY <2>1 DEF DB!LoadAssets, DB!LoadOccurrences, TablesInv, DB!TypeOK, DB!Row
  <2>3. DB!Current(c)' = DB!Current(c)
    BY <1>1, <2>2, CurrentStays
  <2>4. dbPc'[c] \in InRead
    BY <1>2 DEF DB!Goto, TablesInv, DB!TypeOK
  <2>5. DB!Observed(c)' = DB!Current(c)'.snap
    BY <2>4 DEF DB!Observed, InRead
  <2>6. DB!Observed(c) = DB!Current(c).snap
    BY <1>1 DEF DB!Observed, InRead
  <2> QED
    BY <1>1, <2>3, <2>5, <2>6, DBGotsStay
<1> QED
  BY <1>1, <1>3, <1>4, BestStays DEF DB!Cell!vars, DBCalls, DBGots

\* What is returned is the snapshot of the scan the first query selected, whole.
LEMMA DBAnswerSimulates ==
    ASSUME TablesInv, NEW c \in Client, DB!NotFound(c) \/ DB!Answer(c)
    PROVE  DB!Cell!Next
<1>1. DB!Step(c) /\ UNCHANGED <<scans, dbArg>>
      /\ dbPc[c] \in {"noRows", "answer"}
  BY DEF DB!Step, DB!NotFound, DB!Answer, DB!saveVars
<1>2. PICK o \in {"ok", "notfound"} :
         /\ DB!Return(c, o)
         /\ o = "notfound" <=> dbPc[c] = "noRows"
  BY DEF DB!NotFound, DB!Answer
<1>3. dbPc'[c] = "ready"
      /\ DBCalls' = [DBCalls EXCEPT ![c] = "ready"] /\ DBCalls[c] = "observed"
  BY <1>1, <1>2, DBCallsGoto, DBCallNames DEF DB!Return, DB!Goto, DBCalls, InRead,
     TablesInv, DB!TypeOK
<1>4. DB!Observed(c)' = dbGot'[c]
  BY <1>3 DEF DB!Observed
<1>5. /\ dbGot'[c] = DB!Observed(c)
      /\ o = IF DB!Observed(c) = None THEN "notfound" ELSE "ok"
  <2>1. CASE DB!NotFound(c)
    BY <1>2, <2>1 DEF DB!NotFound, DB!Observed, TablesInv, DB!TypeOK
  <2>2. CASE DB!Answer(c)
    <3>1. dbPc[c] = "answer" /\ dbGot'[c] = found[c].snap /\ found[c] \in DB!Row
      BY <2>2 DEF DB!Answer, TablesInv, DB!TypeOK, Reading, InRead
    <3>2. PICK r \in DB!Row : r = DB!Current(c)
      BY <3>1, ReadingCurrent DEF InRead
    <3>3. /\ found[c].snap.taken = r.snap.taken
          /\ found[c].snap.assets = r.snap.assets
          /\ found[c].snap.occurrences = r.snap.occurrences
      BY <3>1, <3>2, ReadingCurrent DEF InRead
    <3>4. found[c].snap = r.snap /\ r.snap # None
      BY <3>1, <3>3, StoresAssumption DEF DB!Row, DB!Stored, DB!ConstantsOK
    <3>5. DB!Observed(c) = r.snap
      BY <3>1, <3>2 DEF DB!Observed
    <3> QED
      BY <1>2, <3>1, <3>4, <3>5
  <2> QED
    BY <2>1, <2>2
<1>6. UNCHANGED DBGots
  BY <1>1, <1>4, <1>5, DBGotsStay
<1>7. DBGots[c] = DB!Observed(c)
  BY DEF DBGots
<1>8. DB!Cell!Answer(c)
  BY <1>1, <1>2, <1>3, <1>5, <1>6, <1>7, BestStays DEF DB!Cell!Answer,
     DB!Cell!Return, DB!Return, DBCalls, DBGots
<1> QED
  BY <1>8 DEF DB!Cell!Next

LEMMA DBFailSimulates ==
    ASSUME TablesInv, NEW c \in Client, DB!Fail(c)
    PROVE  DB!Cell!Next
<1>1. DB!Step(c) /\ UNCHANGED <<scans, dbArg>> /\ DB!Return(c, "error")
      /\ dbPc[c] # "ready" /\ dbPc'[c] = "ready"
  BY DEF DB!Step, DB!Fail, DB!Return, DB!Goto, TablesInv, DB!TypeOK
<1>2. DBCalls' = [DBCalls EXCEPT ![c] = "ready"]
  BY <1>1, DBCallsGoto, DBCallNames DEF DB!Return
<1>3. DB!Observed(c)' = dbGot'[c]
  BY <1>1 DEF DB!Observed
<1>4. DBCalls[c] # "ready"
      /\ DBGots' = IF DBCalls[c] = "saving" THEN DBGots
                   ELSE [DBGots EXCEPT ![c] = None]
  <2>1. CASE dbPc[c] \in DB!InSave
    <3>1. DBCalls[c] = "saving"
      BY <2>1, DBCallNames DEF DBCalls
    <3>2. DB!Observed(c)' = DB!Observed(c)
      BY <1>3, <2>1 DEF DB!Fail, DB!Observed, DB!InSave
    <3> QED
      BY <1>1, <3>1, <3>2, DBGotsStay
  <2>2. CASE dbPc[c] \notin DB!InSave
    <3>1. dbPc[c] \in {"latest", "noRows"} \cup InRead
      BY <1>1, <2>2 DEF TablesInv, DB!TypeOK, DB!InLoad, InRead
    <3>2. DBCalls[c] \in {"loading", "observed"}
      BY <3>1, DBCallNames DEF DBCalls
    <3>3. DB!Observed(c)' = None
      BY <1>3, <2>2 DEF DB!Fail, TablesInv, DB!TypeOK
    <3> QED
      BY <1>1, <3>2, <3>3, DBGotsSet
  <2> QED
    BY <2>1, <2>2
<1>5. DB!Cell!Abandon(c)
  BY <1>1, <1>2, <1>4, BestStays DEF DB!Cell!Abandon, DB!Cell!Return, DB!Return,
     DBCalls, DBGots
<1> QED
  BY <1>5 DEF DB!Cell!Next

\* Save takes effect when the transaction commits or not at all, Load sees what
\* was latest at its first query, and of racing saves the one that took its
\* snapshot last wins (PostgresStore implements the promise of the Store
\* interface).
THEOREM TablesAreCell == StoresSpec => TableCell
<1>1. ASSUME TablesInv, DB!Next PROVE DB!Cell!Next \/ UNCHANGED DB!Cell!vars
  BY <1>1, DBSaveSimulates, DBInsertSimulates, DBCommitSimulates,
     DBLoadSimulates, DBSelectSimulates, DBReadSimulates, DBAnswerSimulates,
     DBFailSimulates DEF DB!Next, DB!Step
<1>2. ASSUME UNCHANGED postgres PROVE UNCHANGED DB!Cell!vars
  <2>1. UNCHANGED DBCalls /\ UNCHANGED DBGots /\ UNCHANGED DB!Best
    BY <1>2, BestStays DEF postgres, DBCalls, DBGots, DB!Observed, DB!Current
  <2> QED
    BY <1>2, <2>1 DEF postgres, DB!Cell!vars, DBCalls, DBGots
<1>3. TablesInv /\ [StoresNext]_storesVars => [DB!Cell!Next]_(DB!Cell!vars)
  BY <1>1, <1>2 DEF StoresNext, storesVars
<1>4. StoresInit => DB!Cell!Init
  BY TablesInitCell DEF StoresInit
<1> QED
  BY <1>3, <1>4, TablesInvariance, PTL DEF StoresSpec, TableCell, DB!CellSpec,
     DB!Cell!Spec

-----------------------------------------------------------------------------
(* The trails (Trails), beside the stores.                                 *)

\* Whatever is done to the one target, the other sees nothing of it.
THEOREM TargetsAreApart == TargetsSpec => StoresSpec /\ T!TrailsSpec
<1>1. TargetsInit => StoresInit /\ T!TrailsInit
  BY DEF TargetsInit, NoStore, NoTrail, StoresInit, T!TrailsInit
<1>2. UNCHANGED trails => UNCHANGED T!trailsVars
  BY DEF trails, T!trailsVars, T!jsonl, T!postgres
<1>3. [TargetsNext]_targetsVars => [StoresNext]_storesVars /\ [T!TrailsNext]_(T!trailsVars)
  BY <1>2 DEF TargetsNext, targetsVars
<1> QED
  BY <1>1, <1>3, PTL DEF TargetsSpec, StoresSpec, T!TrailsSpec

LEMMA Least ==
    ASSUME NEW S, S \subseteq Nat, S # {} PROVE \E x \in S : \A y \in S : x <= y
<1>1. PICK x \in S : \A y \in S : ~(<<y, x>> \in OpToRel(<, Nat))
  BY NatLessThanWellFounded, WFMin
<1>2. \A y \in S : ~(y < x)
  BY <1>1 DEF OpToRel
<1> QED
  BY <1>2

-----------------------------------------------------------------------------
(* The records of a file (JSONLTrail).                                     *)

\* g[n] lists the records that end in the first n symbols of s.
Lists(g, s) ==
    g = [n \in 0 .. Len(s) |->
            IF n = 0 THEN <<>>
            ELSE IF T!IsTail(s[n]) THEN Append(g[n - 1], s[n].of) ELSE g[n - 1]]

LEMMA ListExists ==
    ASSUME NEW s \in Seq(T!Symbol)
    PROVE  \E g : Lists(g, s)
<1> DEFINE Upto(g, m) ==
      g = [n \in 0 .. m |->
             IF n = 0 THEN <<>>
             ELSE IF T!IsTail(s[n]) THEN Append(g[n - 1], s[n].of) ELSE g[n - 1]]
<1> DEFINE Bad == {m \in 0 .. Len(s) : \A g : ~Upto(g, m)}
<1>1. ASSUME Bad # {} PROVE FALSE
  <2>1. PICK m \in Bad : \A k \in Bad : m <= k
    <3>1. Bad \subseteq Nat
      OBVIOUS
    <3> HIDE DEF Bad
    <3> QED
      BY <1>1, <3>1, Least
  <2>2. CASE m = 0
    <3> DEFINE g == [n \in 0 .. 0 |-> <<>>]
    <3>1. Upto(g, 0)
      OBVIOUS
    <3> QED
      BY <2>1, <2>2, <3>1
  <2>3. CASE m # 0
    <3>1. m - 1 \in 0 .. Len(s) /\ m - 1 \notin Bad /\ m \in Nat /\ m \in 0 .. Len(s)
      <4>1. m \in 0 .. Len(s) /\ Len(s) \in Nat
        OBVIOUS
      <4> HIDE DEF Bad
      <4> QED
        BY <2>1, <2>3, <4>1
    <3>2. PICK f : Upto(f, m - 1)
      BY <3>1
    <3> DEFINE last == IF T!IsTail(s[m]) THEN Append(f[m - 1], s[m].of) ELSE f[m - 1]
    <3> DEFINE g == [n \in 0 .. m |-> IF n = m THEN last ELSE f[n]]
    <3>3. \A n \in 0 .. m - 1 : g[n] = f[n]
      BY <3>1
    <3>4. \A n \in 0 .. m - 1 :
            f[n] = IF n = 0 THEN <<>>
                   ELSE IF T!IsTail(s[n]) THEN Append(f[n - 1], s[n].of) ELSE f[n - 1]
      BY <3>2
    <3>5. g[m] = last
      BY <3>1
    <3> HIDE DEF last
    <3>6. \A n \in 0 .. m :
            g[n] = IF n = 0 THEN <<>>
                   ELSE IF T!IsTail(s[n]) THEN Append(g[n - 1], s[n].of) ELSE g[n - 1]
      <4> HIDE DEF g
      <4>1. g[m - 1] = f[m - 1]
        BY <3>1, <3>3, <2>3
      <4>2. g[m] = IF T!IsTail(s[m]) THEN Append(g[m - 1], s[m].of) ELSE g[m - 1]
        BY <3>5, <4>1 DEF last
      <4>3. ASSUME NEW n \in 0 .. m - 1
            PROVE g[n] = IF n = 0 THEN <<>>
                         ELSE IF T!IsTail(s[n]) THEN Append(g[n - 1], s[n].of) ELSE g[n - 1]
        <5>1. CASE n = 0
          BY <3>3, <3>4, <5>1
        <5>2. CASE n # 0
          <6>1. n - 1 \in 0 .. m - 1
            BY <5>2, <3>1
          <6> QED
            BY <3>3, <3>4, <5>2, <6>1
        <5> QED
          BY <5>1, <5>2
      <4> QED
        BY <4>2, <4>3, <2>3, <3>1
    <3>7. g = [n \in 0 .. m |-> g[n]]
      OBVIOUS
    <3>8. Upto(g, m)
      <4> HIDE DEF g
      <4> QED
        BY <3>6, <3>7
    <3> QED
      BY <2>1, <3>8
  <2> QED
    BY <2>2, <2>3
<1>2. Len(s) \notin Bad /\ Len(s) \in 0 .. Len(s)
  <2>1. Len(s) \in 0 .. Len(s)
    OBVIOUS
  <2> QED
    BY <1>1, <2>1
<1> QED
  BY <1>2 DEF Lists

Listed(s) == T!Records(s)

LEMMA RecordsAre ==
    ASSUME NEW s \in Seq(T!Symbol)
    PROVE  \E g : Lists(g, s) /\ Listed(s) = g[Len(s)]
<1> DEFINE G == CHOOSE g : Lists(g, s)
<1>1. Lists(G, s)
  BY ListExists
<1>2. Listed(s) = G[Len(s)]
  BY DEF Listed, T!Records, Lists
<1> HIDE DEF G
<1> QED
  BY <1>1, <1>2

LEMMA SameSequence ==
    ASSUME NEW S, NEW a \in Seq(S), NEW b \in Seq(S), Len(a) = Len(b),
           \A i \in 1 .. Len(a) : a[i] = b[i]
    PROVE  a = b
OBVIOUS

LEMMA ListStep ==
    ASSUME NEW s \in Seq(T!Symbol), NEW g, Lists(g, s), NEW n \in 1 .. Len(s)
    PROVE  /\ g[0] = <<>> /\ n - 1 \in 0 .. Len(s)
           /\ g[n] = IF T!IsTail(s[n]) THEN Append(g[n - 1], s[n].of) ELSE g[n - 1]
<1>1. 0 \in 0 .. Len(s) /\ n \in 0 .. Len(s) /\ n - 1 \in 0 .. Len(s) /\ n # 0
  OBVIOUS
<1>2. \A m \in 0 .. Len(s) :
        g[m] = IF m = 0 THEN <<>>
               ELSE IF T!IsTail(s[m]) THEN Append(g[m - 1], s[m].of) ELSE g[m - 1]
  BY DEF Lists
<1> QED
  BY <1>1, <1>2

LEMMA SymbolOf ==
    ASSUME NEW s \in Seq(T!Symbol), NEW n \in 1 .. Len(s)
    PROVE  s[n].of \in T!EvidenceRecord
<1>1. s[n] \in T!Symbol
  OBVIOUS
<1> QED
  BY <1>1 DEF T!Symbol

LEMMA AppendIn ==
    ASSUME NEW S, NEW a \in Seq(S), NEW x \in S PROVE Append(a, x) \in Seq(S)
OBVIOUS

LEMMA ListType ==
    ASSUME NEW s \in Seq(T!Symbol), NEW g, Lists(g, s)
    PROVE  \A n \in 0 .. Len(s) : g[n] \in Seq(T!EvidenceRecord)
<1> DEFINE Bad == {n \in 0 .. Len(s) : g[n] \notin Seq(T!EvidenceRecord)}
<1>1. ASSUME Bad # {} PROVE FALSE
  <2>1. PICK m \in Bad : \A k \in Bad : m <= k
    <3>1. Bad \subseteq Nat
      OBVIOUS
    <3> HIDE DEF Bad
    <3> QED
      BY <1>1, <3>1, Least
  <2>2. m # 0
    BY <2>1 DEF Lists
  <2>3. m \in 1 .. Len(s) /\ m - 1 \in 0 .. Len(s) /\ ~(m <= m - 1)
    BY <2>2
  <2>4. g[m - 1] \in Seq(T!EvidenceRecord)
    BY <2>1, <2>3
  <2>5. s[m].of \in T!EvidenceRecord
    BY <2>3, SymbolOf
  <2>6. g[m] = g[m - 1] \/ g[m] = Append(g[m - 1], s[m].of)
    BY <2>3, ListStep
  <2>7. g[m] \in Seq(T!EvidenceRecord)
    BY <2>4, <2>5, <2>6, AppendIn
  <2> QED
    BY <2>1, <2>7
<1> QED
  BY <1>1

\* What is behind the first n symbols of a file makes no difference to them.
LEMMA ListsAgree ==
    ASSUME NEW s \in Seq(T!Symbol), NEW t \in Seq(T!Symbol), Len(s) <= Len(t),
           \A i \in 1 .. Len(s) : s[i] = t[i],
           NEW g, Lists(g, s), NEW h, Lists(h, t)
    PROVE  \A n \in 0 .. Len(s) : g[n] = h[n]
<1> DEFINE Bad == {n \in 0 .. Len(s) : g[n] # h[n]}
<1>1. ASSUME Bad # {} PROVE FALSE
  <2>1. PICK m \in Bad : \A k \in Bad : m <= k
    <3>1. Bad \subseteq Nat
      OBVIOUS
    <3> HIDE DEF Bad
    <3> QED
      BY <1>1, <3>1, Least
  <2>2. m # 0
    <3>1. Len(t) \in Nat /\ 0 \in 0 .. Len(t)
      OBVIOUS
    <3> QED
      BY <2>1, <3>1 DEF Lists
  <2>3. m \in 1 .. Len(s) /\ m \in 1 .. Len(t) /\ m - 1 \in 0 .. Len(s) /\ ~(m <= m - 1)
    BY <2>2
  <2>4. g[m - 1] = h[m - 1] /\ s[m] = t[m]
    BY <2>1, <2>3
  <2>5. g[m] = IF T!IsTail(s[m]) THEN Append(g[m - 1], s[m].of) ELSE g[m - 1]
    BY <2>3, ListStep
  <2>6. h[m] = IF T!IsTail(t[m]) THEN Append(h[m - 1], t[m].of) ELSE h[m - 1]
    BY <2>3, ListStep
  <2> QED
    BY <2>1, <2>4, <2>5, <2>6
<1> QED
  BY <1>1

\* Nothing is added where no object ends.
LEMMA ListStays ==
    ASSUME NEW s \in Seq(T!Symbol), NEW g, Lists(g, s),
           NEW a \in 0 .. Len(s), NEW b \in a .. Len(s),
           \A n \in a + 1 .. b : ~T!IsTail(s[n])
    PROVE  g[b] = g[a]
<1> DEFINE Bad == {n \in a .. b : g[n] # g[a]}
<1>0. a \in Nat /\ b \in Nat /\ a <= b /\ b <= Len(s) /\ Len(s) \in Nat
  OBVIOUS
<1>1. ASSUME Bad # {} PROVE FALSE
  <2>1. PICK m \in Bad : \A k \in Bad : m <= k
    <3>1. Bad \subseteq Nat
      BY <1>0
    <3> HIDE DEF Bad
    <3> QED
      BY <1>1, <3>1, Least
  <2>2. m # a /\ m \in a .. b
    OBVIOUS
  <2>3. m \in 1 .. Len(s) /\ m - 1 \in a .. b /\ ~(m <= m - 1) /\ m \in a + 1 .. b
    BY <1>0, <2>2
  <2>4. g[m - 1] = g[a]
    BY <2>1, <2>3
  <2> QED
    BY <2>3, <2>4, ListStep
<1> QED
  BY <1>0, <1>1

\* a is the beginning of b.
Front(a, b) == Len(a) <= Len(b) /\ \A i \in 1 .. Len(a) : a[i] = b[i]

LEMMA FrontAppend ==
    ASSUME NEW S, NEW a \in Seq(S), NEW b \in Seq(S), NEW x \in S, Front(a, b)
    PROVE  Front(a, Append(b, x))
BY DEF Front

LEMMA ListGrows ==
    ASSUME NEW s \in Seq(T!Symbol), NEW g, Lists(g, s), NEW a \in 0 .. Len(s)
    PROVE  \A n \in a .. Len(s) : Front(g[a], g[n])
<1> DEFINE Bad == {n \in a .. Len(s) : ~Front(g[a], g[n])}
<1>0. a \in Nat /\ a <= Len(s) /\ Len(s) \in Nat
  OBVIOUS
<1>1. ASSUME Bad # {} PROVE FALSE
  <2>1. PICK m \in Bad : \A k \in Bad : m <= k
    <3>1. Bad \subseteq Nat
      BY <1>0
    <3> HIDE DEF Bad
    <3> QED
      BY <1>1, <3>1, Least
  <2>2. m # a /\ m \in a .. Len(s)
    <3>1. Front(g[a], g[a])
      BY ListType DEF Front
    <3> QED
      BY <2>1, <3>1
  <2>3. m \in 1 .. Len(s) /\ m - 1 \in a .. Len(s) /\ ~(m <= m - 1)
    BY <1>0, <2>2
  <2>4. Front(g[a], g[m - 1])
    BY <2>1, <2>3
  <2>5. g[a] \in Seq(T!EvidenceRecord) /\ g[m - 1] \in Seq(T!EvidenceRecord)
        /\ s[m].of \in T!EvidenceRecord
    <3>1. m - 1 \in 0 .. Len(s)
      BY <1>0, <2>3
    <3> QED
      BY <2>3, <3>1, ListType, SymbolOf
  <2>6. g[m] = g[m - 1] \/ g[m] = Append(g[m - 1], s[m].of)
    BY <2>3, ListStep
  <2>7. Front(g[a], g[m])
    BY <2>4, <2>5, <2>6, FrontAppend
  <2> QED
    BY <2>1, <2>7
<1> QED
  BY <1>1

LEMMA RecordsType ==
    ASSUME NEW s \in Seq(T!Symbol)
    PROVE  Listed(s) \in Seq(T!EvidenceRecord)
<1>1. Len(s) \in 0 .. Len(s)
  OBVIOUS
<1> QED
  BY <1>1, RecordsAre, ListType

\* A longer file lists what was there first, and more.
LEMMA RecordsGrow ==
    ASSUME NEW s \in Seq(T!Symbol), NEW t \in Seq(T!Symbol), Front(s, t)
    PROVE  Front(Listed(s), Listed(t))
<1>1. PICK g : Lists(g, s) /\ Listed(s) = g[Len(s)]
  BY RecordsAre
<1>2. PICK h : Lists(h, t) /\ Listed(t) = h[Len(t)]
  BY RecordsAre
<1>3. /\ Len(s) \in 0 .. Len(s) /\ Len(s) \in 0 .. Len(t)
      /\ Len(t) \in Len(s) .. Len(t)
  BY DEF Front
<1>4. g[Len(s)] = h[Len(s)]
  BY <1>1, <1>2, <1>3, ListsAgree DEF Front
<1> QED
  BY <1>1, <1>2, <1>3, <1>4, ListGrows

\* A piece in which no object ends.
LEMMA RecordsStay ==
    ASSUME NEW s \in Seq(T!Symbol), NEW t \in Seq(T!Symbol), Front(s, t),
           \A i \in Len(s) + 1 .. Len(t) : ~T!IsTail(t[i])
    PROVE  Listed(t) = Listed(s)
<1>1. PICK g : Lists(g, s) /\ Listed(s) = g[Len(s)]
  BY RecordsAre
<1>2. PICK h : Lists(h, t) /\ Listed(t) = h[Len(t)]
  BY RecordsAre
<1>3. /\ Len(s) \in 0 .. Len(s) /\ Len(s) \in 0 .. Len(t)
      /\ Len(t) \in Len(s) .. Len(t)
  BY DEF Front
<1>4. g[Len(s)] = h[Len(s)]
  BY <1>1, <1>2, <1>3, ListsAgree DEF Front
<1> QED
  BY <1>1, <1>2, <1>3, <1>4, ListStays

\* A piece in which one object ends.
LEMMA RecordsAdd ==
    ASSUME NEW s \in Seq(T!Symbol), NEW t \in Seq(T!Symbol), Front(s, t),
           NEW k \in Len(s) + 1 .. Len(t), T!IsTail(t[k]),
           \A i \in Len(s) + 1 .. Len(t) : i # k => ~T!IsTail(t[i])
    PROVE  Listed(t) = Append(Listed(s), t[k].of)
<1>1. PICK g : Lists(g, s) /\ Listed(s) = g[Len(s)]
  BY RecordsAre
<1>2. PICK h : Lists(h, t) /\ Listed(t) = h[Len(t)]
  BY RecordsAre
<1>3. /\ Len(s) \in 0 .. Len(s) /\ Len(s) \in 0 .. Len(t) /\ Len(s) \in Nat
      /\ Len(t) \in Nat /\ k \in 1 .. Len(t) /\ k - 1 \in 0 .. Len(t)
      /\ k \in 0 .. Len(t) /\ k - 1 \in Len(s) .. Len(t) /\ Len(t) \in k .. Len(t)
  BY DEF Front
<1>4. g[Len(s)] = h[Len(s)]
  BY <1>1, <1>2, <1>3, ListsAgree DEF Front
<1>5. h[k - 1] = h[Len(s)]
  <2>1. \A i \in Len(s) + 1 .. k - 1 : i \in Len(s) + 1 .. Len(t) /\ i # k
    BY <1>3
  <2>2. \A i \in Len(s) + 1 .. k - 1 : ~T!IsTail(t[i])
    BY <2>1
  <2> QED
    BY <1>2, <1>3, <2>2, ListStays
<1>6. h[k] = Append(h[k - 1], t[k].of)
  BY <1>2, <1>3, ListStep
<1>7. h[Len(t)] = h[k]
  <2>1. \A i \in k + 1 .. Len(t) : i \in Len(s) + 1 .. Len(t) /\ i # k
    BY <1>3
  <2>2. \A i \in k + 1 .. Len(t) : ~T!IsTail(t[i])
    BY <2>1
  <2> QED
    BY <1>2, <1>3, <2>2, ListStays
<1> QED
  BY <1>1, <1>2, <1>4, <1>5, <1>6, <1>7

-----------------------------------------------------------------------------
(* What a write takes.                                                     *)

\* What may be left of a line: its object is complete with the symbol before
\* the last.
Rest(l, r) ==
    /\ l \in Seq(T!Symbol) /\ Len(l) \in 1 .. 3
    /\ \A i \in 1 .. Len(l) : l[i].of = r /\ (T!IsTail(l[i]) <=> i = Len(l) - 1)

\* The object ends in the first n symbols of what is left.
Ended(l, n) == Len(l) - n <= 1 /\ Len(l) # 1

LEMMA LineIs ==
    ASSUME NEW r \in T!EvidenceRecord
    PROVE  /\ T!Line(r) \in Seq(T!Symbol) /\ Len(T!Line(r)) = 3
           /\ T!Line(r)[1] = T!Head1(r) /\ T!Line(r)[2] = T!Tail1(r)
           /\ T!Line(r)[3] = [of |-> r, part |-> "newline"]
<1>1. /\ T!Head1(r) \in T!Symbol /\ T!Tail1(r) \in T!Symbol
      /\ [of |-> r, part |-> "newline"] \in T!Symbol
  BY DEF T!Symbol, T!Head1, T!Tail1
<1> QED
  BY <1>1 DEF T!Line

LEMMA LineRest ==
    ASSUME NEW r \in T!EvidenceRecord PROVE Rest(T!Line(r), r)
<1> DEFINE l == T!Line(r)
<1>1. /\ l \in Seq(T!Symbol) /\ Len(l) = 3
      /\ l[1] = T!Head1(r) /\ l[2] = T!Tail1(r)
      /\ l[3] = [of |-> r, part |-> "newline"]
  BY LineIs
<1> HIDE DEF l
<1>2. /\ l[1].of = r /\ l[2].of = r /\ l[3].of = r
      /\ ~T!IsTail(l[1]) /\ T!IsTail(l[2]) /\ ~T!IsTail(l[3])
  BY <1>1 DEF T!IsTail, T!Head1, T!Tail1
<1>3. \A i \in 1 .. 3 : l[i].of = r /\ (T!IsTail(l[i]) <=> i = 2)
  <2>1. \A i \in 1 .. 3 : i = 1 \/ i = 2 \/ i = 3
    OBVIOUS
  <2> QED
    BY <1>2, <2>1
<1>4. Rest(l, r)
  BY <1>1, <1>3 DEF Rest
<1> QED
  BY <1>4 DEF l

LEMMA FrontOf ==
    ASSUME NEW S, NEW l \in Seq(S), NEW n \in 1 .. Len(l)
    PROVE  /\ SubSeq(l, 1, n) \in Seq(S) /\ Len(SubSeq(l, 1, n)) = n
           /\ \A i \in 1 .. n : SubSeq(l, 1, n)[i] = l[i]
OBVIOUS

LEMMA Near ==
    ASSUME NEW m \in 1 .. 3, NEW n \in 1 .. m, NEW k \in Nat
    PROVE  /\ m # 1 => m - 1 \in 1 .. m
           /\ m # 1 /\ m - n <= 1 => k + m - 1 \in k + 1 .. k + n
           /\ ~(m - n <= 1 /\ m # 1) => \A j \in 1 .. n : j # m - 1
OBVIOUS

LEMMA PieceOf ==
    ASSUME NEW r, NEW l, Rest(l, r), NEW n \in 1 .. Len(l)
    PROVE  /\ SubSeq(l, n + 1, Len(l)) \in Seq(T!Symbol)
           /\ Len(SubSeq(l, n + 1, Len(l))) = Len(l) - n
           /\ n < Len(l) => Rest(SubSeq(l, n + 1, Len(l)), r)
<1> DEFINE q == SubSeq(l, n + 1, Len(l))
<1>1. l \in Seq(T!Symbol) /\ Len(l) \in 1 .. 3
  BY DEF Rest
<1>3. q \in Seq(T!Symbol) /\ Len(q) = Len(l) - n /\ \A i \in 1 .. Len(q) : q[i] = l[i + n]
  BY <1>1
<1> HIDE DEF q
<1>4. ASSUME n < Len(l) PROVE Rest(q, r)
  <2>1. \A i \in 1 .. Len(q) : i + n \in 1 .. Len(l)
    BY <1>1, <1>3
  <2>2. \A i \in 1 .. Len(q) : q[i].of = r /\ (T!IsTail(q[i]) <=> i + n = Len(l) - 1)
    BY <1>3, <2>1 DEF Rest
  <2>3. Len(q) \in 1 .. 3
    <3>1. ASSUME NEW m \in 1 .. 3, n < m PROVE m - n \in 1 .. 3
      <4>1. n >= 1 /\ n \in Int
        BY <1>1
      <4> QED
        BY <3>1, <4>1
    <3> QED
      BY <1>1, <1>3, <1>4, <3>1
  <2> QED
    BY <1>1, <1>3, <2>2, <2>3 DEF Rest
<1> QED
  BY <1>3, <1>4 DEF q

\* A piece at the end of the file adds the record if its object ends in it.
LEMMA RecordsOfPiece ==
    ASSUME NEW s \in Seq(T!Symbol), NEW r, NEW l, Rest(l, r), NEW n \in 1 .. Len(l)
    PROVE  LET t == s \o SubSeq(l, 1, n)
           IN  /\ t \in Seq(T!Symbol) /\ Front(s, t) /\ Len(t) = Len(s) + n
               /\ \A i \in 1 .. n : t[Len(s) + i] = l[i]
               /\ Ended(l, n) => Listed(t) = Append(Listed(s), r)
               /\ ~Ended(l, n) => Listed(t) = Listed(s)
<1> DEFINE t == s \o SubSeq(l, 1, n)
<1> DEFINE p == SubSeq(l, 1, n)
<1>1. p \in Seq(T!Symbol) /\ Len(p) = n /\ \A i \in 1 .. n : p[i] = l[i]
  <2>1. l \in Seq(T!Symbol)
    BY DEF Rest
  <2> QED
    BY <2>1, FrontOf
<1>2. l \in Seq(T!Symbol) /\ Len(l) \in 1 .. 3 /\ Len(s) \in Nat
  BY DEF Rest
<1> HIDE DEF p
<1>3. /\ t \in Seq(T!Symbol) /\ Front(s, t) /\ Len(t) = Len(s) + n
      /\ \A i \in 1 .. n : t[Len(s) + i] = l[i]
  <2>1. t = s \o p
    BY DEF p
  <2> QED
    BY <1>1, <2>1 DEF Front
<1> HIDE DEF t
<1>4. ASSUME NEW i \in Len(s) + 1 .. Len(t)
      PROVE  /\ i - Len(s) \in 1 .. n /\ t[i] = l[i - Len(s)]
             /\ T!IsTail(t[i]) <=> i - Len(s) = Len(l) - 1
  <2>1. i - Len(s) \in 1 .. n /\ i - Len(s) \in 1 .. Len(l) /\ Len(s) + (i - Len(s)) = i
    BY <1>2, <1>3
  <2>2. t[i] = l[i - Len(s)]
    BY <1>3, <2>1
  <2> QED
    BY <2>1, <2>2 DEF Rest
<1>5. ASSUME Ended(l, n) PROVE Listed(t) = Append(Listed(s), r)
  <2>1. PICK k \in Len(s) + 1 .. Len(t) : k - Len(s) = Len(l) - 1
    <3>1. Len(s) + Len(l) - 1 \in Len(s) + 1 .. Len(t)
      BY <1>2, <1>3, <1>5, Near DEF Ended
    <3>2. (Len(s) + Len(l) - 1) - Len(s) = Len(l) - 1
      BY <1>2
    <3> QED
      BY <3>1, <3>2
  <2>2. T!IsTail(t[k]) /\ t[k] = l[Len(l) - 1]
    BY <1>4, <2>1
  <2>3. \A i \in Len(s) + 1 .. Len(t) : i # k => ~T!IsTail(t[i])
    <3>1. \A i \in Len(s) + 1 .. Len(t) : i # k => i - Len(s) # Len(l) - 1
      BY <1>2, <1>3, <2>1
    <3> QED
      BY <1>4, <3>1
  <2>4. t[k].of = r
    <3>1. Len(l) - 1 \in 1 .. Len(l)
      BY <1>2, <1>5, Near DEF Ended
    <3> QED
      BY <2>2, <3>1 DEF Rest
  <2> QED
    BY <1>3, <2>2, <2>3, <2>4, RecordsAdd
<1>6. ASSUME ~Ended(l, n) PROVE Listed(t) = Listed(s)
  <2>1. \A j \in 1 .. n : j # Len(l) - 1
    BY <1>2, <1>6, Near DEF Ended
  <2>2. \A i \in Len(s) + 1 .. Len(t) : ~T!IsTail(t[i])
    BY <1>4, <2>1
  <2> QED
    BY <1>3, <2>2, RecordsStay
<1> QED
  BY <1>3, <1>5, <1>6 DEF t

-----------------------------------------------------------------------------
(* The invariant of the file.                                              *)

InAppend == {"open", "write"}

FileTyped ==
    /\ shortWrites \in BOOLEAN
    /\ bytes \in Seq(T!Symbol) /\ tick \in Nat
    /\ step \in [Client -> {"ready", "open", "write", "read", "parse"}]
    /\ record \in [Client -> T!EvidenceRecord \cup {None}]
    /\ left \in [Client -> Seq(T!Symbol)]
    /\ seen \in [Client -> Seq(T!Symbol)]
    /\ history \in [Client -> Seq(T!EvidenceRecord) \cup {None}]
    /\ ended \in [Client -> {"none", "ok", "0", "3", "failed"}]

\* Records that are being appended are different ones, and older than the next.
Distinct ==
    /\ \A c \in Client : step[c] \in InAppend =>
          /\ record[c] \in T!EvidenceRecord /\ record[c].stamp <= tick
          /\ \A d \in Client \ {c} : step[d] \in InAppend => record[d] # record[c]
    /\ \A i \in DOMAIN bytes : bytes[i].of.stamp <= tick

\* A record is in the file when all of its line but the newline is written.
OnTheWay ==
    \A c \in Client :
        /\ step[c] = "open" => ~T!IsIn(c)
        /\ step[c] = "write" =>
              Rest(left[c], record[c]) /\ (T!IsIn(c) <=> Len(left[c]) = 1)

\* Without short writes a line is either not yet written or all of it.
WholeLines ==
    ~shortWrites =>
        /\ T!Readable(bytes)
        /\ bytes # <<>> => T!IsNewline(bytes[Len(bytes)])
        /\ \A c \in Client : step[c] = "write" => left[c] = T!Line(record[c])

\* What was read is still what the file begins with.
ReadBefore ==
    \A c \in Client : step[c] = "parse" => Front(seen[c], bytes)

ListedBefore ==
    \A c \in Client : history[c] # None => Front(history[c], Listed(bytes))

FileInv ==
    FileTyped /\ Distinct /\ OnTheWay /\ WholeLines /\ ReadBefore /\ ListedBefore

LEMMA FileInit == T!Init => FileInv
<1> SUFFICES ASSUME T!Init PROVE FileInv
  OBVIOUS
<1>1. FileTyped
  BY DEF T!Init, FileTyped
<1>2. bytes = <<>> /\ \A c \in Client : step[c] = "ready" /\ history[c] = None
  BY DEF T!Init
<1>3. Distinct /\ OnTheWay /\ ReadBefore /\ ListedBefore
  BY <1>2 DEF Distinct, OnTheWay, ReadBefore, ListedBefore, InAppend
<1>4. WholeLines
  BY <1>2 DEF WholeLines, T!Readable
<1> QED
  BY <1>1, <1>3, <1>4 DEF FileInv

\* Only a write changes the file; what it does to it.
LEMMA WriteTakes ==
    ASSUME FileInv, NEW c \in Client, T!Write(c)
    PROVE  \E n \in 1 .. Len(left[c]) :
              /\ step[c] = "write" /\ record[c] \in T!EvidenceRecord
              /\ Rest(left[c], record[c])
              /\ ~shortWrites => n = Len(left[c])
              /\ bytes' \in Seq(T!Symbol) /\ Front(bytes, bytes')
              /\ Len(bytes') = Len(bytes) + n
              /\ \A i \in 1 .. n : bytes'[Len(bytes) + i] = left[c][i]
              /\ Ended(left[c], n)
                    => Listed(bytes') = Append(Listed(bytes), record[c])
              /\ ~Ended(left[c], n)
                    => Listed(bytes') = Listed(bytes)
              /\ left'[c] \in Seq(T!Symbol) /\ Len(left'[c]) = Len(left[c]) - n
              /\ left' = [left EXCEPT ![c] = left'[c]]
              /\ n < Len(left[c]) =>
                    /\ Rest(left'[c], record[c])
                    /\ step' = [step EXCEPT ![c] = "write"]
                    /\ UNCHANGED <<record, ended>>
              /\ n = Len(left[c]) => T!Return(c, "ok")
<1>1. step[c] = "write" /\ Rest(left[c], record[c]) /\ record[c] \in T!EvidenceRecord
  BY DEF T!Write, FileInv, OnTheWay, Distinct, InAppend
<1>2. PICK n \in T!Pieces(c) :
         /\ bytes' = bytes \o SubSeq(left[c], 1, n)
         /\ left' = [left EXCEPT ![c] = SubSeq(@, n + 1, Len(@))]
         /\ IF n < Len(left[c]) THEN T!Goto(c, "write") /\ UNCHANGED record
                                ELSE T!Return(c, "ok")
  BY DEF T!Write
<1>3. n \in 1 .. Len(left[c]) /\ (~shortWrites => n = Len(left[c]))
  <2>1. left[c] \in Seq(T!Symbol) /\ Len(left[c]) \in 1 .. 3
    BY <1>1 DEF Rest
  <2>2. DOMAIN left[c] = 1 .. Len(left[c])
    BY <2>1
  <2>3. n \in IF shortWrites THEN DOMAIN left[c] ELSE {Len(left[c])}
    BY <1>2 DEF T!Pieces
  <2> QED
    BY <2>1, <2>2, <2>3
<1> DEFINE l == left[c]
<1>4. left'[c] = SubSeq(l, n + 1, Len(l)) /\ left' = [left EXCEPT ![c] = left'[c]]
  BY <1>2 DEF FileInv, FileTyped
<1> DEFINE q == left'[c]
<1>5. q \in Seq(T!Symbol) /\ Len(q) = Len(l) - n /\ (n < Len(l) => Rest(q, record[c]))
  <2> HIDE DEF l
  <2> HIDE DEF q
  <2>1. q = SubSeq(l, n + 1, Len(l)) /\ Rest(l, record[c]) /\ n \in 1 .. Len(l)
    BY <1>1, <1>3, <1>4 DEF l, q
  <2> QED
    BY <2>1, PieceOf
<1>6. /\ bytes' \in Seq(T!Symbol) /\ Front(bytes, bytes')
      /\ Len(bytes') = Len(bytes) + n
      /\ \A i \in 1 .. n : bytes'[Len(bytes) + i] = l[i]
      /\ Ended(l, n)
            => Listed(bytes') = Append(Listed(bytes), record[c])
      /\ ~Ended(l, n) => Listed(bytes') = Listed(bytes)
  <2> HIDE DEF l
  <2>1. /\ bytes \in Seq(T!Symbol) /\ Rest(l, record[c]) /\ n \in 1 .. Len(l)
        /\ bytes' = bytes \o SubSeq(l, 1, n)
    BY <1>1, <1>2, <1>3 DEF FileInv, FileTyped, l
  <2> DEFINE t == bytes \o SubSeq(l, 1, n)
  <2>2. /\ t \in Seq(T!Symbol) /\ Front(bytes, t) /\ Len(t) = Len(bytes) + n
        /\ \A i \in 1 .. n : t[Len(bytes) + i] = l[i]
        /\ Ended(l, n) => Listed(t) = Append(Listed(bytes), record[c])
        /\ ~Ended(l, n) => Listed(t) = Listed(bytes)
    BY <2>1, RecordsOfPiece
  <2> HIDE DEF t
  <2>3. bytes' = t
    BY <2>1 DEF t
  <2> QED
    BY <2>2, <2>3
<1>7. n < Len(l) => step' = [step EXCEPT ![c] = "write"] /\ UNCHANGED <<record, ended>>
  BY <1>2 DEF T!Goto
<1>8. n = Len(l) => T!Return(c, "ok")
  BY <1>2, <1>3
<1> QED
  BY <1>1, <1>3, <1>4, <1>5, <1>6, <1>7, <1>8

LEMMA OtherStepsKeepFile ==
    ASSUME NEW c \in Client, T!Step(c), ~T!Write(c)
    PROVE  UNCHANGED bytes
BY DEF T!Step, T!Append1, T!Open, T!Break, T!Trend, T!Read, T!Parse

LEMMA FileGrows ==
    ASSUME FileInv, NEW c \in Client, T!Step(c)
    PROVE  bytes' \in Seq(T!Symbol) /\ Front(bytes, bytes')
<1>1. CASE T!Write(c)
  BY <1>1, WriteTakes
<1>2. CASE ~T!Write(c)
  BY <1>2, OtherStepsKeepFile DEF FileInv, FileTyped, Front
<1> QED
  BY <1>1, <1>2

LEMMA AppendRecord ==
    ASSUME FileInv, NEW c \in Client, NEW s \in Scores, T!Append1(c, s)
    PROVE  \E r \in T!EvidenceRecord :
              /\ r.stamp = tick + 1 /\ tick' = tick + 1
              /\ record' = [record EXCEPT ![c] = r]
<1> DEFINE r == [stamp |-> tick + 1, score |-> s]
<1>1. tick + 1 \in 1 .. MaxStamp /\ tick' = tick + 1
  BY DEF T!Append1
<1>2. r \in T!EvidenceRecord
  BY <1>1 DEF T!EvidenceRecord
<1>3. record' = [record EXCEPT ![c] = r]
  BY <1>1 DEF T!Append1
<1>4. r.stamp = tick + 1
  OBVIOUS
<1> HIDE DEF r
<1> QED
  BY <1>1, <1>2, <1>3, <1>4

LEMMA FileTypedNext ==
    ASSUME FileInv, NEW c \in Client, T!Step(c), UNCHANGED shortWrites
    PROVE  FileTyped'
<1>1. FileTyped
  BY DEF FileInv
<1>2. ASSUME NEW s \in Scores, T!Append1(c, s) PROVE FileTyped'
  <2>1. PICK r \in T!EvidenceRecord :
           /\ tick' = tick + 1 /\ record' = [record EXCEPT ![c] = r]
    BY <1>2, AppendRecord
  <2> QED
    BY <1>1, <1>2, <2>1 DEF FileTyped, T!Append1, T!Call
<1>3. CASE T!Open(c)
  <2>1. T!Line(record[c]) \in Seq(T!Symbol)
    BY <1>3, LineIs DEF FileInv, Distinct, InAppend, T!Open
  <2> QED
    BY <1>1, <1>3, <2>1 DEF FileTyped, T!Open, T!Goto
<1>4. CASE T!Write(c)
  <2>1. PICK n \in 1 .. Len(left[c]) :
           /\ bytes' \in Seq(T!Symbol) /\ left'[c] \in Seq(T!Symbol)
           /\ left' = [left EXCEPT ![c] = left'[c]]
           /\ n < Len(left[c]) => /\ step' = [step EXCEPT ![c] = "write"]
                                  /\ UNCHANGED <<record, ended>>
           /\ n = Len(left[c]) => T!Return(c, "ok")
    BY <1>4, WriteTakes
  <2>2. UNCHANGED <<tick, seen, history>>
    BY <1>4 DEF T!Write
  <2>3. n < Len(left[c]) \/ n = Len(left[c])
    <3>1. left[c] \in Seq(T!Symbol)
      BY <1>1 DEF FileTyped
    <3> QED
      BY <3>1
  <2>4. left' \in [Client -> Seq(T!Symbol)]
    BY <1>1, <2>1 DEF FileTyped
  <2>5. /\ step' \in [Client -> {"ready", "open", "write", "read", "parse"}]
        /\ record' \in [Client -> T!EvidenceRecord \cup {None}]
        /\ ended' \in [Client -> {"none", "ok", "0", "3", "failed"}]
    BY <1>1, <2>1, <2>3 DEF FileTyped, T!Return
  <2> QED
    BY <1>1, <2>1, <2>2, <2>4, <2>5 DEF FileTyped
<1>5. CASE T!Break(c)
  BY <1>1, <1>5 DEF FileTyped, T!Break, T!Return
<1>6. CASE T!Trend(c)
  BY <1>1, <1>6 DEF FileTyped, T!Trend, T!Call
<1>7. CASE T!Read(c)
  BY <1>1, <1>7 DEF FileTyped, T!Read, T!Goto, T!Return
<1>8. CASE T!Parse(c)
  <2>1. Listed(seen[c]) \in Seq(T!EvidenceRecord)
    BY <1>1, RecordsType DEF FileTyped
  <2>2. T!TrendExit(Listed(seen[c])) \in {"0", "3"}
    BY DEF T!TrendExit
  <2>3. /\ UNCHANGED <<bytes, tick, left>> /\ seen' = [seen EXCEPT ![c] = <<>>]
        /\ \/ /\ history' = [history EXCEPT ![c] = Listed(seen[c])]
              /\ T!Return(c, T!TrendExit(Listed(seen[c])))
           \/ history' = [history EXCEPT ![c] = None] /\ T!Return(c, "failed")
    BY <1>8 DEF T!Parse, Listed
  <2>4. history' \in [Client -> Seq(T!EvidenceRecord) \cup {None}]
    BY <1>1, <2>1, <2>3 DEF FileTyped
  <2>5. PICK o \in {"0", "3", "failed"} : T!Return(c, o)
    BY <2>2, <2>3
  <2>6. /\ step' \in [Client -> {"ready", "open", "write", "read", "parse"}]
        /\ record' \in [Client -> T!EvidenceRecord \cup {None}]
        /\ ended' \in [Client -> {"none", "ok", "0", "3", "failed"}]
    BY <1>1, <2>5 DEF FileTyped, T!Return
  <2>7. seen' \in [Client -> Seq(T!Symbol)]
    BY <1>1, <2>3 DEF FileTyped
  <2> QED
    BY <1>1, <2>3, <2>4, <2>6, <2>7 DEF FileTyped
<1> QED
  BY <1>2, <1>3, <1>4, <1>5, <1>6, <1>7, <1>8 DEF T!Step

\* What a step does to the clients that are in the middle of an append.
LEMMA AppendSteps ==
    ASSUME FileInv, NEW c \in Client, T!Step(c)
    PROVE  /\ \A d \in Client \ {c} : step'[d] = step[d] /\ record'[d] = record[d]
                                      /\ left'[d] = left[d] /\ seen'[d] = seen[d]
                                      /\ history'[d] = history[d]
           /\ \/ /\ step[c] = "ready" /\ step'[c] = "open" /\ tick' = tick + 1
                 /\ record'[c] \in T!EvidenceRecord /\ record'[c].stamp = tick + 1
              \/ UNCHANGED tick /\ step'[c] \notin InAppend
              \/ /\ UNCHANGED tick /\ step[c] \in InAppend /\ step'[c] = "write"
                 /\ record'[c] = record[c]
<1>1. FileTyped
  BY DEF FileInv
<1>2. ASSUME NEW s \in Scores, T!Append1(c, s)
      PROVE  /\ \A d \in Client \ {c} : step'[d] = step[d] /\ record'[d] = record[d]
             /\ UNCHANGED <<left, seen, history>>
             /\ step[c] = "ready" /\ step'[c] = "open" /\ tick' = tick + 1
             /\ record'[c] \in T!EvidenceRecord /\ record'[c].stamp = tick + 1
  <2>1. PICK r \in T!EvidenceRecord :
           /\ tick' = tick + 1 /\ record' = [record EXCEPT ![c] = r]
           /\ r.stamp = tick + 1
    BY <1>2, AppendRecord
  <2> QED
    BY <1>1, <1>2, <2>1 DEF FileTyped, T!Append1, T!Call
<1>3. CASE T!Open(c)
  BY <1>1, <1>3 DEF FileTyped, T!Open, T!Goto, InAppend
<1>4. CASE T!Write(c)
  <2>1. PICK n \in 1 .. Len(left[c]) :
           /\ step[c] = "write" /\ left' = [left EXCEPT ![c] = left'[c]]
           /\ n < Len(left[c]) => /\ step' = [step EXCEPT ![c] = "write"]
                                  /\ UNCHANGED <<record, ended>>
           /\ n = Len(left[c]) => T!Return(c, "ok")
    BY <1>4, WriteTakes
  <2>2. UNCHANGED <<tick, seen, history>>
    BY <1>4 DEF T!Write
  <2>3. n < Len(left[c]) \/ n = Len(left[c])
    <3>1. left[c] \in Seq(T!Symbol)
      BY <1>1 DEF FileTyped
    <3> QED
      BY <3>1
  <2> QED
    BY <1>1, <2>1, <2>2, <2>3 DEF FileTyped, T!Return, InAppend
<1>5. CASE T!Break(c)
  BY <1>1, <1>5 DEF FileTyped, T!Break, T!Return, InAppend
<1>6. CASE T!Trend(c)
  BY <1>1, <1>6 DEF FileTyped, T!Trend, T!Call, InAppend
<1>7. CASE T!Read(c)
  BY <1>1, <1>7 DEF FileTyped, T!Read, T!Goto, T!Return, InAppend
<1>8. CASE T!Parse(c)
  BY <1>1, <1>8 DEF FileTyped, T!Parse, T!Return, InAppend
<1> QED
  BY <1>2, <1>3, <1>4, <1>5, <1>6, <1>7, <1>8 DEF T!Step

LEMMA DistinctNext ==
    ASSUME FileInv, NEW c \in Client, T!Step(c)
    PROVE  Distinct'
<1>1. FileTyped /\ Distinct
  BY DEF FileInv
<1>2. \/ /\ step[c] = "ready" /\ step'[c] = "open" /\ tick' = tick + 1
         /\ record'[c] \in T!EvidenceRecord /\ record'[c].stamp = tick + 1
      \/ UNCHANGED tick /\ step'[c] \notin InAppend
      \/ /\ UNCHANGED tick /\ step[c] \in InAppend /\ step'[c] = "write"
         /\ record'[c] = record[c]
  BY AppendSteps
<1>3. \A d \in Client \ {c} : step'[d] = step[d] /\ record'[d] = record[d]
  BY AppendSteps
<1>4. tick \in Nat /\ tick <= tick' /\ tick' \in Nat
  BY <1>1, <1>2 DEF FileTyped
<1>5. ASSUME NEW d \in Client, step'[d] \in InAppend
      PROVE  record'[d] \in T!EvidenceRecord /\ record'[d].stamp <= tick'
  <2>1. CASE d = c
    <3>1. CASE step[c] = "ready" /\ tick' = tick + 1 /\ record'[c] \in T!EvidenceRecord
               /\ record'[c].stamp = tick + 1
      BY <1>4, <2>1, <3>1
    <3>2. CASE step[c] \in InAppend /\ record'[c] = record[c] /\ UNCHANGED tick
      BY <1>1, <2>1, <3>2 DEF Distinct
    <3> QED
      BY <1>2, <1>5, <2>1, <3>1, <3>2
  <2>2. CASE d # c
    <3>1. record[d] \in T!EvidenceRecord /\ record[d].stamp <= tick
      BY <1>1, <1>3, <1>5, <2>2 DEF Distinct
    <3>2. record[d].stamp \in Int
      BY <3>1 DEF T!EvidenceRecord
    <3> QED
      BY <1>3, <1>4, <2>2, <3>1, <3>2
  <2> QED
    BY <2>1, <2>2
<1>6. ASSUME NEW d \in Client, step'[d] \in InAppend, d # c, step'[c] \in InAppend
      PROVE  record'[d] # record'[c]
  <2>1. record'[d] = record[d] /\ step[d] \in InAppend
    BY <1>3, <1>6
  <2>2. CASE step[c] = "ready" /\ record'[c].stamp = tick + 1
    <3>1. record[d].stamp <= tick /\ record[d].stamp \in Int
      BY <1>1, <2>1 DEF Distinct, T!EvidenceRecord
    <3> QED
      BY <1>4, <2>1, <2>2, <3>1
  <2>3. CASE step[c] \in InAppend /\ record'[c] = record[c]
    BY <1>1, <1>6, <2>1, <2>3 DEF Distinct
  <2> QED
    BY <1>2, <1>6, <2>2, <2>3
<1>7. ASSUME NEW d \in Client, NEW e \in Client \ {d}, step'[d] \in InAppend,
             step'[e] \in InAppend
      PROVE  record'[e] # record'[d]
  <2>1. CASE d # c /\ e # c
    BY <1>1, <1>3, <1>7, <2>1 DEF Distinct
  <2> QED
    BY <1>6, <1>7, <2>1
<1>8. \A i \in DOMAIN bytes' : bytes'[i].of.stamp <= tick'
  <2>1. \A i \in DOMAIN bytes : bytes[i].of.stamp <= tick' /\ bytes[i].of.stamp \in Int
    <3>1. ASSUME NEW i \in DOMAIN bytes PROVE bytes[i].of.stamp \in Int
      <4>1. bytes[i].of \in T!EvidenceRecord
        <5>1. bytes \in Seq(T!Symbol) /\ i \in 1 .. Len(bytes)
          BY <1>1 DEF FileTyped
        <5> QED
          BY <5>1, SymbolOf
      <4> QED
        BY <4>1 DEF T!EvidenceRecord
    <3> QED
      BY <1>1, <1>4, <3>1 DEF Distinct
  <2>2. CASE T!Write(c)
    <3>1. PICK n \in 1 .. Len(left[c]) :
             /\ step[c] = "write" /\ Rest(left[c], record[c])
             /\ bytes' \in Seq(T!Symbol) /\ Front(bytes, bytes')
             /\ Len(bytes') = Len(bytes) + n
             /\ \A i \in 1 .. n : bytes'[Len(bytes) + i] = left[c][i]
      BY <2>2, WriteTakes
    <3>2. record[c].stamp <= tick'
      <4>1. record[c] \in T!EvidenceRecord /\ record[c].stamp <= tick
        BY <1>1, <3>1 DEF Distinct, InAppend
      <4>2. record[c].stamp \in Int
        BY <4>1 DEF T!EvidenceRecord
      <4> QED
        BY <1>4, <4>1, <4>2
    <3>3. ASSUME NEW i \in DOMAIN bytes' PROVE bytes'[i].of.stamp <= tick'
      <4>1. CASE i \in DOMAIN bytes
        <5>1. i \in 1 .. Len(bytes)
          BY <1>1, <4>1 DEF FileTyped
        <5>2. bytes'[i] = bytes[i]
          BY <3>1, <5>1 DEF Front
        <5> QED
          BY <2>1, <4>1, <5>2
      <4>2. CASE i \notin DOMAIN bytes
        <5>1. i - Len(bytes) \in 1 .. n /\ Len(bytes) + (i - Len(bytes)) = i
          BY <1>1, <3>1, <4>2 DEF FileTyped
        <5>2. bytes'[i] = left[c][i - Len(bytes)]
          BY <3>1, <5>1
        <5>3. left[c][i - Len(bytes)].of = record[c]
          <6>1. i - Len(bytes) \in 1 .. Len(left[c])
            BY <3>1, <5>1 DEF Rest
          <6> QED
            BY <3>1, <6>1 DEF Rest
        <5> QED
          BY <3>2, <5>2, <5>3
      <4> QED
        BY <4>1, <4>2
    <3> QED
      BY <3>3
  <2>3. CASE ~T!Write(c)
    BY <2>1, <2>3, OtherStepsKeepFile
  <2> QED
    BY <2>2, <2>3
<1> QED
  BY <1>5, <1>7, <1>8 DEF Distinct

LEMMA FrontKeeps ==
    ASSUME NEW S, NEW a \in Seq(S), NEW b \in Seq(S), Front(a, b)
    PROVE  \A i \in DOMAIN a : i \in DOMAIN b /\ b[i] = a[i]
BY DEF Front

LEMMA OneLess ==
    ASSUME NEW m \in 1 .. 3, NEW n \in 1 .. m, m - n <= 1, m # 1
    PROVE  m - 1 \in 1 .. n /\ m - 1 \in 1 .. m
OBVIOUS

LEMMA AtMostOne == \A m \in 1 .. 3 : m <= 1 <=> m = 1
OBVIOUS

\* A write of one client completes no record of another.
LEMMA InFileStep ==
    ASSUME FileInv, NEW c \in Client, T!Step(c), NEW d \in Client \ {c},
           step[d] \in InAppend
    PROVE  T!IsIn(d)' <=> T!IsIn(d)
<1>1. FileTyped /\ Distinct
  BY DEF FileInv
<1>2. record'[d] = record[d]
  BY AppendSteps
<1>3. CASE ~T!Write(c)
  BY <1>2, <1>3, OtherStepsKeepFile DEF T!IsIn
<1>4. CASE T!Write(c)
  <2>1. PICK n \in 1 .. Len(left[c]) :
           /\ step[c] = "write" /\ Rest(left[c], record[c])
           /\ bytes' \in Seq(T!Symbol) /\ Front(bytes, bytes')
           /\ Len(bytes') = Len(bytes) + n
           /\ \A i \in 1 .. n : bytes'[Len(bytes) + i] = left[c][i]
    BY <1>4, WriteTakes
  <2>2. record[d] # record[c]
    BY <1>1, <2>1 DEF Distinct, InAppend
  <2>3. \A i \in DOMAIN bytes : i \in DOMAIN bytes' /\ bytes'[i] = bytes[i]
    BY <1>1, <2>1, FrontKeeps DEF FileTyped
  <2>4. ASSUME NEW i \in DOMAIN bytes', i \notin DOMAIN bytes
        PROVE  bytes'[i].of = record[c]
    <3>1. i - Len(bytes) \in 1 .. n /\ Len(bytes) + (i - Len(bytes)) = i
      BY <1>1, <2>1, <2>4 DEF FileTyped
    <3>2. bytes'[i] = left[c][i - Len(bytes)]
      BY <2>1, <3>1
    <3>3. i - Len(bytes) \in 1 .. Len(left[c])
      BY <2>1, <3>1 DEF Rest
    <3> QED
      BY <2>1, <3>2, <3>3 DEF Rest
  <2>5. T!Tail1(record[d]).of = record[d]
    BY DEF T!Tail1
  <2> QED
    BY <1>2, <2>2, <2>3, <2>4, <2>5 DEF T!IsIn
<1> QED
  BY <1>3, <1>4

\* A client's own write completes its record with the last symbol but one.
LEMMA OwnWrite ==
    ASSUME FileInv, NEW c \in Client, T!Write(c), record'[c] = record[c]
    PROVE  T!IsIn(c)' <=> Len(left'[c]) <= 1
<1>1. FileTyped /\ OnTheWay
  BY DEF FileInv
<1>2. PICK n \in 1 .. Len(left[c]) :
         /\ step[c] = "write" /\ Rest(left[c], record[c])
         /\ bytes' \in Seq(T!Symbol) /\ Front(bytes, bytes')
         /\ Len(bytes') = Len(bytes) + n
         /\ \A i \in 1 .. n : bytes'[Len(bytes) + i] = left[c][i]
         /\ Len(left'[c]) = Len(left[c]) - n
  BY WriteTakes
<1> DEFINE l == left[c]
<1>3. l \in Seq(T!Symbol) /\ Len(l) \in 1 .. 3 /\ Len(bytes) \in Nat
      /\ \A i \in 1 .. Len(l) : l[i].of = record[c] /\ (T!IsTail(l[i]) <=> i = Len(l) - 1)
      /\ (T!IsIn(c) <=> Len(l) = 1)
  BY <1>1, <1>2 DEF Rest, OnTheWay, FileTyped
<1>4. \A i \in DOMAIN bytes : i \in DOMAIN bytes' /\ bytes'[i] = bytes[i]
  BY <1>1, <1>2, FrontKeeps DEF FileTyped
<1> HIDE DEF l
<1>5. ASSUME Len(left'[c]) <= 1 PROVE T!IsIn(c)'
  <2>1. CASE Len(l) = 1
    BY <1>3, <1>4, <2>1 DEF T!IsIn
  <2>2. CASE Len(l) # 1
    <3>1. Len(l) - 1 \in 1 .. n /\ Len(l) - 1 \in 1 .. Len(l)
      <4>1. n \in 1 .. Len(l) /\ Len(l) - n <= 1
        BY <1>2, <1>5 DEF l
      <4> QED
        BY <1>3, <2>2, <4>1, OneLess
    <3>2. bytes'[Len(bytes) + (Len(l) - 1)] = l[Len(l) - 1]
      BY <1>2, <3>1 DEF l
    <3>3. l[Len(l) - 1] = T!Tail1(record[c])
      <4>1. l[Len(l) - 1] \in T!Symbol /\ l[Len(l) - 1].of = record[c]
            /\ T!IsTail(l[Len(l) - 1])
        BY <1>3, <3>1
      <4> QED
        BY <4>1 DEF T!Symbol, T!IsTail, T!Tail1
    <3>4. Len(bytes) + (Len(l) - 1) \in DOMAIN bytes'
      BY <1>2, <1>3, <3>1
    <3> QED
      BY <3>2, <3>3, <3>4 DEF T!IsIn
  <2> QED
    BY <2>1, <2>2
<1>6. ASSUME T!IsIn(c)' PROVE Len(left'[c]) <= 1
  <2>1. PICK i \in DOMAIN bytes' : bytes'[i] = T!Tail1(record[c])
    BY <1>6 DEF T!IsIn
  <2>2. CASE i \in DOMAIN bytes
    <3>1. T!IsIn(c)
      BY <1>4, <2>1, <2>2 DEF T!IsIn
    <3> QED
      BY <1>2, <1>3, <3>1 DEF l
  <2>3. CASE i \notin DOMAIN bytes
    <3>1. i - Len(bytes) \in 1 .. n /\ Len(bytes) + (i - Len(bytes)) = i
      BY <1>1, <1>2, <2>3 DEF FileTyped
    <3>2. l[i - Len(bytes)] = T!Tail1(record[c]) /\ i - Len(bytes) \in 1 .. Len(l)
      BY <1>2, <1>3, <2>1, <3>1 DEF l
    <3>3. T!IsTail(T!Tail1(record[c]))
      BY DEF T!IsTail, T!Tail1
    <3>4. i - Len(bytes) = Len(l) - 1
      BY <1>3, <3>2, <3>3
    <3> QED
      BY <1>2, <1>3, <3>1, <3>4 DEF l
  <2> QED
    BY <2>2, <2>3
<1> QED
  BY <1>5, <1>6

\* A record that is new is not in the file: everything there is older.
LEMMA FreshIsOut ==
    ASSUME FileInv, NEW r, r.stamp = tick + 1
    PROVE  \A i \in DOMAIN bytes : bytes[i] # T!Tail1(r)
<1>1. FileTyped /\ Distinct
  BY DEF FileInv
<1>2. ASSUME NEW i \in DOMAIN bytes PROVE bytes[i].of # r
  <2>1. bytes[i].of \in T!EvidenceRecord /\ bytes[i].of.stamp <= tick /\ tick \in Nat
    BY <1>1, SymbolOf DEF FileTyped, Distinct
  <2>2. bytes[i].of.stamp \in Int
    BY <2>1 DEF T!EvidenceRecord
  <2>3. bytes[i].of.stamp # tick + 1
    BY <2>1, <2>2
  <2> QED
    BY <2>3
<1>3. T!Tail1(r).of = r
  BY DEF T!Tail1
<1> QED
  BY <1>2, <1>3

LEMMA OnTheWayNext ==
    ASSUME FileInv, NEW c \in Client, T!Step(c)
    PROVE  OnTheWay'
<1>1. FileTyped /\ Distinct /\ OnTheWay
  BY DEF FileInv
<1> DEFINE Way(d) == /\ step[d] = "open" => ~T!IsIn(d)
                     /\ step[d] = "write" =>
                           Rest(left[d], record[d]) /\ (T!IsIn(d) <=> Len(left[d]) = 1)
<1>2. ASSUME NEW d \in Client \ {c} PROVE Way(d)'
  <2>1. step'[d] = step[d] /\ record'[d] = record[d] /\ left'[d] = left[d]
    BY AppendSteps
  <2>2. CASE step[d] \in InAppend
    BY <1>1, <2>1, <2>2, InFileStep DEF OnTheWay
  <2>3. CASE step[d] \notin InAppend
    BY <2>1, <2>3 DEF InAppend
  <2> QED
    BY <2>2, <2>3
<1>3. Way(c)'
  <2>1. ASSUME NEW s \in Scores, T!Append1(c, s) PROVE Way(c)'
    <3>1. PICK r \in T!EvidenceRecord :
             r.stamp = tick + 1 /\ record' = [record EXCEPT ![c] = r]
      BY <2>1, AppendRecord
    <3>2. record'[c] = r /\ UNCHANGED bytes /\ step'[c] = "open"
      BY <1>1, <2>1, <3>1 DEF FileTyped, T!Append1, T!Goto, T!Call
    <3>3. ~T!IsIn(c)'
      BY <3>1, <3>2, FreshIsOut DEF T!IsIn
    <3> QED
      BY <3>2, <3>3
  <2>2. CASE T!Open(c)
    <3>1. left'[c] = T!Line(record[c]) /\ step'[c] = "write" /\ step[c] = "open"
          /\ UNCHANGED <<bytes, record>> /\ record[c] \in T!EvidenceRecord
      BY <1>1, <2>2 DEF FileTyped, T!Open, T!Goto, T!Call, Distinct, InAppend
    <3>2. Rest(left'[c], record'[c]) /\ Len(left'[c]) = 3
      BY <3>1, LineRest, LineIs
    <3>3. ~T!IsIn(c)'
      BY <1>1, <3>1 DEF OnTheWay, T!IsIn
    <3> QED
      BY <3>1, <3>2, <3>3
  <2>3. CASE T!Write(c)
    <3>1. PICK n \in 1 .. Len(left[c]) :
           /\ Rest(left[c], record[c]) /\ left'[c] \in Seq(T!Symbol)
           /\ n < Len(left[c]) => /\ Rest(left'[c], record[c])
                                  /\ step' = [step EXCEPT ![c] = "write"]
                                  /\ UNCHANGED <<record, ended>>
           /\ n = Len(left[c]) => T!Return(c, "ok")
      BY <2>3, WriteTakes
    <3>2. CASE n < Len(left[c])
      <4>1. record'[c] = record[c] /\ Rest(left'[c], record'[c]) /\ step'[c] = "write"
        BY <1>1, <3>1, <3>2 DEF FileTyped
      <4>2. Len(left'[c]) \in 1 .. 3
        BY <4>1 DEF Rest
      <4>3. T!IsIn(c)' <=> Len(left'[c]) <= 1
        BY <2>3, <4>1, OwnWrite
      <4>4. Len(left'[c]) <= 1 <=> Len(left'[c]) = 1
        BY <4>2, AtMostOne
      <4> QED
        BY <4>1, <4>3, <4>4
    <3>3. CASE n = Len(left[c])
      BY <1>1, <3>1, <3>3 DEF FileTyped, T!Return
    <3>4. n < Len(left[c]) \/ n = Len(left[c])
      BY <3>1 DEF Rest
    <3> QED
      BY <3>2, <3>3, <3>4
  <2>4. CASE T!Break(c) \/ T!Trend(c) \/ T!Read(c) \/ T!Parse(c)
    <3>1. step'[c] \notin InAppend
      BY <1>1, <2>4 DEF FileTyped, T!Break, T!Trend, T!Read, T!Parse, T!Return,
         T!Goto, T!Call, InAppend
    <3> QED
      BY <3>1 DEF InAppend
  <2> QED
    BY <2>1, <2>2, <2>3, <2>4 DEF T!Step
<1> QED
  BY <1>2, <1>3 DEF OnTheWay

-----------------------------------------------------------------------------
(* NoLockNeeded: a whole line at the end of a readable file.                *)

LEMMA TwoMore ==
    ASSUME NEW n \in Nat, NEW i \in 1 .. n, i < n, i + 1 # n
    PROVE  (i + 1) + 1 \in 1 .. n
OBVIOUS

LEMMA ReadableLine ==
    ASSUME NEW s \in Seq(T!Symbol), T!Readable(s),
           s # <<>> => T!IsNewline(s[Len(s)]),
           NEW l \in Seq(T!Symbol), NEW r, Len(l) = 3,
           l[1] = T!Head1(r), l[2] = T!Tail1(r), l[3] = [of |-> r, part |-> "newline"],
           NEW t \in Seq(T!Symbol), Len(t) = Len(s) + 3,
           \A i \in 1 .. Len(s) : t[i] = s[i],
           \A i \in 1 .. 3 : t[Len(s) + i] = l[i]
    PROVE  T!Readable(t) /\ T!IsNewline(t[Len(t)])
<1> DEFINE n == Len(s)
<1>1. n \in Nat /\ Len(t) = n + 3 /\ DOMAIN s = 1 .. n /\ DOMAIN t = 1 .. n + 3
  OBVIOUS
<1>2. /\ t[n + 1] = T!Head1(r) /\ t[n + 2] = T!Tail1(r)
      /\ t[n + 3] = [of |-> r, part |-> "newline"]
  BY <1>1
<1>3. /\ T!IsHead(t[n + 1]) /\ ~T!IsTail(t[n + 1]) /\ t[n + 1].of = r
      /\ T!IsTail(t[n + 2]) /\ ~T!IsHead(t[n + 2])
      /\ T!IsNewline(t[n + 3]) /\ ~T!IsTail(t[n + 3]) /\ ~T!IsHead(t[n + 3])
      /\ t[n + 2].of = r
  BY <1>2 DEF T!IsHead, T!IsTail, T!IsNewline, T!Head1, T!Tail1
<1>4. T!IsLine(t, n + 1)
  <2>1. T!Starts(t, n + 1)
    <3>1. CASE n = 0
      BY <3>1 DEF T!Starts
    <3>2. CASE n # 0
      <4>1. s # <<>> /\ n \in 1 .. n /\ (n + 1) - 1 = n
        BY <1>1, <3>2
      <4>2. T!IsNewline(t[n])
        BY <4>1
      <4> QED
        BY <4>1, <4>2 DEF T!Starts
    <3> QED
      BY <3>1, <3>2
  <2>2. T!Ends(t, (n + 1) + 1)
    <3>1. ((n + 1) + 1) + 1 = n + 3
      BY <1>1
    <3> QED
      BY <1>3, <3>1 DEF T!Ends
  <2>3. n + 1 < Len(t) /\ (n + 1) + 1 = n + 2
    BY <1>1
  <2> QED
    BY <1>2, <1>3, <2>1, <2>2, <2>3 DEF T!IsLine
<1>5. ASSUME NEW i \in 1 .. n, T!IsLine(s, i) PROVE T!IsLine(t, i)
  <2>1. i < n /\ T!Starts(s, i) /\ T!Ends(s, i + 1) /\ i + 1 \in 1 .. n
        /\ s[i] = T!Head1(s[i].of) /\ s[i + 1] = T!Tail1(s[i].of)
    BY <1>1, <1>5 DEF T!IsLine
  <2>2. t[i] = s[i] /\ t[i + 1] = s[i + 1]
    BY <2>1
  <2>3. T!Starts(t, i)
    <3>1. CASE i = 1
      BY <3>1 DEF T!Starts
    <3>2. CASE i # 1
      <4>1. i - 1 \in 1 .. n
        BY <3>2
      <4>2. T!IsNewline(s[i - 1]) /\ t[i - 1] = s[i - 1]
        BY <2>1, <3>2, <4>1 DEF T!Starts
      <4> QED
        BY <4>2 DEF T!Starts
    <3> QED
      BY <3>1, <3>2
  <2>4. T!Ends(t, i + 1)
    <3>1. CASE i + 1 = n
      <4>1. FALSE
        <5>1. s[n].part = "tail"
          BY <2>1, <3>1 DEF T!Tail1
        <5>2. s # <<>>
          BY <1>1, <2>1
        <5> QED
          BY <5>1, <5>2 DEF T!IsNewline
      <4> QED
        BY <4>1
    <3>2. CASE i + 1 # n
      <4>1. (i + 1) + 1 \in 1 .. n
        BY <1>1, <2>1, <3>2, TwoMore
      <4>2. T!IsNewline(s[(i + 1) + 1])
        BY <2>1, <3>2 DEF T!Ends
      <4>3. t[(i + 1) + 1] = s[(i + 1) + 1]
        BY <4>1
      <4> QED
        BY <4>2, <4>3 DEF T!Ends
    <3> QED
      BY <3>1, <3>2
  <2>5. i < Len(t)
    BY <1>1, <2>1
  <2> QED
    BY <2>1, <2>2, <2>3, <2>4, <2>5 DEF T!IsLine
<1>6. ASSUME NEW i \in DOMAIN t
      PROVE  /\ T!IsHead(t[i]) => T!IsLine(t, i)
             /\ T!IsTail(t[i]) => i > 1 /\ T!IsLine(t, i - 1)
  <2>1. CASE i \in 1 .. n
    <3>1. t[i] = s[i] /\ i \in DOMAIN s
      BY <1>1, <2>1
    <3>2. /\ T!IsHead(s[i]) => T!IsLine(s, i)
          /\ T!IsTail(s[i]) => i > 1 /\ T!IsLine(s, i - 1)
      BY <3>1 DEF T!Readable
    <3>3. i > 1 => i - 1 \in 1 .. n
      BY <2>1
    <3> QED
      BY <1>5, <2>1, <3>1, <3>2, <3>3
  <2>2. CASE i = n + 1
    BY <1>3, <1>4, <2>2
  <2>3. CASE i = n + 2
    <3>1. i > 1 /\ i - 1 = n + 1
      BY <1>1, <2>3
    <3> QED
      BY <1>3, <1>4, <2>3, <3>1
  <2>4. CASE i = n + 3
    BY <1>3, <2>4
  <2>5. i \in 1 .. n \/ i = n + 1 \/ i = n + 2 \/ i = n + 3
    BY <1>1
  <2> QED
    BY <2>1, <2>2, <2>3, <2>4, <2>5
<1>7. T!Readable(t)
  BY <1>6 DEF T!Readable
<1> QED
  BY <1>1, <1>3, <1>7

LEMMA WholeLinesNext ==
    ASSUME FileInv, NEW c \in Client, T!Step(c), UNCHANGED shortWrites
    PROVE  WholeLines'
<1> SUFFICES ASSUME ~shortWrites
             PROVE  /\ T!Readable(bytes')
                    /\ bytes' # <<>> => T!IsNewline(bytes'[Len(bytes')])
                    /\ \A d \in Client : step'[d] = "write" => left'[d] = T!Line(record'[d])
  BY DEF WholeLines, T!Readable, T!IsHead, T!IsTail, T!IsNewline, T!IsLine, T!Starts,
     T!Ends, T!Line, T!Head1, T!Tail1
<1>1. FileTyped /\ T!Readable(bytes)
      /\ (bytes # <<>> => T!IsNewline(bytes[Len(bytes)]))
      /\ \A d \in Client : step[d] = "write" => left[d] = T!Line(record[d])
  BY DEF FileInv, WholeLines
<1>2. \A d \in Client \ {c} : step'[d] = "write" => left'[d] = T!Line(record'[d])
  <2>1. \A d \in Client \ {c} : step'[d] = step[d] /\ record'[d] = record[d]
                                /\ left'[d] = left[d]
    BY AppendSteps
  <2> QED
    BY <1>1, <2>1
<1>3. CASE T!Write(c)
  <2>1. PICK n \in 1 .. Len(left[c]) :
           /\ step[c] = "write" /\ record[c] \in T!EvidenceRecord
           /\ ~shortWrites => n = Len(left[c])
           /\ bytes' \in Seq(T!Symbol) /\ Front(bytes, bytes')
           /\ Len(bytes') = Len(bytes) + n
           /\ \A i \in 1 .. n : bytes'[Len(bytes) + i] = left[c][i]
           /\ n = Len(left[c]) => T!Return(c, "ok")
    BY <1>3, WriteTakes
  <2>2. left[c] = T!Line(record[c])
    BY <1>1, <2>1
  <2>3. /\ left[c] \in Seq(T!Symbol) /\ Len(left[c]) = 3
        /\ left[c][1] = T!Head1(record[c]) /\ left[c][2] = T!Tail1(record[c])
        /\ left[c][3] = [of |-> record[c], part |-> "newline"]
    BY <2>1, <2>2, LineIs
  <2>4. n = 3 /\ step'[c] = "ready"
    BY <1>1, <2>1, <2>3 DEF FileTyped, T!Return
  <2>5. T!Readable(bytes') /\ T!IsNewline(bytes'[Len(bytes')])
    <3> DEFINE l == left[c]
    <3>1. /\ l \in Seq(T!Symbol) /\ Len(l) = 3
          /\ l[1] = T!Head1(record[c]) /\ l[2] = T!Tail1(record[c])
          /\ l[3] = [of |-> record[c], part |-> "newline"]
      BY <2>3
    <3>2. /\ bytes \in Seq(T!Symbol) /\ bytes' \in Seq(T!Symbol)
          /\ Len(bytes') = Len(bytes) + 3
          /\ \A i \in 1 .. Len(bytes) : bytes'[i] = bytes[i]
          /\ \A i \in 1 .. 3 : bytes'[Len(bytes) + i] = l[i]
      BY <1>1, <2>1, <2>4 DEF Front, FileTyped
    <3> DEFINE s == bytes
               r == record[c]
               t == bytes'
    <3>3. /\ s \in Seq(T!Symbol) /\ t \in Seq(T!Symbol) /\ Len(t) = Len(s) + 3
          /\ \A i \in 1 .. Len(s) : t[i] = s[i]
          /\ \A i \in 1 .. 3 : t[Len(s) + i] = l[i]
      BY <3>2
    <3>4. T!Readable(s) /\ (s # <<>> => T!IsNewline(s[Len(s)]))
      BY <1>1, <2>1
    <3>5. /\ l \in Seq(T!Symbol) /\ Len(l) = 3
          /\ l[1] = T!Head1(r) /\ l[2] = T!Tail1(r) /\ l[3] = [of |-> r, part |-> "newline"]
      BY <3>1
    <3> HIDE DEF l, s, r, t
    <3>7. s \in Seq(T!Symbol) /\ l \in Seq(T!Symbol) /\ t \in Seq(T!Symbol)
      BY <3>3, <3>5
    <3>8. Len(l) = 3 /\ Len(t) = Len(s) + 3
      BY <3>3, <3>5
    <3>9. /\ \A i \in 1 .. Len(s) : t[i] = s[i]
          /\ \A i \in 1 .. 3 : t[Len(s) + i] = l[i]
      BY <3>3
    <3>10. l[1] = T!Head1(r) /\ l[2] = T!Tail1(r) /\ l[3] = [of |-> r, part |-> "newline"]
      BY <3>5
    <3>6. T!Readable(t) /\ T!IsNewline(t[Len(t)])
      BY <3>4, <3>7, <3>8, <3>9, <3>10, ReadableLine, ZenonT(30)
    <3> QED
      BY <3>6 DEF t
  <2> QED
    BY <1>2, <2>4, <2>5
<1>4. CASE ~T!Write(c)
  <2>1. UNCHANGED bytes
    BY <1>4, OtherStepsKeepFile
  <2>2. step'[c] = "write" => left'[c] = T!Line(record'[c])
    <3>1. CASE T!Open(c)
      BY <1>1, <3>1 DEF FileTyped, T!Open
    <3>2. ASSUME NEW s \in Scores, T!Append1(c, s) PROVE step'[c] # "write"
      BY <1>1, <3>2 DEF FileTyped, T!Append1, T!Goto, T!Call
    <3>3. CASE T!Break(c) \/ T!Trend(c) \/ T!Read(c) \/ T!Parse(c)
      BY <1>1, <3>3 DEF FileTyped, T!Break, T!Trend, T!Read, T!Parse, T!Return, T!Goto, T!Call
    <3> QED
      BY <1>4, <3>1, <3>2, <3>3 DEF T!Step
  <2> QED
    BY <1>1, <1>2, <2>1, <2>2
<1> QED
  BY <1>3, <1>4

LEMMA FrontTransitive ==
    ASSUME NEW S, NEW a \in Seq(S), NEW b \in Seq(S), NEW d \in Seq(S),
           Front(a, b), Front(b, d)
    PROVE  Front(a, d)
BY DEF Front

LEMMA ReadBeforeNext ==
    ASSUME FileInv, NEW c \in Client, T!Step(c)
    PROVE  ReadBefore'
<1>1. FileTyped /\ ReadBefore
  BY DEF FileInv
<1>2. bytes' \in Seq(T!Symbol) /\ Front(bytes, bytes')
  BY FileGrows
<1>3. ASSUME NEW d \in Client \ {c}, step'[d] = "parse" PROVE Front(seen'[d], bytes')
  <2>1. step[d] = "parse" /\ seen'[d] = seen[d]
    BY <1>3, AppendSteps
  <2>2. Front(seen[d], bytes) /\ seen[d] \in Seq(T!Symbol) /\ bytes \in Seq(T!Symbol)
    BY <1>1, <2>1 DEF ReadBefore, FileTyped
  <2> QED
    BY <1>2, <2>1, <2>2, FrontTransitive
<1>4. ASSUME step'[c] = "parse" PROVE Front(seen'[c], bytes')
  <2>1. T!Read(c) /\ seen'[c] = bytes /\ UNCHANGED bytes
    <3>1. CASE T!Read(c)
      BY <1>1, <1>4, <3>1 DEF FileTyped, T!Read, T!Return
    <3>2. ASSUME NEW s \in Scores, T!Append1(c, s) PROVE FALSE
      BY <1>1, <1>4, <3>2 DEF FileTyped, T!Append1, T!Goto, T!Call
    <3>3. CASE T!Open(c) \/ T!Write(c) \/ T!Break(c) \/ T!Trend(c) \/ T!Parse(c)
      BY <1>1, <1>4, <3>3 DEF FileTyped, T!Open, T!Write, T!Break, T!Trend, T!Parse,
         T!Return, T!Goto, T!Call
    <3> QED
      BY <3>1, <3>2, <3>3 DEF T!Step
  <2> QED
    BY <1>2, <2>1
<1> QED
  BY <1>3, <1>4 DEF ReadBefore

\* What a History returns is the beginning of what the file lists from then on.
LEMMA ListedBeforeNext ==
    ASSUME FileInv, NEW c \in Client, T!Step(c)
    PROVE  ListedBefore'
<1>1. FileTyped /\ ReadBefore /\ ListedBefore
  BY DEF FileInv
<1>2. bytes' \in Seq(T!Symbol) /\ Front(bytes, bytes') /\ bytes \in Seq(T!Symbol)
  BY <1>1, FileGrows DEF FileTyped
<1>3. Front(Listed(bytes), Listed(bytes'))
      /\ Listed(bytes) \in Seq(T!EvidenceRecord) /\ Listed(bytes') \in Seq(T!EvidenceRecord)
  BY <1>2, RecordsGrow, RecordsType
<1>4. ASSUME NEW d \in Client, history'[d] = history[d], history'[d] # None
      PROVE  Front(history'[d], Listed(bytes'))
  <2>1. Front(history[d], Listed(bytes)) /\ history[d] \in Seq(T!EvidenceRecord)
    BY <1>1, <1>4 DEF ListedBefore, FileTyped
  <2> QED
    BY <1>3, <1>4, <2>1, FrontTransitive
<1>5. ASSUME history'[c] # history[c], history'[c] # None
      PROVE  Front(history'[c], Listed(bytes'))
  <2>1. CASE T!Parse(c)
    <3>1. history'[c] = Listed(seen[c]) /\ step[c] = "parse" /\ UNCHANGED bytes
      BY <1>1, <1>5, <2>1 DEF FileTyped, T!Parse, Listed
    <3>2. Front(seen[c], bytes) /\ seen[c] \in Seq(T!Symbol)
      BY <1>1, <3>1 DEF ReadBefore, FileTyped
    <3> QED
      BY <1>2, <3>1, <3>2, RecordsGrow
  <2>2. CASE T!Read(c)
    BY <1>1, <1>5, <2>2 DEF FileTyped, T!Read
  <2>3. ASSUME NEW s \in Scores, T!Append1(c, s) PROVE FALSE
    BY <1>5, <2>3 DEF T!Append1
  <2>4. CASE T!Open(c) \/ T!Write(c) \/ T!Break(c) \/ T!Trend(c)
    BY <1>5, <2>4 DEF T!Open, T!Write, T!Break, T!Trend
  <2> QED
    BY <2>1, <2>2, <2>3, <2>4 DEF T!Step
<1>6. \A d \in Client \ {c} : history'[d] = history[d]
  BY AppendSteps
<1> QED
  BY <1>4, <1>5, <1>6 DEF ListedBefore

LEMMA FileStutter ==
    ASSUME FileInv, UNCHANGED T!jsonl
    PROVE  FileInv'
<1>1. UNCHANGED <<shortWrites, bytes, tick, step, record, left, seen, history, ended>>
  BY DEF T!jsonl
<1>2. FileTyped'
  BY <1>1 DEF FileInv, FileTyped
<1>3. Distinct' /\ OnTheWay'
  BY <1>1 DEF FileInv, Distinct, OnTheWay, T!IsIn
<1>4. WholeLines'
  <2>1. T!Readable(bytes') = T!Readable(bytes)
    BY <1>1
  <2>2. T!Readable(bytes)' = T!Readable(bytes')
    BY DEF T!Readable, T!IsHead, T!IsTail, T!IsNewline, T!IsLine, T!Starts, T!Ends,
       T!Head1, T!Tail1
  <2> QED
    BY <1>1, <2>1, <2>2 DEF FileInv, WholeLines, T!IsNewline, T!Line, T!Head1, T!Tail1
<1>5. ReadBefore' /\ ListedBefore'
  BY <1>1 DEF FileInv, ReadBefore, ListedBefore
<1> QED
  BY <1>2, <1>3, <1>4, <1>5 DEF FileInv

LEMMA FileNext == FileInv /\ [T!TrailsNext]_(T!trailsVars) => FileInv'
<1> SUFFICES ASSUME FileInv, [T!TrailsNext]_(T!trailsVars) PROVE FileInv'
  OBVIOUS
<1>1. ASSUME NEW c \in Client, T!Step(c), UNCHANGED shortWrites PROVE FileInv'
  BY <1>1, FileTypedNext, DistinctNext, OnTheWayNext, WholeLinesNext,
     ReadBeforeNext, ListedBeforeNext DEF FileInv
<1>2. CASE T!Next
  BY <1>1, <1>2 DEF T!Next
<1>3. CASE UNCHANGED T!jsonl
  BY <1>3, FileStutter
<1> QED
  BY <1>2, <1>3 DEF T!TrailsNext, T!trailsVars

LEMMA FileInvariance == T!TrailsSpec => []FileInv
<1>1. T!TrailsInit => FileInv
  BY FileInit DEF T!TrailsInit
<1> QED
  BY <1>1, FileNext, PTL DEF T!TrailsSpec

\* What a History returned stays the beginning of every later one, for any
\* number of processes, however their lines are torn (JSONLTrail.Parse).
THEOREM HistoriesGrow == TargetsSpec => []HistoryGrows
<1>1. FileInv => T!HistoryGrows
  <2> SUFFICES ASSUME FileInv, NEW c \in Client, history[c] # None
               PROVE  /\ Len(history[c]) <= Len(T!Records(bytes))
                      /\ history[c] = SubSeq(T!Records(bytes), 1, Len(history[c]))
    BY DEF T!HistoryGrows
  <2> DEFINE a == history[c]
             b == T!Records(bytes)
  <2>1. Front(a, b) /\ a \in Seq(T!EvidenceRecord) /\ b \in Seq(T!EvidenceRecord)
    BY RecordsType DEF FileInv, FileTyped, ListedBefore, Listed
  <2> HIDE DEF a, b
  <2>2. Len(a) <= Len(b) /\ a = SubSeq(b, 1, Len(a))
    <3>1. Len(a) <= Len(b) /\ \A i \in 1 .. Len(a) : a[i] = b[i]
      BY <2>1 DEF Front
    <3>2. /\ SubSeq(b, 1, Len(a)) \in Seq(T!EvidenceRecord)
          /\ Len(SubSeq(b, 1, Len(a))) = Len(a)
          /\ \A i \in 1 .. Len(a) : SubSeq(b, 1, Len(a))[i] = b[i]
      BY <2>1, <3>1
    <3> QED
      BY <2>1, <3>1, <3>2, SameSequence
  <2> QED
    BY <2>2 DEF a, b
<1> QED
  BY <1>1, FileInvariance, TargetsAreApart, PTL DEF HistoryGrows

\* Without short writes the file is readable at every moment, however appends
\* race, fail or die (JSONLTrail.Append takes no lock).
THEOREM AppendsNeedNoLock == TargetsSpec => []NoLockNeeded
<1>1. FileInv => T!NoLockNeeded
  BY DEF FileInv, WholeLines, T!NoLockNeeded
<1> QED
  BY <1>1, FileInvariance, TargetsAreApart, PTL DEF NoLockNeeded

-----------------------------------------------------------------------------
(* The file is a log (EvidenceTrail).                                      *)

FileCalls == [d \in Client |-> T!CallOf(d)]
FileGots  == [d \in Client |-> IF step[d] = "parse" THEN T!Records(seen[d])
                                                    ELSE history[d]]

LEMMA CallNames2 ==
    ASSUME NEW d \in Client
    PROVE  /\ step[d] = "ready" => FileCalls[d] = "ready"
           /\ step[d] = "read" => FileCalls[d] = "reading"
           /\ step[d] = "parse" => FileCalls[d] = "observed"
           /\ step[d] \in InAppend =>
                 FileCalls[d] = IF T!IsIn(d) THEN "appended" ELSE "appending"
BY DEF FileCalls, T!CallOf, InAppend

LEMMA CallNamesNext ==
    ASSUME NEW d \in Client
    PROVE  /\ step'[d] = "ready" => FileCalls'[d] = "ready"
           /\ step'[d] = "read" => FileCalls'[d] = "reading"
           /\ step'[d] = "parse" => FileCalls'[d] = "observed"
           /\ step'[d] \in InAppend =>
                 FileCalls'[d] = IF T!IsIn(d)' THEN "appended" ELSE "appending"
BY DEF FileCalls, T!CallOf, InAppend

\* A step changes its own client's call and nothing of the others.
LEMMA FileCallsSet ==
    ASSUME FileInv, NEW c \in Client, T!Step(c)
    PROVE  FileCalls' = [FileCalls EXCEPT ![c] = FileCalls'[c]]
<1>1. ASSUME NEW d \in Client \ {c} PROVE T!CallOf(d)' = T!CallOf(d)
  <2>1. step'[d] = step[d]
    BY AppendSteps
  <2>2. CASE step[d] \in InAppend
    BY <2>1, <2>2, InFileStep DEF T!CallOf, InAppend
  <2>3. CASE step[d] \notin InAppend
    <3>1. step[d] \in {"ready", "read", "parse"}
      BY <2>3 DEF InAppend, FileInv, FileTyped
    <3> QED
      BY <2>1, <3>1 DEF T!CallOf
  <2> QED
    BY <2>2, <2>3
<1>2. FileCalls' = [d \in Client |-> T!CallOf(d)']
  BY DEF FileCalls
<1> QED
  BY <1>1, <1>2 DEF FileCalls

LEMMA FileGotsSet ==
    ASSUME FileInv, NEW c \in Client, T!Step(c)
    PROVE  /\ FileGots' = [FileGots EXCEPT ![c] = FileGots'[c]]
           /\ FileGots[c] = IF step[c] = "parse" THEN Listed(seen[c]) ELSE history[c]
           /\ FileGots'[c] = IF step'[c] = "parse" THEN Listed(seen'[c]) ELSE history'[c]
<1>1. \A d \in Client \ {c} : step'[d] = step[d] /\ seen'[d] = seen[d]
                              /\ history'[d] = history[d]
  BY AppendSteps
<1>2. FileGots' = [d \in Client |-> IF step'[d] = "parse" THEN Listed(seen'[d])
                                                          ELSE history'[d]]
  BY DEF FileGots, Listed
<1>3. FileGots = [d \in Client |-> IF step[d] = "parse" THEN Listed(seen[d])
                                                        ELSE history[d]]
  BY DEF FileGots, Listed
<1> QED
  BY <1>1, <1>2, <1>3

LEMMA FileInitLog == T!Init => T!Trail!Init
<1> SUFFICES ASSUME T!Init PROVE T!Trail!Init
  OBVIOUS
<1>1. T!Records(bytes) = <<>>
  <2>1. <<>> \in Seq(T!Symbol) /\ Len(<<>>) = 0 /\ bytes = <<>>
    BY DEF T!Init
  <2>2. PICK g : Lists(g, bytes) /\ Listed(bytes) = g[Len(bytes)]
    BY <2>1, RecordsAre
  <2>3. g[0] = <<>>
    BY <2>1, <2>2 DEF Lists
  <2> QED
    BY <2>1, <2>2, <2>3 DEF Listed
<1>2. FileCalls = [c \in Client |-> "ready"]
  BY CallNames2 DEF T!Init, FileCalls, T!CallOf
<1>3. FileGots = [c \in Client |-> None]
  BY DEF T!Init, FileGots
<1> QED
  BY <1>1, <1>2, <1>3 DEF T!Init, T!Trail!Init, FileCalls, FileGots

LEMMA FileAppendSimulates ==
    ASSUME FileInv, NEW c \in Client, NEW s \in Scores, T!Append1(c, s)
    PROVE  T!Trail!Next
<1>1. T!Step(c) /\ UNCHANGED <<bytes, seen, history>>
  BY DEF T!Step, T!Append1
<1>2. PICK r \in T!EvidenceRecord :
         r.stamp = tick + 1 /\ record' = [record EXCEPT ![c] = r]
  BY AppendRecord
<1>3. step[c] = "ready" /\ step'[c] = "open"
  BY DEF T!Append1, T!Call, FileInv, FileTyped
<1>4. ~T!IsIn(c)'
  <2>1. record'[c] = r
    BY <1>2 DEF FileInv, FileTyped
  <2> QED
    BY <1>1, <1>2, <2>1, FreshIsOut DEF T!IsIn
<1>5. FileCalls' = [FileCalls EXCEPT ![c] = "appending"] /\ FileCalls[c] = "ready"
  BY <1>1, <1>3, <1>4, FileCallsSet, CallNames2, CallNamesNext DEF InAppend
<1>6. UNCHANGED FileGots
  <2>1. FileGots'[c] = FileGots[c]
    BY <1>1, <1>3, FileGotsSet
  <2> QED
    BY <1>1, <2>1, FileGotsSet DEF FileGots
<1>7. T!Trail!Begin(c, "appending")
  BY <1>5 DEF T!Append1, T!Call, T!Trail!Begin, FileCalls
<1>8. T!Trail!Append1(c, r)
  BY <1>1, <1>2, <1>6, <1>7 DEF T!Trail!Append1, FileGots
<1>9. T!Trail!EvidenceRecord = T!EvidenceRecord
  BY DEF T!Trail!EvidenceRecord, T!EvidenceRecord
<1> QED
  BY <1>8, <1>9 DEF T!Trail!Next

LEMMA FileOpenSimulates ==
    ASSUME FileInv, NEW c \in Client, T!Open(c)
    PROVE  UNCHANGED T!Trail!vars
<1>1. T!Step(c) /\ UNCHANGED <<bytes, record, seen, history, ended>>
      /\ step[c] = "open" /\ step'[c] = "write"
  BY DEF T!Step, T!Open, T!Goto, FileInv, FileTyped
<1>2. T!IsIn(c)' <=> T!IsIn(c)
  BY <1>1 DEF T!IsIn
<1>3. UNCHANGED FileCalls
  <2>1. FileCalls'[c] = FileCalls[c]
    BY <1>1, <1>2, CallNames2, CallNamesNext DEF InAppend
  <2> QED
    BY <1>1, <2>1, FileCallsSet DEF FileCalls
<1>4. UNCHANGED FileGots
  <2>1. FileGots'[c] = FileGots[c]
    BY <1>1, FileGotsSet
  <2> QED
    BY <1>1, <2>1, FileGotsSet DEF FileGots
<1> QED
  BY <1>1, <1>3, <1>4 DEF T!Trail!vars, FileCalls, FileGots

LEMMA AtTheEnd ==
    ASSUME NEW S, NEW a \in Seq(S), NEW x \in S
    PROVE  Append(a, x) = SubSeq(a, 1, Len(a)) \o <<x>> \o SubSeq(a, Len(a) + 1, Len(a))
<1>1. SubSeq(a, 1, Len(a)) = a /\ SubSeq(a, Len(a) + 1, Len(a)) = <<>>
  OBVIOUS
<1>2. \A b \in Seq(S) : b \o <<>> = b
  OBVIOUS
<1>3. Append(a, x) = a \o <<x>> /\ Append(a, x) \in Seq(S)
  OBVIOUS
<1> QED
  BY <1>1, <1>2, <1>3

LEMMA PlaceLast ==
    ASSUME FileInv, NEW r \in T!EvidenceRecord,
           Listed(bytes') = Append(Listed(bytes), r)
    PROVE  T!Trail!Place(r)
<1> DEFINE log == Listed(bytes)
<1>1. log \in Seq(T!EvidenceRecord) /\ Len(log) \in 0 .. Len(log)
  BY RecordsType DEF FileInv, FileTyped
<1>2. Listed(bytes') = SubSeq(log, 1, Len(log)) \o <<r>> \o SubSeq(log, Len(log) + 1, Len(log))
  BY <1>1, AtTheEnd
<1> QED
  BY <1>1, <1>2 DEF T!Trail!Place, Listed

LEMMA FileWriteSimulates ==
    ASSUME FileInv, NEW c \in Client, T!Write(c)
    PROVE  T!Trail!Next \/ UNCHANGED T!Trail!vars
<1>1. T!Step(c) /\ UNCHANGED <<seen, history>>
  BY DEF T!Step, T!Write
<1>2. PICK n \in 1 .. Len(left[c]) :
         /\ step[c] = "write" /\ record[c] \in T!EvidenceRecord
         /\ Rest(left[c], record[c])
         /\ Ended(left[c], n) => Listed(bytes') = Append(Listed(bytes), record[c])
         /\ ~Ended(left[c], n) => Listed(bytes') = Listed(bytes)
         /\ Len(left'[c]) = Len(left[c]) - n
         /\ n < Len(left[c]) => /\ step' = [step EXCEPT ![c] = "write"]
                                /\ UNCHANGED <<record, ended>>
         /\ n = Len(left[c]) => T!Return(c, "ok")
  BY WriteTakes
<1> DEFINE m == Len(left[c])
<1>3. m \in 1 .. 3 /\ n \in 1 .. m /\ (n < m \/ n = m)
      /\ (T!IsIn(c) <=> m = 1)
  BY <1>2 DEF Rest, FileInv, OnTheWay
<1>4. UNCHANGED FileGots
  <2>1. step'[c] # "parse"
    BY <1>2, <1>3 DEF T!Return, FileInv, FileTyped
  <2>2. FileGots'[c] = FileGots[c]
    BY <1>1, <1>2, <2>1, FileGotsSet
  <2> QED
    BY <1>1, <2>2, FileGotsSet DEF FileGots
<1>5. FileCalls[c] = IF m = 1 THEN "appended" ELSE "appending"
  BY <1>2, <1>3, CallNames2 DEF InAppend
<1>6. ASSUME n = m
      PROVE  T!Return(c, "ok") /\ FileCalls' = [FileCalls EXCEPT ![c] = "ready"]
  <2>1. T!Return(c, "ok") /\ step'[c] = "ready"
    BY <1>2, <1>6 DEF T!Return, FileInv, FileTyped
  <2> QED
    BY <1>1, <2>1, FileCallsSet, CallNamesNext
<1>7. ASSUME n < m
      PROVE  /\ UNCHANGED <<record, ended>>
             /\ FileCalls' = [FileCalls EXCEPT ![c] =
                                 IF m - n = 1 THEN "appended" ELSE "appending"]
  <2>1. UNCHANGED <<record, ended>> /\ step'[c] = "write"
    BY <1>2, <1>7 DEF FileInv, FileTyped
  <2>2. T!IsIn(c)' <=> m - n <= 1
    BY <1>2, <2>1, OwnWrite
  <2>3. m - n <= 1 <=> m - n = 1
    BY <1>3, <1>7
  <2>4. FileCalls'[c] = IF m - n = 1 THEN "appended" ELSE "appending"
    BY <2>1, <2>2, <2>3, CallNamesNext DEF InAppend
  <2> QED
    BY <1>1, <2>1, <2>4, FileCallsSet
<1> HIDE DEF m
<1>8. CASE Ended(left[c], n)
  <2>1. T!Trail!Place(record[c]) /\ FileCalls[c] = "appending"
    BY <1>2, <1>5, <1>8, PlaceLast DEF Ended, m
  <2>2. CASE n = m
    BY <1>4, <1>6, <2>1, <2>2 DEF T!Trail!Next, T!Trail!Commit, T!Trail!Return,
       T!Return, FileCalls, FileGots
  <2>3. CASE n < m
    <3>1. m - n = 1
      BY <1>3, <1>8, <2>3 DEF Ended, m
    <3>2. FileCalls' = [FileCalls EXCEPT ![c] = "appended"] /\ UNCHANGED <<record, ended>>
      BY <1>7, <2>3, <3>1
    <3> QED
      BY <1>4, <2>1, <3>2 DEF T!Trail!Next, T!Trail!Commit, FileCalls, FileGots
  <2> QED
    BY <1>3, <2>2, <2>3
<1>9. CASE ~Ended(left[c], n)
  <2>1. T!Records(bytes') = T!Records(bytes)
    BY <1>2, <1>9 DEF Listed
  <2>2. CASE m = 1
    <3>1. n = m /\ FileCalls[c] = "appended"
      BY <1>3, <1>5, <2>2
    <3> QED
      BY <1>4, <1>6, <2>1, <3>1 DEF T!Trail!Next, T!Trail!Acknowledge,
         T!Trail!Return, T!Return, FileCalls, FileGots
  <2>3. CASE m # 1
    <3>1. m - n > 1 /\ n < m /\ m - n # 1
      BY <1>3, <1>9, <2>3 DEF Ended, m
    <3>2. UNCHANGED FileCalls /\ UNCHANGED <<record, ended>>
      BY <1>5, <1>7, <2>3, <3>1 DEF FileCalls
    <3> QED
      BY <1>4, <2>1, <3>2 DEF T!Trail!vars, FileCalls, FileGots
  <2> QED
    BY <2>2, <2>3
<1> QED
  BY <1>8, <1>9

LEMMA FileBreakSimulates ==
    ASSUME FileInv, NEW c \in Client, T!Break(c)
    PROVE  T!Trail!Next
<1>1. T!Step(c) /\ UNCHANGED <<bytes, seen, history>> /\ T!Return(c, "failed")
      /\ step[c] \in InAppend /\ step'[c] = "ready"
  BY DEF T!Step, T!Break, T!Return, InAppend, FileInv, FileTyped
<1>2. FileCalls' = [FileCalls EXCEPT ![c] = "ready"]
  BY <1>1, FileCallsSet, CallNamesNext
<1>3. UNCHANGED FileGots
  <2>1. FileGots'[c] = FileGots[c]
    BY <1>1, FileGotsSet DEF InAppend
  <2> QED
    BY <1>1, <2>1, FileGotsSet DEF FileGots
<1>4. FileCalls[c] = IF T!IsIn(c) THEN "appended" ELSE "appending"
  BY <1>1, CallNames2
<1>5. CASE T!IsIn(c)
  BY <1>1, <1>2, <1>3, <1>4, <1>5 DEF T!Trail!Next, T!Trail!Acknowledge,
     T!Trail!Return, T!Return, FileCalls, FileGots
<1>6. CASE ~T!IsIn(c)
  BY <1>1, <1>2, <1>3, <1>4, <1>6 DEF T!Trail!Next, T!Trail!Abandon,
     T!Trail!Return, T!Return, FileCalls, FileGots
<1> QED
  BY <1>5, <1>6

LEMMA FileTrendSimulates ==
    ASSUME FileInv, NEW c \in Client, T!Trend(c)
    PROVE  T!Trail!Next
<1>1. T!Step(c) /\ UNCHANGED <<bytes, record, seen, history>>
      /\ step[c] = "ready" /\ step'[c] = "read"
  BY DEF T!Step, T!Trend, T!Call, FileInv, FileTyped
<1>2. FileCalls' = [FileCalls EXCEPT ![c] = "reading"] /\ FileCalls[c] = "ready"
  BY <1>1, FileCallsSet, CallNames2, CallNamesNext
<1>3. UNCHANGED FileGots
  <2>1. FileGots'[c] = FileGots[c]
    BY <1>1, FileGotsSet
  <2> QED
    BY <1>1, <2>1, FileGotsSet DEF FileGots
<1>4. T!Trail!Begin(c, "reading")
  BY <1>2 DEF T!Trend, T!Call, T!Trail!Begin, FileCalls
<1> QED
  BY <1>1, <1>3, <1>4 DEF T!Trail!Next, T!Trail!History, FileGots

\* os.ReadFile sees the log at one instant, or fails.
LEMMA FileReadSimulates ==
    ASSUME FileInv, NEW c \in Client, T!Read(c)
    PROVE  T!Trail!Next
<1>1. T!Step(c) /\ UNCHANGED bytes /\ step[c] = "read" /\ FileCalls[c] = "reading"
  BY CallNames2 DEF T!Step, T!Read
<1>2. CASE step'[c] = "parse"
  <2>1. seen'[c] = bytes /\ UNCHANGED <<record, ended, history>>
    BY <1>2 DEF T!Read, T!Return, T!Goto, FileInv, FileTyped
  <2>2. FileCalls' = [FileCalls EXCEPT ![c] = "observed"]
    BY <1>1, <1>2, FileCallsSet, CallNamesNext
  <2>3. FileGots' = [FileGots EXCEPT ![c] = T!Records(bytes)]
    BY <1>1, <1>2, <2>1, FileGotsSet DEF Listed
  <2> QED
    BY <1>1, <2>1, <2>2, <2>3 DEF T!Trail!Next, T!Trail!Observe, FileCalls, FileGots
<1>3. CASE step'[c] # "parse"
  <2>1. T!Return(c, "failed") /\ history'[c] = None /\ step'[c] = "ready"
    BY <1>3 DEF T!Read, T!Return, T!Goto, FileInv, FileTyped
  <2>2. FileCalls' = [FileCalls EXCEPT ![c] = "ready"]
    BY <1>1, <2>1, FileCallsSet, CallNamesNext
  <2>3. FileGots' = [FileGots EXCEPT ![c] = None]
    BY <1>1, <1>3, <2>1, FileGotsSet
  <2> QED
    BY <1>1, <2>1, <2>2, <2>3 DEF T!Trail!Next, T!Trail!Abandon, T!Trail!Return,
       T!Return, FileCalls, FileGots
<1> QED
  BY <1>2, <1>3

\* What is parsed is what was read: the verdict is on the log of that moment.
LEMMA FileParseSimulates ==
    ASSUME FileInv, NEW c \in Client, T!Parse(c)
    PROVE  T!Trail!Next
<1>1. T!Step(c) /\ UNCHANGED bytes /\ step[c] = "parse" /\ FileCalls[c] = "observed"
  BY CallNames2 DEF T!Step, T!Parse
<1>2. FileGots[c] = Listed(seen[c])
  BY <1>1, FileGotsSet
<1>3. CASE T!Readable(seen[c])
  <2>1. /\ T!Return(c, T!TrendExit(Listed(seen[c]))) /\ step'[c] = "ready"
        /\ history'[c] = Listed(seen[c])
    BY <1>3 DEF T!Parse, T!Return, FileInv, FileTyped, Listed
  <2>2. FileCalls' = [FileCalls EXCEPT ![c] = "ready"]
    BY <1>1, <2>1, FileCallsSet, CallNamesNext
  <2>3. UNCHANGED FileGots
    <3>1. FileGots'[c] = FileGots[c]
      BY <1>1, <1>2, <2>1, FileGotsSet
    <3> QED
      BY <1>1, <3>1, FileGotsSet DEF FileGots
  <2>4. T!Trail!TrendExit(Listed(seen[c])) = T!TrendExit(Listed(seen[c]))
    BY DEF T!Trail!TrendExit, T!TrendExit, T!Trail!Regressed, T!Regressed
  <2>5. T!Trail!Return(c, T!Trail!TrendExit(FileGots[c]))
    BY <1>2, <2>1, <2>2, <2>4 DEF T!Trail!Return, T!Return, FileCalls
  <2> QED
    BY <1>1, <2>3, <2>5 DEF T!Trail!Next, T!Trail!Answer, FileCalls, FileGots
<1>4. CASE ~T!Readable(seen[c])
  <2>1. T!Return(c, "failed") /\ step'[c] = "ready" /\ history'[c] = None
    BY <1>4 DEF T!Parse, T!Return, FileInv, FileTyped
  <2>2. FileCalls' = [FileCalls EXCEPT ![c] = "ready"]
    BY <1>1, <2>1, FileCallsSet, CallNamesNext
  <2>3. FileGots' = [FileGots EXCEPT ![c] = None]
    BY <1>1, <2>1, FileGotsSet
  <2> QED
    BY <1>1, <2>1, <2>2, <2>3 DEF T!Trail!Next, T!Trail!Abandon, T!Trail!Return,
       T!Return, FileCalls, FileGots
<1> QED
  BY <1>3, <1>4

\* An append is in the log at one instant or never, nothing is taken out, and
\* every trend that answers has seen the whole log (JSONLTrail implements the
\* promise of the Trail interface).
THEOREM FileIsLog == TargetsSpec => TrailSpec
<1>1. ASSUME FileInv, NEW c \in Client, T!Step(c)
      PROVE  T!Trail!Next \/ UNCHANGED T!Trail!vars
  BY <1>1, FileAppendSimulates, FileOpenSimulates, FileWriteSimulates,
     FileBreakSimulates, FileTrendSimulates, FileReadSimulates, FileParseSimulates
     DEF T!Step
<1>2. ASSUME UNCHANGED T!jsonl PROVE UNCHANGED T!Trail!vars
  <2>1. UNCHANGED <<bytes, step, record, seen, history, ended>>
    BY <1>2 DEF T!jsonl
  <2>2. UNCHANGED FileCalls /\ UNCHANGED FileGots
    BY <2>1 DEF FileCalls, FileGots, T!CallOf, T!IsIn
  <2> QED
    BY <2>1, <2>2 DEF T!Trail!vars, FileCalls, FileGots
<1>3. FileInv /\ [T!TrailsNext]_(T!trailsVars) => [T!Trail!Next]_(T!Trail!vars)
  BY <1>1, <1>2 DEF T!TrailsNext, T!trailsVars, T!Next
<1>4. T!TrailsInit => T!Trail!Init
  BY FileInitLog DEF T!TrailsInit
<1> QED
  BY <1>3, <1>4, FileInvariance, TargetsAreApart, PTL
     DEF TrailSpec, T!TrailsSpec, T!TrailSpec, T!Trail!Spec

-----------------------------------------------------------------------------
(* The listing of a table (PostgresTrail).                                 *)

Entry == [id : Nat, rec : T!DB!EvidenceRecord]

SetOf(q) == {q[i] : i \in DOMAIN q}

\* s lists the n members of R in the order of their times, then of their ids.
InOrderOf(s, R, n) ==
    /\ s \in [1 .. n -> R] /\ {s[i] : i \in DOMAIN s} = R
    /\ \A i, j \in DOMAIN s : i < j => T!DB!Before(s[i], s[j])

LEMMA BeforeOrders ==
    /\ \A x \in Entry : ~T!DB!Before(x, x)
    /\ \A x, y \in Entry : ~(T!DB!Before(x, y) /\ T!DB!Before(y, x))
    /\ \A x, y \in Entry : x.id # y.id => T!DB!Before(x, y) \/ T!DB!Before(y, x)
    /\ \A x, y, z \in Entry : T!DB!Before(x, y) /\ T!DB!Before(y, z) => T!DB!Before(x, z)
<1>1. \A x \in Entry : x.id \in Int /\ x.rec.stamp \in Int
  BY DEF Entry, T!DB!EvidenceRecord
<1> QED
  BY <1>1 DEF T!DB!Before

LEMMA OneOrder ==
    ASSUME NEW R, R \subseteq Entry, NEW n \in Nat,
           NEW s, InOrderOf(s, R, n), NEW t, InOrderOf(t, R, n)
    PROVE  s = t
<1> DEFINE Bad == {k \in 1 .. n : s[k] # t[k]}
<1>1. /\ DOMAIN s = 1 .. n /\ DOMAIN t = 1 .. n
      /\ \A k \in 1 .. n : s[k] \in R /\ t[k] \in R /\ s[k] \in Entry /\ t[k] \in Entry
      /\ \A i, j \in 1 .. n : i < j => T!DB!Before(s[i], s[j]) /\ T!DB!Before(t[i], t[j])
      /\ \A x \in R : (\E i \in 1 .. n : s[i] = x) /\ (\E i \in 1 .. n : t[i] = x)
  BY DEF InOrderOf
<1>2. ASSUME Bad # {} PROVE FALSE
  <2>1. PICK k \in Bad : \A j \in Bad : k <= j
    <3>1. Bad \subseteq Nat
      OBVIOUS
    <3> HIDE DEF Bad
    <3> QED
      BY <1>2, <3>1, Least
  <2>2. k \in 1 .. n /\ s[k] # t[k] /\ \A j \in 1 .. n : j < k => s[j] = t[j]
    BY <2>1
  <2> HIDE DEF Bad
  <2>3. PICK i \in 1 .. n : t[i] = s[k]
    BY <1>1, <2>2
  <2>4. PICK j \in 1 .. n : s[j] = t[k]
    BY <1>1, <2>2
  <2>5. k < i
    <3>1. ASSUME i < k PROVE FALSE
      <4>1. s[i] = s[k] /\ T!DB!Before(s[i], s[k]) /\ s[k] \in Entry
        BY <1>1, <2>2, <2>3, <3>1
      <4> QED
        BY <4>1, BeforeOrders
    <3> QED
      BY <2>2, <2>3, <3>1
  <2>6. k < j
    <3>1. ASSUME j < k PROVE FALSE
      <4>1. t[j] = t[k] /\ T!DB!Before(t[j], t[k]) /\ t[k] \in Entry
        BY <1>1, <2>2, <2>4, <3>1
      <4> QED
        BY <4>1, BeforeOrders
    <3> QED
      BY <2>2, <2>4, <3>1
  <2>7. T!DB!Before(t[k], s[k]) /\ T!DB!Before(s[k], t[k])
    BY <1>1, <2>2, <2>3, <2>4, <2>5, <2>6
  <2> QED
    BY <1>1, <2>2, <2>7, BeforeOrders
<1>3. \A k \in 1 .. n : s[k] = t[k]
  BY <1>2
<1> QED
  BY <1>3 DEF InOrderOf

\* Where a row that is added stands.
With(s, n, k, x) == [i \in 1 .. n + 1 |->
                        IF i <= k THEN s[i] ELSE IF i = k + 1 THEN x ELSE s[i - 1]]

LEMMA PlaceOf ==
    ASSUME NEW R, R \subseteq Entry, NEW n \in Nat, NEW s, InOrderOf(s, R, n),
           NEW x \in Entry, \A y \in R : y.id # x.id
    PROVE  \E k \in 0 .. n :
              /\ \A i \in 1 .. n : i <= k => T!DB!Before(s[i], x)
              /\ \A i \in 1 .. n : i > k => T!DB!Before(x, s[i])
<1>1. /\ DOMAIN s = 1 .. n
      /\ \A i \in 1 .. n : s[i] \in R /\ s[i] \in Entry
      /\ \A i, j \in 1 .. n : i < j => T!DB!Before(s[i], s[j])
  BY DEF InOrderOf
<1> DEFINE After == {i \in 1 .. n : T!DB!Before(x, s[i])} \cup {n + 1}
<1>2. PICK m \in After : \A i \in After : m <= i
  <2>1. After \subseteq Nat /\ After # {}
    OBVIOUS
  <2> HIDE DEF After
  <2> QED
    BY <2>1, Least
<1>3. m \in 1 .. n + 1
  BY <1>2
<1>4. ASSUME NEW i \in 1 .. n, i <= m - 1 PROVE T!DB!Before(s[i], x)
  <2>1. i \notin After
    <3> HIDE DEF After
    <3> QED
      BY <1>2, <1>3, <1>4
  <2>2. ~T!DB!Before(x, s[i])
    BY <2>1
  <2> QED
    BY <1>1, <2>2, BeforeOrders
<1>5. ASSUME NEW i \in 1 .. n, i > m - 1 PROVE T!DB!Before(x, s[i])
  <2>1. m \in 1 .. n /\ T!DB!Before(x, s[m]) /\ m <= i
    <3>1. m # n + 1 /\ m <= i
      BY <1>3, <1>5
    <3> QED
      BY <1>2, <1>3, <3>1
  <2>2. CASE i = m
    BY <2>1, <2>2
  <2>3. CASE i # m
    <3>1. T!DB!Before(s[m], s[i])
      BY <1>1, <1>3, <2>1, <2>3
    <3> QED
      BY <1>1, <2>1, <3>1, BeforeOrders
  <2> QED
    BY <2>2, <2>3
<1>6. m - 1 \in 0 .. n
  BY <1>3
<1> QED
  BY <1>4, <1>5, <1>6

LEMMA OrderWith ==
    ASSUME NEW R, R \subseteq Entry, NEW n \in Nat, NEW s, InOrderOf(s, R, n),
           NEW x \in Entry, NEW k \in 0 .. n,
           \A i \in 1 .. n : i <= k => T!DB!Before(s[i], x),
           \A i \in 1 .. n : i > k => T!DB!Before(x, s[i])
    PROVE  InOrderOf(With(s, n, k, x), R \cup {x}, n + 1)
<1>1. /\ DOMAIN s = 1 .. n
      /\ \A i \in 1 .. n : s[i] \in R /\ s[i] \in Entry
      /\ \A i, j \in 1 .. n : i < j => T!DB!Before(s[i], s[j])
      /\ \A y \in R : \E i \in 1 .. n : s[i] = y
  BY DEF InOrderOf
<1> DEFINE t == With(s, n, k, x)
<1>2. /\ DOMAIN t = 1 .. n + 1 /\ t = [i \in 1 .. n + 1 |-> t[i]]
      /\ \A i \in 1 .. n + 1 : t[i] = IF i <= k THEN s[i]
                                      ELSE IF i = k + 1 THEN x ELSE s[i - 1]
  BY DEF With
<1> HIDE DEF t
<1>3. ASSUME NEW i \in 1 .. n + 1
      PROVE  \/ i <= k /\ i \in 1 .. n /\ t[i] = s[i]
             \/ i = k + 1 /\ t[i] = x
             \/ i > k + 1 /\ i - 1 \in 1 .. n /\ i - 1 > k /\ t[i] = s[i - 1]
  BY <1>2
<1>4. t \in [1 .. n + 1 -> R \cup {x}]
  <2>1. \A i \in 1 .. n + 1 : t[i] \in R \cup {x}
    BY <1>1, <1>3
  <2> QED
    BY <1>2, <2>1
<1>5. {t[i] : i \in DOMAIN t} = R \cup {x}
  <2>1. ASSUME NEW y \in R PROVE \E i \in 1 .. n + 1 : t[i] = y
    <3>1. PICK i \in 1 .. n : s[i] = y
      BY <1>1
    <3>2. CASE i <= k
      <4>1. i \in 1 .. n + 1 /\ t[i] = s[i]
        BY <1>2, <3>2
      <4> QED
        BY <3>1, <4>1
    <3>3. CASE i > k
      <4>1. i + 1 \in 1 .. n + 1 /\ ~(i + 1 <= k) /\ i + 1 # k + 1 /\ (i + 1) - 1 = i
        BY <3>3
      <4>2. t[i + 1] = s[i]
        BY <1>2, <4>1
      <4> QED
        BY <3>1, <4>1, <4>2
    <3> QED
      BY <3>2, <3>3
  <2>2. k + 1 \in 1 .. n + 1 /\ t[k + 1] = x
    <3>1. k + 1 \in 1 .. n + 1 /\ ~(k + 1 <= k)
      OBVIOUS
    <3> QED
      BY <1>2, <3>1
  <2> QED
    BY <1>2, <1>4, <2>1, <2>2
<1>6. ASSUME NEW i \in 1 .. n + 1, NEW j \in 1 .. n + 1, i < j
      PROVE  T!DB!Before(t[i], t[j])
  <2>1. \/ i <= k /\ i \in 1 .. n /\ t[i] = s[i]
        \/ i = k + 1 /\ t[i] = x
        \/ i > k + 1 /\ i - 1 \in 1 .. n /\ i - 1 > k /\ t[i] = s[i - 1]
    BY <1>3
  <2>2. \/ j <= k /\ j \in 1 .. n /\ t[j] = s[j]
        \/ j = k + 1 /\ t[j] = x
        \/ j > k + 1 /\ j - 1 \in 1 .. n /\ j - 1 > k /\ t[j] = s[j - 1]
    BY <1>3
  <2>3. CASE i <= k /\ i \in 1 .. n /\ t[i] = s[i]
    <3>1. CASE j <= k /\ j \in 1 .. n /\ t[j] = s[j]
      BY <1>1, <1>6, <2>3, <3>1
    <3>2. CASE j = k + 1 /\ t[j] = x
      BY <2>3, <3>2
    <3>3. CASE j > k + 1 /\ j - 1 \in 1 .. n /\ j - 1 > k /\ t[j] = s[j - 1]
      <4>1. i < j - 1
        BY <2>3, <3>3
      <4> QED
        BY <1>1, <2>3, <3>3, <4>1
    <3> QED
      BY <2>2, <3>1, <3>2, <3>3
  <2>4. CASE i = k + 1 /\ t[i] = x
    <3>1. j > k + 1
      BY <1>6, <2>4
    <3>2. j - 1 \in 1 .. n /\ j - 1 > k /\ t[j] = s[j - 1]
      BY <2>2, <3>1
    <3> QED
      BY <2>4, <3>2
  <2>5. CASE i > k + 1 /\ i - 1 \in 1 .. n /\ i - 1 > k /\ t[i] = s[i - 1]
    <3>1. j > k + 1 /\ i - 1 < j - 1
      BY <1>6, <2>5
    <3>2. j - 1 \in 1 .. n /\ j - 1 > k /\ t[j] = s[j - 1]
      BY <2>2, <3>1
    <3> QED
      BY <1>1, <2>5, <3>1, <3>2
  <2> QED
    BY <2>1, <2>3, <2>4, <2>5
<1>7. InOrderOf(t, R \cup {x}, n + 1)
  BY <1>2, <1>4, <1>5, <1>6 DEF InOrderOf
<1> QED
  BY <1>7 DEF t

\* The listing of the rows q.
Ordering(q) ==
    CHOOSE t \in [1 .. Len(q) -> SetOf(q)] :
        /\ T!DB!ToSet(t) = SetOf(q)
        /\ \A i, j \in DOMAIN t : i < j => T!DB!Before(t[i], t[j])

LEMMA OrderingIs ==
    ASSUME NEW q \in Seq(Entry), NEW s, InOrderOf(s, SetOf(q), Len(q))
    PROVE  Ordering(q) = s /\ InOrderOf(Ordering(q), SetOf(q), Len(q))
<1>1. \A t \in [1 .. Len(q) -> SetOf(q)] : T!DB!ToSet(t) = {t[i] : i \in DOMAIN t}
  BY DEF T!DB!ToSet
<1>2. InOrderOf(Ordering(q), SetOf(q), Len(q))
  <2> DEFINE S == [1 .. Len(q) -> SetOf(q)]
             P(t) == /\ T!DB!ToSet(t) = SetOf(q)
                     /\ \A i, j \in DOMAIN t : i < j => T!DB!Before(t[i], t[j])
             L == CHOOSE t \in S : P(t)
  <2>1. s \in S /\ P(s)
    BY <1>1 DEF InOrderOf
  <2>2. Ordering(q) = L
    BY DEF Ordering
  <2>3. L \in S /\ P(L)
    <3> HIDE DEF S, P
    <3> QED
      BY <2>1
  <2> HIDE DEF L
  <2>4. InOrderOf(L, SetOf(q), Len(q))
    BY <1>1, <2>3 DEF InOrderOf
  <2> QED
    BY <2>2, <2>4
<1>3. SetOf(q) \subseteq Entry /\ Len(q) \in Nat
  BY DEF SetOf
<1> QED
  BY <1>2, <1>3, OneOrder

LEMMA ListingIs == T!DB!Listing = Ordering(rows) /\ T!DB!Listing' = Ordering(rows')
BY DEF T!DB!Listing, Ordering, T!DB!ToSet, SetOf, T!DB!Before

-----------------------------------------------------------------------------
(* The table: ids never meet, so the listing is the one ordered listing.   *)

TableTyped ==
    /\ rows \in Seq(Entry) /\ ids \in Nat
    /\ dbStep \in [Client -> {"ready", "insert", "commit", "query", "scan"}]
    /\ dbRecord \in [Client -> T!DB!EvidenceRecord \cup {None}]
    /\ insert \in [Client -> Entry \cup {None}]
    /\ fetched = [c \in Client |-> fetched[c]]
    /\ dbHistory = [c \in Client |-> dbHistory[c]]
    /\ dbEnded = [c \in Client |-> dbEnded[c]]

\* A statement under way has its record, and a row once it has an id.
Underway ==
    \A c \in Client :
        /\ dbStep[c] \in {"insert", "commit"} => dbRecord[c] \in T!DB!EvidenceRecord
        /\ dbStep[c] = "commit" => insert[c] \in Entry /\ insert[c].rec = dbRecord[c]

\* Every id was taken once.
IdsApart ==
    /\ \A i \in DOMAIN rows : rows[i].id < ids
    /\ \A c \in Client : dbStep[c] = "commit" =>
          /\ insert[c].id < ids
          /\ \A i \in DOMAIN rows : rows[i].id # insert[c].id
          /\ \A d \in Client \ {c} : dbStep[d] = "commit" => insert[d].id # insert[c].id

InOneOrder == InOrderOf(Ordering(rows), SetOf(rows), Len(rows))

TableInv == TableTyped /\ Underway /\ IdsApart /\ InOneOrder

LEMMA TableInit == T!DB!Init => TableInv
<1> SUFFICES ASSUME T!DB!Init PROVE TableInv
  OBVIOUS
<1>1. TableTyped /\ Underway /\ IdsApart
  BY DEF T!DB!Init, TableTyped, Underway, IdsApart
<1>2. InOneOrder
  <2>1. rows = <<>> /\ <<>> \in Seq(Entry) /\ Len(<<>>) = 0 /\ DOMAIN <<>> = {}
    BY DEF T!DB!Init
  <2>2. SetOf(rows) = {}
    BY <2>1 DEF SetOf
  <2>3. InOrderOf(<<>>, {}, 0)
    BY <2>1 DEF InOrderOf
  <2> QED
    BY <2>1, <2>2, <2>3, OrderingIs DEF InOneOrder
<1> QED
  BY <1>1, <1>2 DEF TableInv

\* What the steps that commit nothing do.
LEMMA UncommittedKeeps ==
    ASSUME TableInv, UNCHANGED rows PROVE InOneOrder'
BY DEF TableInv, InOneOrder

LEMMA TableAppendNext ==
    ASSUME TableInv, NEW c \in Client, NEW s \in Scores, T!DB!Append1(c, s)
    PROVE  TableInv'
<1>1. PICK t \in 1 .. MaxTime :
         dbRecord' = [dbRecord EXCEPT ![c] = [stamp |-> t, score |-> s]]
  BY DEF T!DB!Append1
<1>2. [stamp |-> t, score |-> s] \in T!DB!EvidenceRecord
  BY DEF T!DB!EvidenceRecord
<1>3. UNCHANGED <<rows, ids, insert, fetched, dbHistory>>
      /\ dbStep' = [dbStep EXCEPT ![c] = "insert"]
  BY DEF T!DB!Append1, T!DB!Call
<1>4. TableTyped' /\ Underway'
  <2>1. dbEnded' = [d \in Client |-> dbEnded'[d]]
    BY DEF T!DB!Append1, T!DB!Call, TableInv, TableTyped
  <2> QED
    BY <1>1, <1>2, <1>3, <2>1 DEF TableInv, TableTyped, Underway
<1>5. IdsApart'
  BY <1>3 DEF TableInv, TableTyped, IdsApart
<1> QED
  BY <1>3, <1>4, <1>5, UncommittedKeeps DEF TableInv

LEMMA TableInsertNext ==
    ASSUME TableInv, NEW c \in Client, T!DB!Insert(c)
    PROVE  TableInv'
<1>1. /\ UNCHANGED <<rows, dbRecord, fetched, dbHistory, dbEnded>>
      /\ dbStep[c] = "insert" /\ dbStep' = [dbStep EXCEPT ![c] = "commit"]
      /\ insert' = [insert EXCEPT ![c] = [id |-> ids, rec |-> dbRecord[c]]]
      /\ ids' = ids + 1
  BY DEF T!DB!Insert, T!DB!Goto
<1> DEFINE x == [id |-> ids, rec |-> dbRecord[c]]
<1>2. x \in Entry /\ x.id = ids /\ x.rec = dbRecord[c]
  BY <1>1 DEF TableInv, TableTyped, Underway, Entry
<1> HIDE DEF x
<1>3. insert' = [insert EXCEPT ![c] = x]
  BY <1>1 DEF x
<1>4. TableTyped' /\ Underway'
  BY <1>1, <1>2, <1>3 DEF TableInv, TableTyped, Underway
<1>5. IdsApart'
  <2>1. /\ \A i \in DOMAIN rows : rows[i].id \in Nat /\ rows[i].id < ids
        /\ \A d \in Client : dbStep[d] = "commit" => insert[d].id \in Nat /\ insert[d].id < ids
        /\ ids \in Nat
    <3>1. \A y \in Entry : y.id \in Nat
      BY DEF Entry
    <3> QED
      BY <3>1 DEF TableInv, TableTyped, Underway, IdsApart
  <2>2. /\ dbStep'[c] = "commit" /\ insert'[c] = x
        /\ \A d \in Client \ {c} : dbStep'[d] = dbStep[d] /\ insert'[d] = insert[d]
    BY <1>1, <1>3 DEF TableInv, TableTyped
  <2>3. \A i \in DOMAIN rows' : rows'[i].id < ids'
    BY <1>1, <2>1
  <2>4. ASSUME NEW d \in Client, dbStep'[d] = "commit"
        PROVE  /\ insert'[d].id < ids'
               /\ \A i \in DOMAIN rows' : rows'[i].id # insert'[d].id
               /\ \A e \in Client \ {d} :
                     dbStep'[e] = "commit" => insert'[e].id # insert'[d].id
    <3>1. CASE d = c
      <4>1. \A e \in Client \ {c} : dbStep'[e] = "commit" => insert'[e].id # ids
        BY <2>1, <2>2
      <4> QED
        BY <1>1, <1>2, <2>1, <2>2, <3>1, <4>1
    <3>2. CASE d # c
      <4>1. dbStep[d] = "commit" /\ insert'[d] = insert[d]
        BY <2>2, <2>4, <3>2
      <4>2. insert'[d].id < ids' /\ insert'[d].id # ids
        BY <1>1, <2>1, <4>1
      <4>3. \A i \in DOMAIN rows' : rows'[i].id # insert'[d].id
        BY <1>1, <4>1 DEF TableInv, IdsApart
      <4>4. \A e \in Client \ {d} : dbStep'[e] = "commit" => insert'[e].id # insert'[d].id
        BY <1>2, <2>2, <4>1, <4>2 DEF TableInv, IdsApart
      <4> QED
        BY <4>2, <4>3, <4>4
    <3> QED
      BY <3>1, <3>2
  <2> QED
    BY <2>3, <2>4 DEF IdsApart
<1> QED
  BY <1>1, <1>4, <1>5, UncommittedKeeps DEF TableInv

LEMMA RowsGrow ==
    ASSUME NEW q \in Seq(Entry), NEW x \in Entry
    PROVE  /\ Append(q, x) \in Seq(Entry) /\ Len(Append(q, x)) = Len(q) + 1
           /\ DOMAIN Append(q, x) = DOMAIN q \cup {Len(q) + 1}
           /\ \A i \in DOMAIN q : Append(q, x)[i] = q[i]
           /\ Append(q, x)[Len(q) + 1] = x
           /\ SetOf(Append(q, x)) = SetOf(q) \cup {x}
           /\ SetOf(q) \subseteq Entry
<1>1. /\ Append(q, x) \in Seq(Entry) /\ Len(Append(q, x)) = Len(q) + 1
      /\ DOMAIN Append(q, x) = DOMAIN q \cup {Len(q) + 1}
      /\ \A i \in DOMAIN q : Append(q, x)[i] = q[i]
      /\ Append(q, x)[Len(q) + 1] = x
  OBVIOUS
<1>2. SetOf(q) \subseteq Entry
  BY DEF SetOf
<1>3. SetOf(Append(q, x)) = SetOf(q) \cup {x}
  BY <1>1 DEF SetOf
<1> QED
  BY <1>1, <1>2, <1>3

\* Where a committed row comes to stand in the listing.
LEMMA RowCommitted ==
    ASSUME TableInv, NEW x \in Entry, \A i \in DOMAIN rows : rows[i].id # x.id,
           rows' = Append(rows, x)
    PROVE  LET s == Ordering(rows)
           IN  /\ InOrderOf(s, SetOf(rows), Len(rows)) /\ SetOf(rows) \subseteq Entry
               /\ InOneOrder'
               /\ \E k \in 0 .. Len(rows) :
                     /\ \A i \in 1 .. Len(rows) : i <= k => T!DB!Before(s[i], x)
                     /\ \A i \in 1 .. Len(rows) : i > k => T!DB!Before(x, s[i])
                     /\ Ordering(rows') = With(s, Len(rows), k, x)
<1> DEFINE s == Ordering(rows)
<1>1. InOrderOf(s, SetOf(rows), Len(rows))
  BY DEF TableInv, InOneOrder
<1> HIDE DEF s
<1>2. rows \in Seq(Entry) /\ Len(rows) \in Nat /\ SetOf(rows) \subseteq Entry
  BY RowsGrow DEF TableInv, TableTyped
<1>3. \A y \in SetOf(rows) : y.id # x.id
  BY DEF SetOf
<1>4. PICK k \in 0 .. Len(rows) :
         /\ \A i \in 1 .. Len(rows) : i <= k => T!DB!Before(s[i], x)
         /\ \A i \in 1 .. Len(rows) : i > k => T!DB!Before(x, s[i])
  BY <1>1, <1>2, <1>3, PlaceOf
<1>5. InOrderOf(With(s, Len(rows), k, x), SetOf(rows) \cup {x}, Len(rows) + 1)
  BY <1>1, <1>2, <1>4, OrderWith
<1>6. rows' \in Seq(Entry) /\ SetOf(rows') = SetOf(rows) \cup {x} /\ Len(rows') = Len(rows) + 1
  BY <1>2, RowsGrow
<1>7. /\ Ordering(rows') = With(s, Len(rows), k, x)
      /\ InOrderOf(Ordering(rows'), SetOf(rows'), Len(rows'))
  BY <1>5, <1>6, OrderingIs
<1>8. InOneOrder'
  BY <1>7 DEF InOneOrder
<1> QED
  BY <1>1, <1>2, <1>4, <1>7, <1>8 DEF s

LEMMA TableReturnKeeps ==
    ASSUME TableInv, NEW c \in Client, NEW o, T!DB!Return(c, o),
           UNCHANGED <<rows, ids>>, dbHistory' = [d \in Client |-> dbHistory'[d]]
    PROVE  TableInv'
<1>1. TableTyped' /\ Underway'
  BY DEF TableInv, TableTyped, Underway, T!DB!Return
<1>2. /\ dbStep'[c] = "ready"
      /\ \A d \in Client \ {c} : dbStep'[d] = dbStep[d] /\ insert'[d] = insert[d]
  BY DEF TableInv, TableTyped, T!DB!Return
<1>3. IdsApart'
  BY <1>2 DEF TableInv, IdsApart
<1> QED
  BY <1>1, <1>3, UncommittedKeeps DEF TableInv

LEMMA TableCommitNext ==
    ASSUME TableInv, NEW c \in Client, T!DB!Commit(c)
    PROVE  TableInv'
<1>1. PICK o \in {"ok", "failed"} : T!DB!Return(c, o)
  BY DEF T!DB!Commit
<1>2. dbStep[c] = "commit" /\ rows' = Append(rows, insert[c]) /\ UNCHANGED <<ids, dbHistory>>
  BY DEF T!DB!Commit
<1> DEFINE x == insert[c]
<1>3. /\ x \in Entry /\ x.id < ids /\ \A i \in DOMAIN rows : rows[i].id # x.id
      /\ \A d \in Client \ {c} : dbStep[d] = "commit" => insert[d].id # x.id
  BY <1>2 DEF TableInv, Underway, IdsApart
<1>4. rows' = Append(rows, x)
  BY <1>2
<1>5. /\ dbStep'[c] = "ready"
      /\ \A d \in Client \ {c} : dbStep'[d] = dbStep[d] /\ insert'[d] = insert[d]
  BY <1>1 DEF TableInv, TableTyped, T!DB!Return
<1> HIDE DEF x
<1>6. rows \in Seq(Entry)
  BY DEF TableInv, TableTyped
<1>7. TableTyped' /\ Underway'
  <2>1. rows' \in Seq(Entry)
    BY <1>3, <1>4, <1>6, RowsGrow
  <2> QED
    BY <1>1, <1>2, <2>1 DEF TableInv, TableTyped, Underway, T!DB!Return
<1>8. IdsApart'
  <2>1. \A i \in DOMAIN rows' : rows'[i] = x \/ \E j \in DOMAIN rows : rows'[i] = rows[j]
    BY <1>3, <1>4, <1>6, RowsGrow
  <2>2. \A i \in DOMAIN rows' : rows'[i].id < ids'
    BY <1>2, <1>3, <2>1 DEF TableInv, IdsApart
  <2>3. ASSUME NEW d \in Client, dbStep'[d] = "commit"
        PROVE  /\ insert'[d].id < ids'
               /\ \A i \in DOMAIN rows' : rows'[i].id # insert'[d].id
               /\ \A e \in Client \ {d} :
                     dbStep'[e] = "commit" => insert'[e].id # insert'[d].id
    <3>1. d # c /\ dbStep[d] = "commit" /\ insert'[d] = insert[d]
      BY <1>5, <2>3
    <3>2. \A i \in DOMAIN rows' : rows'[i].id # insert[d].id
      BY <1>3, <2>1, <3>1 DEF TableInv, IdsApart
    <3>3. \A e \in Client \ {d} : dbStep'[e] = "commit" => insert'[e].id # insert[d].id
      BY <1>5, <3>1 DEF TableInv, IdsApart
    <3> QED
      BY <1>2, <3>1, <3>2, <3>3 DEF TableInv, IdsApart
  <2> QED
    BY <2>2, <2>3 DEF IdsApart
<1>9. InOneOrder'
  BY <1>3, <1>4, RowCommitted
<1> QED
  BY <1>7, <1>8, <1>9 DEF TableInv

LEMMA TableReadNext ==
    ASSUME TableInv, NEW c \in Client, T!DB!Trend(c) \/ T!DB!Query(c)
    PROVE  TableInv'
<1>1. /\ UNCHANGED <<rows, ids, dbRecord, insert, dbHistory>>
      /\ fetched' = [d \in Client |-> fetched'[d]]
      /\ dbStep[c] \in {"ready", "query"}
      /\ \E l \in {"query", "scan"} : dbStep' = [dbStep EXCEPT ![c] = l]
  BY DEF T!DB!Trend, T!DB!Query, T!DB!Goto, T!DB!Call, TableInv, TableTyped
<1>2. TableTyped' /\ Underway'
  <2>1. dbEnded' = [d \in Client |-> dbEnded'[d]]
    BY DEF T!DB!Trend, T!DB!Query, T!DB!Goto, T!DB!Call, TableInv, TableTyped
  <2> QED
    <3>1. TableTyped /\ Underway
      BY DEF TableInv
    <3>2. PICK l \in {"query", "scan"} : dbStep' = [dbStep EXCEPT ![c] = l]
      BY <1>1
    <3>3. TableTyped'
      BY <1>1, <2>1, <3>1, <3>2 DEF TableTyped
    <3>4. \A d \in Client : dbStep'[d] \in {"insert", "commit"} => dbStep'[d] = dbStep[d]
      BY <3>1, <3>2 DEF TableTyped
    <3>5. Underway'
      BY <1>1, <3>1, <3>4 DEF Underway
    <3> QED
      BY <3>3, <3>5
<1>3. IdsApart'
  BY <1>1 DEF TableInv, TableTyped, IdsApart
<1> QED
  BY <1>1, <1>2, <1>3, UncommittedKeeps DEF TableInv

LEMMA TableEndNext ==
    ASSUME TableInv, NEW c \in Client, T!DB!Scan(c) \/ T!DB!Fail(c)
    PROVE  TableInv'
<1>1. /\ UNCHANGED <<rows, ids>> /\ dbHistory' = [d \in Client |-> dbHistory'[d]]
      /\ \E o : T!DB!Return(c, o)
  BY DEF T!DB!Scan, T!DB!Fail, TableInv, TableTyped
<1> QED
  BY <1>1, TableReturnKeeps

LEMMA TableNext == TableInv /\ [T!TrailsNext]_(T!trailsVars) => TableInv'
<1> SUFFICES ASSUME TableInv, [T!TrailsNext]_(T!trailsVars) PROVE TableInv'
  OBVIOUS
<1>1. CASE T!DB!Next
  <2>1. PICK c \in Client : T!DB!Step(c)
    BY <1>1 DEF T!DB!Next
  <2> QED
    BY <2>1, TableAppendNext, TableInsertNext, TableCommitNext, TableReadNext, TableEndNext
       DEF T!DB!Step
<1>2. CASE UNCHANGED T!postgres
  BY <1>2 DEF T!postgres, TableInv, TableTyped, Underway, IdsApart, InOneOrder
<1> QED
  BY <1>1, <1>2 DEF T!TrailsNext, T!trailsVars

LEMMA TableInvariance == T!TrailsSpec => []TableInv
<1>1. T!TrailsInit => TableInv
  BY TableInit DEF T!TrailsInit
<1> QED
  BY <1>1, TableNext, PTL DEF T!TrailsSpec

-----------------------------------------------------------------------------
(* The table is a log by time (EvidenceTrail).                             *)

TableCalls == [d \in Client |-> T!DB!CallOf(d)]
TableGots  == [d \in Client |-> IF dbStep[d] = "scan" THEN fetched[d] ELSE dbHistory[d]]
TableLog   == T!DB!Records(T!DB!Listing)

RecordsOf(s) == [i \in DOMAIN s |-> s[i].rec]

LEMMA TableLogIs ==
    /\ TableLog = RecordsOf(Ordering(rows))
    /\ TableLog' = RecordsOf(Ordering(rows'))
<1>1. TableLog = T!DB!Records(Ordering(rows)) /\ TableLog' = T!DB!Records(Ordering(rows'))
  BY ListingIs DEF TableLog, T!DB!Records
<1> QED
  BY <1>1 DEF T!DB!Records, RecordsOf

LEMMA TableCallNames ==
    ASSUME NEW d \in Client
    PROVE  /\ dbStep[d] = "ready" => TableCalls[d] = "ready"
           /\ dbStep[d] = "query" => TableCalls[d] = "reading"
           /\ dbStep[d] = "scan" => TableCalls[d] = "observed"
           /\ dbStep[d] \in {"insert", "commit"} => TableCalls[d] = "appending"
BY DEF TableCalls, T!DB!CallOf

\* A step changes its own client's call, and what only it observes.
LEMMA TableStepSets ==
    ASSUME TableInv, NEW c \in Client, NEW l \in {"ready", "insert", "commit", "query", "scan"},
           dbStep' = [dbStep EXCEPT ![c] = l],
           \A d \in Client \ {c} : fetched'[d] = fetched[d] /\ dbHistory'[d] = dbHistory[d]
    PROVE  /\ l = "ready" => TableCalls' = [TableCalls EXCEPT ![c] = "ready"]
           /\ l = "query" => TableCalls' = [TableCalls EXCEPT ![c] = "reading"]
           /\ l = "scan" => TableCalls' = [TableCalls EXCEPT ![c] = "observed"]
           /\ l \in {"insert", "commit"} => TableCalls' = [TableCalls EXCEPT ![c] = "appending"]
           /\ TableGots' = [TableGots EXCEPT ![c] =
                               IF l = "scan" THEN fetched'[c] ELSE dbHistory'[c]]
<1>1. dbStep'[c] = l /\ \A d \in Client \ {c} : dbStep'[d] = dbStep[d]
  BY DEF TableInv, TableTyped
<1>2. TableCalls' = [d \in Client |-> T!DB!CallOf(d)']
  BY DEF TableCalls
<1>3. \A d \in Client \ {c} : T!DB!CallOf(d)' = T!DB!CallOf(d)
  BY <1>1 DEF T!DB!CallOf
<1>4. /\ l = "ready" => T!DB!CallOf(c)' = "ready"
      /\ l = "query" => T!DB!CallOf(c)' = "reading"
      /\ l = "scan" => T!DB!CallOf(c)' = "observed"
      /\ l \in {"insert", "commit"} => T!DB!CallOf(c)' = "appending"
  BY <1>1 DEF T!DB!CallOf
<1>5. TableGots' = [TableGots EXCEPT ![c] = IF l = "scan" THEN fetched'[c] ELSE dbHistory'[c]]
  <2>1. TableGots' = [d \in Client |-> IF dbStep'[d] = "scan" THEN fetched'[d] ELSE dbHistory'[d]]
    BY DEF TableGots
  <2> QED
    BY <1>1, <2>1 DEF TableGots
<1> QED
  BY <1>2, <1>3, <1>4, <1>5 DEF TableCalls

LEMMA TableInitLog == T!DB!Init => T!DB!Trail!Init
<1> SUFFICES ASSUME T!DB!Init PROVE T!DB!Trail!Init
  OBVIOUS
<1>1. TableLog = <<>>
  <2>1. rows = <<>> /\ <<>> \in Seq(Entry) /\ Len(<<>>) = 0 /\ DOMAIN <<>> = {}
    BY DEF T!DB!Init
  <2>2. SetOf(rows) = {}
    BY <2>1 DEF SetOf
  <2>3. InOrderOf(<<>>, {}, 0)
    BY <2>1 DEF InOrderOf
  <2>4. Ordering(rows) = <<>>
    BY <2>1, <2>2, <2>3, OrderingIs
  <2>5. RecordsOf(<<>>) = <<>>
    BY DEF RecordsOf
  <2> QED
    BY <2>4, <2>5, TableLogIs
<1>2. TableCalls = [c \in Client |-> "ready"]
  BY DEF T!DB!Init, TableCalls, T!DB!CallOf
<1>3. TableGots = [c \in Client |-> None]
  BY DEF T!DB!Init, TableGots
<1> QED
  BY <1>1, <1>2, <1>3 DEF T!DB!Init, T!DB!Trail!Init, TableCalls, TableGots, TableLog

LEMMA TableAppendSimulates ==
    ASSUME TableInv, NEW c \in Client, NEW s \in Scores, T!DB!Append1(c, s)
    PROVE  T!DB!Trail!Next
<1>1. PICK t \in 1 .. MaxTime :
         dbRecord' = [dbRecord EXCEPT ![c] = [stamp |-> t, score |-> s]]
  BY DEF T!DB!Append1
<1> DEFINE r == [stamp |-> t, score |-> s]
<1>2. r \in T!DB!Trail!EvidenceRecord
  BY DEF T!DB!Trail!EvidenceRecord
<1>3. UNCHANGED <<rows, fetched, dbHistory>> /\ dbStep[c] = "ready"
      /\ T!DB!Call(c, "insert")
  BY DEF T!DB!Append1
<1> HIDE DEF r
<1>4. dbRecord' = [dbRecord EXCEPT ![c] = r]
  BY <1>1 DEF r
<1>5. TableCalls[c] = "ready" /\ TableCalls' = [TableCalls EXCEPT ![c] = "appending"]
  BY <1>3, TableCallNames, TableStepSets DEF T!DB!Call
<1>6. UNCHANGED TableGots /\ UNCHANGED TableLog
  BY <1>3, TableLogIs DEF T!DB!Call, TableGots, TableInv, TableTyped
<1>7. T!DB!Trail!Append1(c, r)
  BY <1>3, <1>4, <1>5, <1>6
     DEF T!DB!Trail!Append1, T!DB!Trail!Begin, T!DB!Call, TableCalls, TableGots, TableLog
<1> QED
  BY <1>2, <1>7 DEF T!DB!Trail!Next

LEMMA TableInsertSimulates ==
    ASSUME TableInv, NEW c \in Client, T!DB!Insert(c)
    PROVE  UNCHANGED T!DB!Trail!vars
<1>1. UNCHANGED <<rows, dbRecord, fetched, dbHistory, dbEnded>> /\ dbStep[c] = "insert"
      /\ dbStep' = [dbStep EXCEPT ![c] = "commit"]
  BY DEF T!DB!Insert, T!DB!Goto
<1>2. TableCalls[c] = "appending" /\ TableCalls' = [TableCalls EXCEPT ![c] = "appending"]
  BY <1>1, TableCallNames, TableStepSets
<1>3. UNCHANGED TableCalls
  BY <1>2 DEF TableCalls
<1>4. UNCHANGED TableGots /\ UNCHANGED TableLog
  BY <1>1, TableLogIs DEF TableGots, TableInv, TableTyped
<1> QED
  BY <1>1, <1>3, <1>4 DEF T!DB!Trail!vars, TableCalls, TableGots, TableLog

LEMMA Joined ==
    ASSUME NEW S, NEW a \in Seq(S), NEW b \in Seq(S)
    PROVE  a \o b \in Seq(S) /\ Len(a \o b) = Len(a) + Len(b)
OBVIOUS

\* The list l with y put in after its first k elements.
Spliced(l, k, y) == SubSeq(l, 1, k) \o <<y>> \o SubSeq(l, k + 1, Len(l))

\* t reads as l does up to place k, has y at the next one, and the rest of l after it.
ReadsSpliced(t, l, k, y) ==
    /\ Len(t) = Len(l) + 1
    /\ \A i \in 1 .. Len(l) + 1 :
          t[i] = IF i <= k THEN l[i] ELSE IF i = k + 1 THEN y ELSE l[i - 1]

LEMMA Inserted ==
    ASSUME NEW S, NEW l \in Seq(S), NEW y \in S, NEW k \in 0 .. Len(l)
    PROVE  Spliced(l, k, y) \in Seq(S) /\ ReadsSpliced(Spliced(l, k, y), l, k, y)
<1> DEFINE a == SubSeq(l, 1, k)
           b == SubSeq(l, k + 1, Len(l))
<1>1. a \in Seq(S) /\ Len(a) = k /\ \A i \in 1 .. k : a[i] = l[i]
  OBVIOUS
<1>2. b \in Seq(S) /\ Len(b) = Len(l) - k /\ \A i \in 1 .. Len(l) - k : b[i] = l[k + i]
  OBVIOUS
<1> HIDE DEF a, b
<1> DEFINE t == a \o <<y>> \o b
<1>3. t \in Seq(S) /\ Len(t) = Len(l) + 1
  <2> DEFINE u == a \o <<y>>
  <2>1. u \in Seq(S) /\ Len(u) = k + 1
    BY <1>1
  <2>2. t = u \o b
    OBVIOUS
  <2> HIDE DEF u, t
  <2>3. t \in Seq(S) /\ Len(t) = Len(u) + Len(b)
    BY <1>2, <2>1, <2>2, Joined
  <2>4. (k + 1) + (Len(l) - k) = Len(l) + 1
    OBVIOUS
  <2> QED
    BY <1>2, <2>1, <2>3, <2>4
<1>4. ASSUME NEW i \in 1 .. Len(l) + 1
      PROVE  t[i] = IF i <= k THEN l[i] ELSE IF i = k + 1 THEN y ELSE l[i - 1]
  <2> DEFINE u == a \o <<y>>
  <2>1. u \in Seq(S) /\ Len(u) = k + 1 /\ u[k + 1] = y /\ \A j \in 1 .. k : u[j] = l[j]
    BY <1>1
  <2>2. t = u \o b
    OBVIOUS
  <2> HIDE DEF u, t
  <2>3. CASE i <= k + 1
    BY <1>2, <2>1, <2>2, <2>3
  <2>4. CASE i > k + 1
    <3>1. i - (k + 1) \in 1 .. Len(l) - k /\ k + (i - (k + 1)) = i - 1 /\ ~(i <= k)
      BY <2>4
    <3>2. t[i] = b[i - (k + 1)]
      BY <1>2, <2>1, <2>2, <2>4
    <3> QED
      BY <1>2, <2>4, <3>1, <3>2
  <2> QED
    BY <2>3, <2>4
<1>5. t = Spliced(l, k, y)
  BY DEF a, b, Spliced
<1> HIDE DEF t
<1>6. ReadsSpliced(t, l, k, y)
  BY <1>3, <1>4 DEF ReadsSpliced
<1> QED
  BY <1>3, <1>5, <1>6

LEMMA RecordsOfType ==
    ASSUME NEW n \in Nat, NEW s \in [1 .. n -> Entry]
    PROVE  /\ RecordsOf(s) \in Seq(T!DB!EvidenceRecord) /\ Len(RecordsOf(s)) = n
           /\ \A i \in 1 .. n : RecordsOf(s)[i] = s[i].rec
<1>1. RecordsOf(s) = [i \in 1 .. n |-> s[i].rec]
  BY DEF RecordsOf
<1>2. \A i \in 1 .. n : s[i].rec \in T!DB!EvidenceRecord
  BY DEF Entry
<1> QED
  BY <1>1, <1>2

LEMMA RecordsWith ==
    ASSUME NEW n \in Nat, NEW s \in [1 .. n -> Entry], NEW x \in Entry, NEW k \in 0 .. n
    PROVE  LET l == RecordsOf(s)
           IN  RecordsOf(With(s, n, k, x)) =
                  SubSeq(l, 1, k) \o <<x.rec>> \o SubSeq(l, k + 1, Len(l))
<1> DEFINE l == RecordsOf(s)
           w == With(s, n, k, x)
           t == Spliced(l, k, x.rec)
<1>1. l \in Seq(T!DB!EvidenceRecord) /\ Len(l) = n /\ \A i \in 1 .. n : l[i] = s[i].rec
  BY RecordsOfType
<1>2. \A i \in 1 .. n + 1 : w[i] = IF i <= k THEN s[i] ELSE IF i = k + 1 THEN x ELSE s[i - 1]
  BY DEF With
<1>3. w \in [1 .. n + 1 -> Entry]
  <2>1. \A i \in 1 .. n + 1 : w[i] \in Entry
    BY <1>2
  <2> QED
    BY <2>1 DEF With
<1>4. x.rec \in T!DB!EvidenceRecord /\ n + 1 \in Nat
  BY DEF Entry
<1> HIDE DEF w
<1>5. /\ RecordsOf(w) \in Seq(T!DB!EvidenceRecord) /\ Len(RecordsOf(w)) = n + 1
      /\ \A i \in 1 .. n + 1 : RecordsOf(w)[i] = w[i].rec
  BY <1>3, <1>4, RecordsOfType
<1> HIDE DEF l
<1>6. /\ t \in Seq(T!DB!EvidenceRecord) /\ Len(t) = n + 1
      /\ \A i \in 1 .. n + 1 :
            t[i] = IF i <= k THEN l[i] ELSE IF i = k + 1 THEN x.rec ELSE l[i - 1]
  <2>1. k \in 0 .. Len(l)
    BY <1>1
  <2>2. l \in Seq(T!DB!EvidenceRecord) /\ x.rec \in T!DB!EvidenceRecord
    BY <1>1, <1>4
  <2>3. t \in Seq(T!DB!EvidenceRecord) /\ ReadsSpliced(t, l, k, x.rec)
    BY <2>1, <2>2, Inserted
  <2> HIDE DEF t
  <2> QED
    BY <1>1, <2>3 DEF ReadsSpliced
<1> HIDE DEF t
<1>7. \A i \in 1 .. n + 1 : RecordsOf(w)[i] = t[i]
  <2> SUFFICES ASSUME NEW i \in 1 .. n + 1 PROVE RecordsOf(w)[i] = t[i]
    OBVIOUS
  <2>1. i <= k \/ i = k + 1 \/ (i > k + 1 /\ i - 1 \in 1 .. n)
    OBVIOUS
  <2> QED
    BY <1>1, <1>2, <1>5, <1>6, <2>1
<1>8. RecordsOf(w) = t
  BY <1>4, <1>5, <1>6, <1>7, SameSequence
<1> QED
  BY <1>8 DEF w, t, l, Spliced

\* The answer of a commit comes with it or is lost: no caller learns more.
LEMMA TableCommitSimulates ==
    ASSUME TableInv, NEW c \in Client, T!DB!Commit(c)
    PROVE  T!DB!Trail!Next
<1> DEFINE x == insert[c]
<1>1. /\ dbStep[c] = "commit" /\ rows' = Append(rows, x) /\ UNCHANGED dbHistory
      /\ x \in Entry /\ x.rec = dbRecord[c] /\ \A i \in DOMAIN rows : rows[i].id # x.id
  BY DEF T!DB!Commit, TableInv, Underway, IdsApart
<1>2. PICK o \in {"ok", "failed"} : T!DB!Return(c, o)
  BY DEF T!DB!Commit
<1> HIDE DEF x
<1> DEFINE s == Ordering(rows)
           n == Len(rows)
           l == RecordsOf(s)
<1>3. InOrderOf(s, SetOf(rows), n) /\ SetOf(rows) \subseteq Entry
  BY <1>1, RowCommitted
<1>4. PICK k \in 0 .. n :
         /\ \A i \in 1 .. n : i <= k => T!DB!Before(s[i], x)
         /\ \A i \in 1 .. n : i > k => T!DB!Before(x, s[i])
         /\ Ordering(rows') = With(s, n, k, x)
  BY <1>1, RowCommitted
<1>5. n \in Nat
  BY DEF TableInv, TableTyped
<1> HIDE DEF n, s
<1>6. s \in [1 .. n -> Entry]
  BY <1>3 DEF InOrderOf
<1>7. l \in Seq(T!DB!EvidenceRecord) /\ Len(l) = n /\ \A i \in 1 .. n : l[i] = s[i].rec
  BY <1>5, <1>6, RecordsOfType
<1>8. TableLog' = SubSeq(l, 1, k) \o <<x.rec>> \o SubSeq(l, k + 1, Len(l)) /\ TableLog = l
  <2>1. TableLog = RecordsOf(s) /\ TableLog' = RecordsOf(With(s, n, k, x))
    BY <1>4, TableLogIs DEF s
  <2> QED
    BY <1>1, <1>5, <1>6, <2>1, RecordsWith
<1> HIDE DEF l
<1>9. /\ \A i \in 1 .. k : l[i].stamp <= x.rec.stamp
      /\ \A i \in k + 1 .. n : x.rec.stamp <= l[i].stamp
  <2>1. \A y \in Entry : y.rec.stamp \in Nat
    BY DEF Entry, T!DB!EvidenceRecord
  <2>2. \A y, z \in Entry : T!DB!Before(y, z) => y.rec.stamp <= z.rec.stamp
    BY <2>1 DEF T!DB!Before
  <2>3. \A i \in 1 .. n : s[i] \in Entry
    BY <1>6
  <2>4. ASSUME NEW i \in 1 .. k PROVE l[i].stamp <= x.rec.stamp
    <3>1. i \in 1 .. n /\ i <= k
      BY <1>5
    <3> QED
      BY <1>1, <1>4, <1>7, <2>2, <2>3, <3>1
  <2>5. ASSUME NEW i \in k + 1 .. n PROVE x.rec.stamp <= l[i].stamp
    <3>1. i \in 1 .. n /\ i > k
      BY <1>5
    <3> QED
      BY <1>1, <1>4, <1>7, <2>2, <2>3, <3>1
  <2> QED
    BY <2>4, <2>5
<1>10. T!DB!Trail!Place(dbRecord[c])
  BY <1>1, <1>7, <1>8, <1>9 DEF T!DB!Trail!Place, TableLog
<1>11. TableCalls[c] = "appending" /\ TableCalls' = [TableCalls EXCEPT ![c] = "ready"]
  <2>1. /\ dbStep' = [dbStep EXCEPT ![c] = "ready"]
        /\ \A d \in Client \ {c} : fetched'[d] = fetched[d] /\ dbHistory'[d] = dbHistory[d]
    BY <1>1, <1>2 DEF T!DB!Return, TableInv, TableTyped
  <2> QED
    BY <1>1, <2>1, TableCallNames, TableStepSets
<1>12. UNCHANGED TableGots
  BY <1>1, <1>2 DEF T!DB!Return, TableGots, TableInv, TableTyped
<1>13. T!DB!Trail!Return(c, o)
  BY <1>2, <1>11 DEF T!DB!Trail!Return, T!DB!Return, TableCalls
<1>14. T!DB!Trail!Commit(c)
  BY <1>10, <1>11, <1>12, <1>13 DEF T!DB!Trail!Commit, TableCalls, TableGots
<1> QED
  BY <1>14 DEF T!DB!Trail!Next

LEMMA TableTrendSimulates ==
    ASSUME TableInv, NEW c \in Client, T!DB!Trend(c)
    PROVE  T!DB!Trail!Next
<1>1. UNCHANGED <<rows, dbRecord, fetched, dbHistory>> /\ dbStep[c] = "ready"
      /\ T!DB!Call(c, "query")
  BY DEF T!DB!Trend
<1>2. TableCalls[c] = "ready" /\ TableCalls' = [TableCalls EXCEPT ![c] = "reading"]
  BY <1>1, TableCallNames, TableStepSets DEF T!DB!Call
<1>3. UNCHANGED TableGots /\ UNCHANGED TableLog
  BY <1>1, TableLogIs DEF T!DB!Call, TableGots, TableInv, TableTyped
<1> QED
  BY <1>1, <1>2, <1>3 DEF T!DB!Trail!Next, T!DB!Trail!History, T!DB!Trail!Begin,
     T!DB!Call, TableCalls, TableGots, TableLog

LEMMA TableQuerySimulates ==
    ASSUME TableInv, NEW c \in Client, T!DB!Query(c)
    PROVE  T!DB!Trail!Next
<1>1. /\ UNCHANGED <<rows, dbRecord, dbHistory, dbEnded>> /\ dbStep[c] = "query"
      /\ dbStep' = [dbStep EXCEPT ![c] = "scan"]
      /\ fetched' = [fetched EXCEPT ![c] = TableLog]
  BY DEF T!DB!Query, T!DB!Goto, TableLog
<1>2. /\ fetched'[c] = TableLog
      /\ \A d \in Client \ {c} : fetched'[d] = fetched[d] /\ dbHistory'[d] = dbHistory[d]
  BY <1>1 DEF TableInv, TableTyped
<1>3. /\ TableCalls[c] = "reading" /\ TableCalls' = [TableCalls EXCEPT ![c] = "observed"]
      /\ TableGots' = [TableGots EXCEPT ![c] = TableLog]
  BY <1>1, <1>2, TableCallNames, TableStepSets
<1>4. UNCHANGED TableLog
  BY <1>1, TableLogIs
<1> QED
  BY <1>1, <1>3, <1>4 DEF T!DB!Trail!Next, T!DB!Trail!Observe, TableCalls, TableGots, TableLog

LEMMA TableScanSimulates ==
    ASSUME TableInv, NEW c \in Client, T!DB!Scan(c)
    PROVE  T!DB!Trail!Next
<1>1. /\ UNCHANGED rows /\ dbStep[c] = "scan" /\ T!DB!Return(c, T!DB!TrendExit(fetched[c]))
      /\ dbHistory' = [dbHistory EXCEPT ![c] = fetched[c]]
  BY DEF T!DB!Scan
<1>2. /\ dbStep' = [dbStep EXCEPT ![c] = "ready"] /\ dbHistory'[c] = fetched[c]
      /\ \A d \in Client \ {c} : fetched'[d] = fetched[d] /\ dbHistory'[d] = dbHistory[d]
  BY <1>1 DEF T!DB!Return, TableInv, TableTyped
<1>3. /\ TableCalls[c] = "observed" /\ TableCalls' = [TableCalls EXCEPT ![c] = "ready"]
      /\ TableGots' = [TableGots EXCEPT ![c] = fetched[c]] /\ TableGots[c] = fetched[c]
  BY <1>1, <1>2, TableCallNames, TableStepSets DEF TableGots
<1>4. UNCHANGED TableGots /\ UNCHANGED TableLog
  BY <1>1, <1>3, TableLogIs DEF TableGots
<1>5. T!DB!Trail!TrendExit(TableGots[c]) = T!DB!TrendExit(fetched[c])
  BY <1>3 DEF T!DB!Trail!TrendExit, T!DB!TrendExit, T!DB!Trail!Regressed, T!DB!Regressed
<1>6. T!DB!Trail!Return(c, T!DB!Trail!TrendExit(TableGots[c]))
  BY <1>1, <1>3, <1>5 DEF T!DB!Trail!Return, T!DB!Return, TableCalls
<1> QED
  BY <1>3, <1>4, <1>6 DEF T!DB!Trail!Next, T!DB!Trail!Answer, TableCalls, TableGots, TableLog

LEMMA TableFailSimulates ==
    ASSUME TableInv, NEW c \in Client, T!DB!Fail(c)
    PROVE  T!DB!Trail!Next
<1>1. /\ UNCHANGED rows /\ dbStep[c] \in {"insert", "commit", "query", "scan"}
      /\ T!DB!Return(c, "failed")
      /\ dbHistory' = IF dbStep[c] \in {"query", "scan"}
                        THEN [dbHistory EXCEPT ![c] = None] ELSE dbHistory
  BY DEF T!DB!Fail, TableInv, TableTyped
<1>2. /\ dbStep' = [dbStep EXCEPT ![c] = "ready"]
      /\ \A d \in Client \ {c} : fetched'[d] = fetched[d] /\ dbHistory'[d] = dbHistory[d]
      /\ dbHistory'[c] = IF dbStep[c] \in {"query", "scan"} THEN None ELSE dbHistory[c]
  BY <1>1 DEF T!DB!Return, TableInv, TableTyped
<1>3. /\ TableCalls' = [TableCalls EXCEPT ![c] = "ready"]
      /\ TableGots' = [TableGots EXCEPT ![c] = dbHistory'[c]]
      /\ TableCalls[c] = CASE dbStep[c] = "query" -> "reading"
                           [] dbStep[c] = "scan" -> "observed"
                           [] OTHER -> "appending"
  BY <1>1, <1>2, TableCallNames, TableStepSets
<1>4. T!DB!Trail!Return(c, "failed") /\ UNCHANGED TableLog
  BY <1>1, <1>3, TableLogIs DEF T!DB!Trail!Return, T!DB!Return, TableCalls
<1>5. CASE dbStep[c] \in {"query", "scan"}
  <2>1. TableGots' = [TableGots EXCEPT ![c] = None] /\ TableCalls[c] \in {"reading", "observed"}
    BY <1>2, <1>3, <1>5
  <2> QED
    BY <1>4, <2>1 DEF T!DB!Trail!Next, T!DB!Trail!Abandon, TableCalls, TableGots, TableLog
<1>6. CASE dbStep[c] \in {"insert", "commit"}
  <2>1. UNCHANGED TableGots /\ TableCalls[c] = "appending"
    <3>1. TableGots[c] = dbHistory[c] /\ TableCalls[c] = "appending"
      BY <1>6, TableCallNames DEF TableGots
    <3> QED
      BY <1>2, <1>3, <1>6, <3>1 DEF TableGots
  <2> QED
    BY <1>4, <2>1 DEF T!DB!Trail!Next, T!DB!Trail!Abandon, TableCalls, TableGots, TableLog
<1> QED
  BY <1>1, <1>5, <1>6

\* An append puts its record behind every record taken before it, at one
\* instant or not at all, for any number of processes and in any order of
\* commits; every trend that answers has seen the whole table (PostgresTrail
\* implements the promise of the Trail interface).
THEOREM TableIsLog == TargetsSpec => TableTrail
<1>1. ASSUME TableInv, NEW c \in Client, T!DB!Step(c)
      PROVE  T!DB!Trail!Next \/ UNCHANGED T!DB!Trail!vars
  BY <1>1, TableAppendSimulates, TableInsertSimulates, TableCommitSimulates,
     TableTrendSimulates, TableQuerySimulates, TableScanSimulates, TableFailSimulates
     DEF T!DB!Step
<1>2. ASSUME UNCHANGED T!postgres PROVE UNCHANGED T!DB!Trail!vars
  <2>1. UNCHANGED <<rows, dbStep, dbRecord, fetched, dbHistory, dbEnded>>
    BY <1>2 DEF T!postgres
  <2>2. UNCHANGED TableCalls /\ UNCHANGED TableGots /\ UNCHANGED TableLog
    BY <2>1, TableLogIs DEF TableCalls, TableGots, T!DB!CallOf
  <2> QED
    BY <2>1, <2>2 DEF T!DB!Trail!vars, TableCalls, TableGots, TableLog
<1>3. TableInv /\ [T!TrailsNext]_(T!trailsVars) => [T!DB!Trail!Next]_(T!DB!Trail!vars)
  BY <1>1, <1>2 DEF T!TrailsNext, T!trailsVars, T!DB!Next
<1>4. T!TrailsInit => T!DB!Trail!Init
  BY TableInitLog DEF T!TrailsInit
<1> QED
  BY <1>3, <1>4, TableInvariance, TargetsAreApart, PTL
     DEF TableTrail, T!TrailsSpec, T!TableTrail, T!DB!TrailSpec, T!DB!Trail!Spec

=============================================================================
