------------------------------- MODULE Walker -------------------------------
(***************************************************************************)
(* Scanner.Scan: a walk of a tree that changes under it, step by step.     *)
(*                                                                         *)
(* filepath.WalkDir lists a directory, calls back for each entry of the    *)
(* listing, and calls back again for a directory it could not list.  The   *)
(* callback looks at a file twice: Info for its size, then ReadFile.       *)
(* Between any two of these steps a file or directory may go, grow past    *)
(* the size cap or be locked.                                              *)
(*                                                                         *)
(* Detectors are kept by the Scanner and count what they cannot parse over *)
(* their lifetime; a Scanner may scan twice.  risk.Apply, at the end, is   *)
(* in ComplianceReport.                                                    *)
(***************************************************************************)
EXTENDS RustTestLines, FiniteSets, FiniteSetsExt

CONSTANTS
    Tree,       \* the entries, in the order of the walk; Tree[1] is the root
    Contents,   \* what the files may hold: for each entry, [lines, parses]
    MaxScans,   \* bound on the scans of one Scanner
    MaxChanges  \* bound on the changes to the tree

Detector == {"goast", "rust", "hardcoded"}

Entry == [kind : {"dir", "file"}, parent : Nat, skip : BOOLEAN,
          rust : BOOLEAN, test : BOOLEAN, wants : SUBSET Detector]

ASSUME TreeAssumption ==
    /\ Tree \in Seq(Entry) /\ Len(Tree) > 0
    /\ Tree[1].kind = "dir" /\ Tree[1].parent = 0
    /\ \A e \in 2 .. Len(Tree) : Tree[e].parent \in 1 .. e - 1 /\ Tree[Tree[e].parent].kind = "dir"

ASSUME ContentsAssumption ==
    \A c \in Contents, e \in 1 .. Len(Tree) :
        c[e].lines \in Seq(Line) /\ c[e].parses \in BOOLEAN

ASSUME BoundsAssumption == MaxScans \in Nat /\ MaxChanges \in Nat

Node == 1 .. Len(Tree)
Children(d) == {e \in Node : Tree[e].parent = d}
Wanted(e) == Tree[e].kind = "file" /\ Tree[e].wants # {}

VARIABLES
    disk,      \* what each entry is now: "ok", "gone", "locked" or "large"
    content,   \* what each file holds
    pc,        \* "idle", "walk", "read" or "done"
    listed,    \* the entries of the listings made so far
    cursor,    \* the entry the walk is at, Len(Tree) + 1 after the last
    res,       \* the Result
    unparsed,  \* the count that goast keeps
    before,    \* unparsedBefore
    scans, changes,
    read,      \* history: the files read in this scan
    absent     \* history: the entries that were gone at some moment of it

vars == <<disk, content, pc, listed, cursor, res, unparsed, before, scans,
          changes, read, absent>>

NoResult == [FilesWalked |-> 0, Findings |-> {}, Unreadable |-> 0,
             Oversize |-> 0, Unparsed |-> 0]

Init ==
    /\ disk = [e \in Node |-> "ok"]
    /\ content \in Contents
    /\ pc = "idle"
    /\ listed = {}
    /\ cursor = 1
    /\ res = NoResult
    /\ unparsed = 0 /\ before = 0
    /\ scans = 0 /\ changes = 0
    /\ read = {}
    /\ absent = {}

-----------------------------------------------------------------------------

\* Another process does something to an entry.
Change(e) ==
    /\ changes < MaxChanges
    /\ changes' = changes + 1
    /\ \E s \in {"ok", "gone", "locked", "large"} \ {disk[e]} :
          /\ s = "large" => Tree[e].kind = "file"
          /\ disk' = [disk EXCEPT ![e] = s]
          /\ absent' = IF s = "gone" THEN absent \cup {e} ELSE absent
    /\ UNCHANGED <<content, pc, listed, cursor, res, unparsed, before, scans, read>>

tree == <<disk, content, changes>>

\* os.OpenRoot fails: no result.
StartFails ==
    /\ pc \in {"idle", "done"} /\ scans < MaxScans /\ disk[1] # "ok"
    /\ scans' = scans + 1
    /\ pc' = "idle"
    /\ UNCHANGED <<listed, cursor, res, unparsed, before, read, absent, tree>>

Start ==
    /\ pc \in {"idle", "done"} /\ scans < MaxScans /\ disk[1] = "ok"
    /\ scans' = scans + 1
    /\ pc' = "walk"
    /\ listed' = {1} /\ cursor' = 1
    /\ res' = NoResult
    /\ before' = unparsed
    /\ read' = {} /\ absent' = {e \in Node : disk[e] = "gone"}
    /\ UNCHANGED <<unparsed, tree>>

\* The next entry of the listings.
Following(entries, e) == Min({x \in entries : x > e} \cup {Len(Tree) + 1})

\* Mutant: the error of a directory is dropped.
DirUncounted ==
    /\ pc = "walk" /\ cursor \in Node /\ Tree[cursor].kind = "dir"
    /\ listed' = IF ~Tree[cursor].skip /\ disk[cursor] = "ok"
                   THEN listed \cup {c \in Children(cursor) : disk[c] # "gone"}
                   ELSE listed
    /\ cursor' = Following(listed', cursor)
    /\ UNCHANGED <<pc, res, unparsed, before, scans, read, absent, tree>>

\* A directory is skipped, listed, or cannot be.
VisitDir ==
    /\ pc = "walk" /\ cursor \in Node /\ Tree[cursor].kind = "dir"
    /\ IF ~Tree[cursor].skip /\ disk[cursor] = "ok"
         THEN listed' = listed \cup {c \in Children(cursor) : disk[c] # "gone"}
         ELSE listed' = listed
    /\ IF ~Tree[cursor].skip /\ disk[cursor] # "ok"
         THEN res' = [res EXCEPT !.Unreadable = @ + 1]
         ELSE res' = res
    /\ cursor' = Following(listed', cursor)
    /\ UNCHANGED <<pc, unparsed, before, scans, read, absent, tree>>

\* A file no detector wants is passed by; d.Info is the first look at a file.
VisitFile ==
    /\ pc = "walk" /\ cursor \in Node /\ Tree[cursor].kind = "file"
    /\ \/ /\ ~Wanted(cursor)
          /\ cursor' = Following(listed, cursor)
          /\ UNCHANGED <<pc, res>>
       \/ /\ Wanted(cursor) /\ disk[cursor] = "gone"
          /\ res' = [res EXCEPT !.Unreadable = @ + 1]
          /\ cursor' = Following(listed, cursor)
          /\ UNCHANGED pc
       \/ /\ Wanted(cursor) /\ disk[cursor] = "large"
          /\ res' = [res EXCEPT !.Oversize = @ + 1]
          /\ cursor' = Following(listed, cursor)
          /\ UNCHANGED pc
       \/ /\ Wanted(cursor) /\ disk[cursor] \in {"ok", "locked"}
          /\ pc' = "read"
          /\ UNCHANGED <<cursor, res>>
    /\ UNCHANGED <<listed, unparsed, before, scans, read, absent, tree>>

-----------------------------------------------------------------------------

KeyLines(lines) == {j \in 1 .. Len(lines) : Contains(lines[j], "key")}

\* What a detector finds; goast finds nothing in what it cannot parse.
Detect(det, c) == IF det = "goast" /\ ~c.parses THEN {} ELSE KeyLines(c.lines)

\* rustTestLines of every text the files may hold, computed once.
TestLines ==
    [lines \in {c[e].lines : c \in Contents, e \in Node} |-> rustTestLines(lines)]

IsTest(e, lines, j) ==
    Tree[e].test \/ (Tree[e].rust /\ TestLines[lines][j])

Found(e, c) ==
    UNION {{[file |-> e, det |-> det, line |-> j, isTest |-> IsTest(e, c.lines, j)] :
              j \in Detect(det, c)} : det \in Tree[e].wants}

\* The file is gone or locked by now; one that has grown is read all the same.
ReadFails ==
    /\ pc = "read" /\ disk[cursor] \in {"gone", "locked"}
    /\ res' = [res EXCEPT !.Unreadable = @ + 1]
    /\ pc' = "walk"
    /\ cursor' = Following(listed, cursor)
    /\ UNCHANGED <<listed, unparsed, before, scans, read, absent, tree>>

Read ==
    /\ pc = "read" /\ disk[cursor] \in {"ok", "large"}
    /\ LET c == content[cursor]
       IN /\ res' = [res EXCEPT !.FilesWalked = @ + 1, !.Findings = @ \cup Found(cursor, c)]
          /\ unparsed' = IF "goast" \in Tree[cursor].wants /\ ~c.parses
                           THEN unparsed + 1 ELSE unparsed
    /\ read' = read \cup {cursor}
    /\ pc' = "walk"
    /\ cursor' = Following(listed, cursor)
    /\ UNCHANGED <<listed, before, scans, absent, tree>>

Finish ==
    /\ pc = "walk" /\ cursor \notin Node
    /\ res' = [res EXCEPT !.Unparsed = unparsed - before]
    /\ pc' = "done"
    /\ UNCHANGED <<listed, cursor, unparsed, before, scans, read, absent, tree>>

\* The walk from its first step to its last.
Walk == VisitDir \/ VisitFile \/ ReadFails \/ Read \/ Finish

Next == Walk \/ StartFails \/ Start \/ \E e \in Node : Change(e)

Spec == Init /\ [][Next]_vars

-----------------------------------------------------------------------------

TypeOK ==
    /\ disk \in [Node -> {"ok", "gone", "locked", "large"}]
    /\ pc \in {"idle", "walk", "read", "done"}
    /\ listed \subseteq Node /\ read \subseteq listed /\ absent \subseteq Node
    /\ cursor \in 1 .. Len(Tree) + 1
    /\ pc = "read" => cursor \in listed /\ Wanted(cursor)
    /\ res.FilesWalked \in 0 .. Len(Tree) /\ res.Unreadable \in 0 .. Len(Tree)
    /\ res.Oversize \in 0 .. Len(Tree) /\ res.Unparsed \in 0 .. Len(Tree)
    /\ \A f \in res.Findings :
          f.file \in Node /\ f.det \in Detector /\ f.isTest \in BOOLEAN
    /\ scans \in 0 .. MaxScans /\ changes \in 0 .. MaxChanges

\* What holds an entry and with each entry its parent.
Branches(e) == {B \in SUBSET Node : e \in B /\ \A x \in B : Tree[x].parent \in B \cup {0}}

\* The entry, or a directory above it, is in S.
Above(e, S) == \A B \in Branches(e) : B \cap S # {}

Skipped == {e \in Node : Above(e, {d \in Node : Tree[d].skip})}

\* "These three are that difference": a scan that reports no gap has read every
\* file a detector wants, but for skipped directories and for what was not there
\* all the time, and has every finding of every detector that wants the file.
CleanMeansExamined ==
    pc = "done" /\ res.Unreadable + res.Oversize + res.Unparsed = 0 =>
        \A e \in Node : Wanted(e) /\ e \notin Skipped /\ ~Above(e, absent) =>
            /\ e \in read
            /\ \A det \in Tree[e].wants, j \in KeyLines(content[e].lines) :
                  \E f \in res.Findings : f.file = e /\ f.det = det /\ f.line = j

\* A finding is test code when its path says so or when Rust does.
TestsStamped ==
    \A f \in res.Findings :
        f.isTest <=> \/ Tree[f.file].test
                     \/ Tree[f.file].rust /\ InTestItem(content[f.file].lines, f.line)

\* README: a Rust test module is set aside "while the production code around it
\* still counts".
ProductionStillCounts ==
    \A f \in res.Findings :
        f.isTest => \/ Tree[f.file].test
                    \/ Tree[f.file].rust /\ InTestItem(content[f.file].lines, f.line)

=============================================================================
