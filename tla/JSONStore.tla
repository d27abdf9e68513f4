----------------------------- MODULE JSONStore -----------------------------
(***************************************************************************)
(* store.JSONStore: several qryx processes save to and load from one file. *)
(* Save writes a temporary file next to the target and renames it over the *)
(* target; every system call in it may fail, and the process may be killed *)
(* between any two of them or half way through the write.  Load is         *)
(* os.ReadFile: an open, which pins the file the name meant at that        *)
(* moment, and a read of that file.                                        *)
(*                                                                         *)
(* A killed process is replaced by a new run with the same name, so a      *)
(* client is ready again after it.  The temporary file it leaves behind is *)
(* never read by anything and is not kept in the state.                    *)
(***************************************************************************)
EXTENDS Naturals

CONSTANTS
    Client,
    Snapshot,
    None,       \* no file; no snapshot
    Taken       \* Snapshot.CreatedAt

VARIABLES
    file,     \* what the target path names: a content, or None
    tmp,      \* each client's temporary file, or None
    pc,       \* the next system call of each client
    arg,      \* the snapshot a client is saving
    got,      \* the content a client's last Load opened, None if it failed
    outcome   \* how its last call ended

vars == <<file, tmp, pc, arg, got, outcome>>

\* The bytes of a snapshot, all of them or only the first ones.
Content == [snap : Snapshot, whole : BOOLEAN]

ASSUME NoneAssumption == None \notin Snapshot /\ None \notin Content

Whole(s)   == [snap |-> s, whole |-> TRUE]
Partial(s) == [snap |-> s, whole |-> FALSE]

InSave == {"create", "write", "finish", "close", "rename"}
InLoad == {"open", "read"}

TypeOK ==
    /\ file \in Content \cup {None}
    /\ tmp \in [Client -> Content \cup {None}]
    /\ pc \in [Client -> {"ready"} \cup InSave \cup InLoad]
    /\ arg \in [Client -> Snapshot \cup {None}]
    /\ got \in [Client -> Content \cup {None}]
    /\ outcome \in [Client -> {"none", "ok", "notfound", "error", "killed"}]
    /\ \A c \in Client : pc[c] \in InSave => arg[c] \in Snapshot
    /\ \A c \in Client : pc[c] \in {"write", "finish", "close", "rename"}
                            => tmp[c] \in Content

Init ==
    /\ file \in {Whole(s) : s \in Snapshot} \cup {None}
    /\ tmp = [c \in Client |-> None]
    /\ pc = [c \in Client |-> "ready"]
    /\ arg = [c \in Client |-> None]
    /\ got = [c \in Client |-> None]
    /\ outcome = [c \in Client |-> "none"]

Goto(c, l) == pc' = [pc EXCEPT ![c] = l]

Return(c, o) ==
    /\ Goto(c, "ready")
    /\ outcome' = [outcome EXCEPT ![c] = o]

SetTmp(c, x) == tmp' = [tmp EXCEPT ![c] = x]

-----------------------------------------------------------------------------
(* Save.                                                                   *)

\* Mutant: the snapshot is not handed on.
SaveNothing(c, s) ==
    /\ pc[c] = "ready"
    /\ Goto(c, "create")
    /\ UNCHANGED <<file, tmp, arg, got, outcome>>

Save(c, s) ==
    /\ pc[c] = "ready"
    /\ arg' = [arg EXCEPT ![c] = s]
    /\ Goto(c, "create")
    /\ UNCHANGED <<file, tmp, got, outcome>>

CreateTemp(c) ==
    /\ pc[c] = "create"
    /\ \/ /\ SetTmp(c, Partial(arg[c]))
          /\ Goto(c, "write")
          /\ UNCHANGED outcome
       \/ Return(c, "error") /\ UNCHANGED tmp
    /\ UNCHANGED <<file, arg, got>>

\* Mutant: the data goes straight into the target.
WriteInPlace(c) ==
    /\ pc[c] = "write"
    /\ file' = Partial(arg[c])
    /\ Goto(c, "finish")
    /\ UNCHANGED <<tmp, arg, got, outcome>>

\* tmp.Write puts down some of the bytes; on an error the temporary file is
\* closed and removed.
Write(c) ==
    /\ pc[c] = "write"
    /\ \/ Goto(c, "finish") /\ UNCHANGED <<tmp, outcome>>
       \/ Return(c, "error") /\ SetTmp(c, None)
    /\ UNCHANGED <<file, arg, got>>

\* The rest of the same Write.
FinishWrite(c) ==
    /\ pc[c] = "finish"
    /\ \/ /\ SetTmp(c, Whole(arg[c]))
          /\ Goto(c, "close")
          /\ UNCHANGED outcome
       \/ Return(c, "error") /\ SetTmp(c, None)
    /\ UNCHANGED <<file, arg, got>>

Close(c) ==
    /\ pc[c] = "close"
    /\ \/ Goto(c, "rename") /\ UNCHANGED <<tmp, outcome>>
       \/ Return(c, "error") /\ SetTmp(c, None)
    /\ UNCHANGED <<file, arg, got>>

\* Mutant: the target is removed first and the rename may still fail.
RenameAfterRemove(c) ==
    /\ pc[c] = "rename"
    /\ \/ file' = tmp[c] /\ Return(c, "ok")
       \/ file' = None /\ Return(c, "error")
    /\ SetTmp(c, None)
    /\ UNCHANGED <<arg, got>>

\* Save returns whatever Rename returns; a failed rename leaves the
\* temporary file behind.
Rename(c) ==
    /\ pc[c] = "rename"
    /\ \/ file' = tmp[c] /\ Return(c, "ok")
       \/ UNCHANGED file /\ Return(c, "error")
    /\ SetTmp(c, None)
    /\ UNCHANGED <<arg, got>>

-----------------------------------------------------------------------------
(* Load.                                                                   *)

Load(c) ==
    /\ pc[c] = "ready"
    /\ Goto(c, "open")
    /\ UNCHANGED <<file, tmp, arg, got, outcome>>

Open(c) ==
    /\ pc[c] = "open"
    /\ \/ /\ got' = [got EXCEPT ![c] = file]
          /\ Goto(c, "read")
          /\ UNCHANGED outcome
       \/ Return(c, "error") /\ got' = [got EXCEPT ![c] = None]
    /\ UNCHANGED <<file, tmp, arg>>

\* The bytes are unmarshalled: a partial document is an error.
Verdict(x) ==
    IF x = None THEN "notfound" ELSE IF x.whole THEN "ok" ELSE "error"

Read(c) ==
    /\ pc[c] = "read"
    /\ \E o \in {Verdict(got[c]), "error"} :
          /\ Return(c, o)
          /\ got' = IF o = "error" THEN [got EXCEPT ![c] = None] ELSE got
    /\ UNCHANGED <<file, tmp, arg>>

-----------------------------------------------------------------------------

Kill(c) ==
    /\ pc[c] # "ready"
    /\ Return(c, "killed")
    /\ SetTmp(c, None)
    /\ got' = IF pc[c] \in InLoad THEN [got EXCEPT ![c] = None] ELSE got
    /\ UNCHANGED <<file, arg>>

Step(c) ==
    \/ \E s \in Snapshot : Save(c, s)
    \/ CreateTemp(c) \/ Write(c) \/ FinishWrite(c) \/ Close(c) \/ Rename(c)
    \/ Load(c) \/ Open(c) \/ Read(c)
    \/ Kill(c)

Next == \E c \in Client : Step(c)

Spec == Init /\ [][Next]_vars

-----------------------------------------------------------------------------

\* "Save writes the snapshot atomically (temp file + rename)": whatever was
\* interrupted, the target is absent or holds all the bytes of one snapshot.
TargetWhole == file = None \/ file.whole

\* A Load never sees half of a snapshot, even when it raced a Save.
LoadSeesWhole == \A c \in Client : got[c] = None \/ got[c].whole

-----------------------------------------------------------------------------
(* The file is one cell that Save overwrites.                              *)

SnapOf(x) == IF x = None THEN None ELSE x.snap

CallOf(l) ==
    CASE l \in InSave  -> "saving"
      [] l = "open"    -> "loading"
      [] l = "read"    -> "observed"
      [] OTHER         -> "ready"

Cell == INSTANCE SnapshotStore WITH
            value      <- SnapOf(file),
            call       <- [c \in Client |-> CallOf(pc[c])],
            got        <- [c \in Client |-> SnapOf(got[c])],
            KeepNewest <- FALSE

CellSpec == Cell!Spec

=============================================================================
