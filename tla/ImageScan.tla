------------------------------ MODULE ImageScan ------------------------------
(***************************************************************************)
(* internal/imagescan: `qryx image` takes image tarballs apart, one outer  *)
(* entry and one file at a time, lays the layers over each other in a      *)
(* temporary directory, and runs the code and the binary scanner over it.  *)
(*                                                                         *)
(* An outer entry is a layer when it is a tar, gzipped or not.  Anything   *)
(* else is passed over, and that is where a layer in a compression qryx    *)
(* does not know ("opaque") goes as well.  Whiteouts and links are passed  *)
(* over, so a file that a later layer deletes is scanned all the same.     *)
(*                                                                         *)
(* A path is the sequence of its components; sizes are in units of the     *)
(* caps.  Any write may fail.                                              *)
(***************************************************************************)
EXTENDS Naturals, FiniteSets, Functions, SequencesExt

CONSTANTS
    Images,         \* the sequences of image tarballs a command may name
    MaxFileBytes,   \* maxFileBytes
    MaxTotalBytes,  \* maxTotalBytes
    MaxSourceBytes, \* the code scanner's own cap, scan.MaxFileSize
    SkipDirs        \* the directory names the code scanner does not enter

\* What a file holds: source with cryptography in it, source no detector can
\* parse, a binary with cryptography, or nothing of the kind.
Held == {"source", "unparsable", "binary", "text"}

ImageFile == [name : Seq(STRING), kind : {"file", "link", "whiteout"},
              size : Nat, holds : Held]

\* Only a layer has files.
OuterEntry == {e \in [kind : {"meta", "opaque", "layer", "torn"},
                     files : Seq(ImageFile), torn : BOOLEAN] :
                 e.kind # "layer" => e.files = <<>>}

ConstantsOK ==
    /\ Images \subseteq Seq(Seq(OuterEntry)) \ {<<>>}
    /\ MaxFileBytes \in Nat /\ MaxTotalBytes \in Nat /\ MaxSourceBytes \in Nat
    /\ SkipDirs \subseteq STRING

VARIABLES
    tars,      \* the tarballs of this command
    step,      \* "open", "outer", "layer", "scan" or "done"
    image,     \* the tarball, the outer entry and the file the scan is at
    outer,
    inner,
    files,     \* the temporary directory: path -> [size, holds]
    written,   \* extractStats
    oversize,
    hits,      \* the findings
    notices,   \* the tarballs whose oversize notice is on stderr
    ended      \* "", "failed" or "ok"

ivars == <<tars, step, image, outer, inner, files, written, oversize, hits,
           notices, ended>>

NoFiles == [p \in {} |-> <<>>]

Init ==
    /\ tars \in Images
    /\ step = "open" /\ image = 1 /\ outer = 1 /\ inner = 1
    /\ files = NoFiles
    /\ written = 0 /\ oversize = 0
    /\ hits = {} /\ notices = {}
    /\ ended = ""

-----------------------------------------------------------------------------

\* safeJoin: the name is anchored at the root before it is cleaned, so ".."
\* goes no further up than that and no name is dropped.
safeJoin(name) ==
    FoldLeft(LAMBDA p, c : CASE c = ".." -> SubSeq(p, 1, IF p = <<>> THEN 0 ELSE Len(p) - 1)
                             [] c = "."  -> p
                             [] OTHER    -> Append(p, c),
             <<>>, name)

\* Any error ends the command: no findings at all are printed.
Abort ==
    /\ step' = "done" /\ ended' = "failed" /\ hits' = {}
    /\ UNCHANGED <<image, outer, inner, files, written, oversize, notices>>

\* MkdirTemp and os.Open.
Open ==
    /\ step = "open"
    /\ \/ Abort
       \/ /\ step' = "outer" /\ outer' = 1
          /\ files' = NoFiles /\ written' = 0 /\ oversize' = 0
          /\ UNCHANGED <<image, inner, hits, notices, ended>>

Entry == tars[image][outer]

NextEntry ==
    /\ step = "outer"
    /\ \/ /\ outer > Len(tars[image])
          /\ step' = "scan" /\ UNCHANGED <<outer, inner>>
       \/ /\ outer <= Len(tars[image]) /\ Entry.kind \in {"meta", "opaque"}
          /\ outer' = outer + 1 /\ UNCHANGED <<step, inner>>
       \/ /\ outer <= Len(tars[image]) /\ Entry.kind = "layer"
          /\ step' = "layer" /\ inner' = 1 /\ UNCHANGED outer
    /\ UNCHANGED <<image, files, written, oversize, hits, notices, ended>>

\* The outer tar or a layer ends in the middle.
Torn ==
    /\ \/ step = "outer" /\ outer <= Len(tars[image]) /\ Entry.kind = "torn"
       \/ step = "layer" /\ inner > Len(Entry.files) /\ Entry.torn
    /\ Abort

LayerEnds ==
    /\ step = "layer" /\ inner > Len(Entry.files) /\ ~Entry.torn
    /\ step' = "outer" /\ outer' = outer + 1
    /\ UNCHANGED <<image, inner, files, written, oversize, hits, notices, ended>>

File == Entry.files[inner]

\* MkdirAll meets a file, or Create a directory.
Conflicts(path) ==
    path = <<>> \/ \E p \in DOMAIN files : IsStrictPrefix(p, path) \/ IsStrictPrefix(path, p)

\* Mutant: what is already written is compared alone.
WithinBudgetAlone(size) == written <= MaxTotalBytes

WithinBudget(size) == written + size <= MaxTotalBytes

\* Mutant: a file over the cap is passed over like a link.
PassByUncounted ==
    /\ step = "layer" /\ inner <= Len(Entry.files)
    /\ File.kind # "file" \/ File.size > MaxFileBytes
    /\ inner' = inner + 1
    /\ UNCHANGED <<step, image, outer, files, written, oversize, hits, notices, ended>>

\* Not a regular file, a whiteout, or too large, which is counted.
PassBy ==
    /\ step = "layer" /\ inner <= Len(Entry.files)
    /\ \/ File.kind # "file" /\ UNCHANGED oversize
       \/ File.kind = "file" /\ File.size > MaxFileBytes /\ oversize' = oversize + 1
    /\ inner' = inner + 1
    /\ UNCHANGED <<step, image, outer, files, written, hits, notices, ended>>

\* MkdirAll and writeCapped; a write may fail, and has to when the budget or
\* the directory does not allow it.
Extract ==
    /\ step = "layer" /\ inner <= Len(Entry.files)
    /\ File.kind = "file" /\ File.size <= MaxFileBytes
    /\ LET path == safeJoin(File.name)
       IN \/ Abort
          \/ /\ WithinBudget(File.size) /\ ~Conflicts(path)
             /\ files' = [p \in DOMAIN files \cup {path} |->
                            IF p = path THEN [size |-> File.size, holds |-> File.holds]
                                        ELSE files[p]]
             /\ written' = written + File.size
             /\ inner' = inner + 1
             /\ UNCHANGED <<step, image, outer, oversize, hits, notices, ended>>

-----------------------------------------------------------------------------

\* The code scanner enters no directory of these names and reads no file over
\* its own cap; scanImage drops its counts of what it could not examine.
SourceSeen(path, size) ==
    /\ size <= MaxSourceBytes
    /\ \A k \in 1 .. Len(path) - 1 : path[k] \notin SkipDirs

\* Whether a file at this path gives a finding, with binscan.Scan's.
Seen(path, size, holds) ==
    \/ holds = "source" /\ SourceSeen(path, size)
    \/ holds = "binary"

Hit(i, path, holds) == [image |-> i, path |-> path, holds |-> holds]

\* Both scanners run, the paths become relative to the image, and Scan goes to
\* the next tarball.
ScanFiles ==
    /\ step = "scan"
    /\ \/ Abort
       \/ /\ hits' = hits \cup
                {Hit(image, p, files[p].holds) :
                    p \in {q \in DOMAIN files : Seen(q, files[q].size, files[q].holds)}}
          /\ notices' = IF oversize > 0 THEN notices \cup {image} ELSE notices
          /\ IF image < Len(tars)
               THEN image' = image + 1 /\ step' = "open" /\ UNCHANGED ended
               ELSE step' = "done" /\ ended' = "ok" /\ UNCHANGED image
          /\ UNCHANGED <<outer, inner, files, written, oversize>>

Scan ==
    /\ \/ Open \/ NextEntry \/ Torn \/ LayerEnds \/ PassBy \/ Extract \/ ScanFiles
    /\ UNCHANGED tars

Spec == Init /\ [][Scan]_ivars /\ WF_ivars(Scan)

-----------------------------------------------------------------------------

TypeOK ==
    /\ step \in {"open", "outer", "layer", "scan", "done"}
    /\ image \in 1 .. Len(tars)
    /\ step = "layer" => outer \in 1 .. Len(tars[image]) /\ inner \in 1 .. Len(Entry.files) + 1
    /\ \A p \in DOMAIN files : p # <<>> /\ files[p] \in [size : 0 .. MaxFileBytes, holds : Held]
    /\ written \in Nat /\ oversize \in Nat
    /\ \A h \in hits : h.image \in 1 .. image /\ h.holds \in Held
    /\ notices \subseteq 1 .. image
    /\ ended \in {"", "failed", "ok"}

\* The tar-bomb budget: what lies in the temporary directory never exceeds it,
\* however the layers overwrite each other.
BudgetKept == SumFunctionOnSet([p \in DOMAIN files |-> files[p].size], DOMAIN files) <= MaxTotalBytes

\* Every place where the layers of a tarball hold a regular file.
Places(i) ==
    UNION {{<<k, j>> : j \in DOMAIN tars[i][k].files} : k \in DOMAIN tars[i]}

At(i, t) == tars[i][t[1]].files[t[2]]

Regular(i) == {t \in Places(i) : At(i, t).kind = "file"}

\* No later place holds the same path.
Uppermost(i, t) ==
    \A u \in Regular(i) : safeJoin(At(i, u).name) = safeJoin(At(i, t).name) =>
        u[1] < t[1] \/ (u[1] = t[1] /\ u[2] <= t[2])

\* "An image that cannot be extracted is an error, not a skip", and what is too
\* large to extract is on stderr: the findings of a tarball without a notice
\* are those of its layers laid over each other, each file from the last layer
\* that has it, with nothing of another tarball among them.
ImageAccounted ==
    ended = "ok" =>
        \A i \in DOMAIN tars : i \notin notices =>
            {h \in hits : h.image = i} =
                {Hit(i, safeJoin(At(i, t).name), At(i, t).holds) : t \in
                    {u \in Regular(i) :
                        /\ Uppermost(i, u)
                        /\ Seen(safeJoin(At(i, u).name), At(i, u).size, At(i, u).holds)}}

=============================================================================
