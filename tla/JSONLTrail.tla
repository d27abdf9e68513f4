----------------------------- MODULE JSONLTrail -----------------------------
(***************************************************************************)
(* store.JSONLTrail: several qryx processes append to and read one JSON    *)
(* Lines file.  Append opens the file with O_APPEND and writes one line;   *)
(* the operating system may take the line in several pieces, other         *)
(* processes' pieces in between, and the write may fail or the process be  *)
(* killed with part of it on disk.  Nothing ever repairs the file.         *)
(*                                                                         *)
(* The reader is trend --fail-on-regression: History, then the comparison  *)
(* of the last two scores.                                                 *)
(*                                                                         *)
(* A line is three symbols: the first bytes of the JSON object, the rest   *)
(* of it, and the newline.  Any of the three may be the last one written.  *)
(***************************************************************************)
EXTENDS TrailData

CONSTANTS
    Client,
    None

VARIABLES
    shortWrites, \* the system may take a line in more than one piece
    file,     \* the bytes of the trail, <<>> when it does not exist
    clock,    \* wall clock, read once per Append for CreatedAt
    pc,       \* the next step of each client
    arg,      \* the record a client is appending, None when it is not
    left,     \* what it has still to write
    seen,     \* the bytes its History has read
    got,      \* the records its last History returned, None if it failed
    outcome   \* how its last call ended, for trend the exit code; none while one runs

vars == <<shortWrites, file, clock, pc, arg, left, seen, got, outcome>>

Symbol == [of : EvidenceRecord, part : {"head", "tail", "newline"}]

Head1(r) == [of |-> r, part |-> "head"]
Tail1(r) == [of |-> r, part |-> "tail"]

\* Mutant: no newline is appended.
LineUnterminated(r) == <<Head1(r), Tail1(r)>>

Line(r) == <<Head1(r), Tail1(r), [of |-> r, part |-> "newline"]>>

IsHead(x)    == x.part = "head"
IsTail(x)    == x.part = "tail"
IsNewline(x) == x.part = "newline"

TypeOK ==
    /\ shortWrites \in BOOLEAN
    /\ file \in Seq(Symbol)
    /\ clock \in 0 .. MaxStamp
    /\ pc \in [Client -> {"ready", "open", "write", "read", "parse"}]
    /\ arg \in [Client -> EvidenceRecord \cup {None}]
    /\ left \in [Client -> Seq(Symbol)]
    /\ seen \in [Client -> Seq(Symbol)]
    /\ got \in [Client -> Seq(EvidenceRecord) \cup {None}]
    /\ outcome \in [Client -> {"none", "ok", "0", "3", "failed"}]
    /\ \A c \in Client : pc[c] = "write" <=> left[c] # <<>>

Init ==
    /\ shortWrites \in BOOLEAN
    /\ file = <<>>
    /\ clock = 0
    /\ pc = [c \in Client |-> "ready"]
    /\ arg = [c \in Client |-> None]
    /\ left = [c \in Client |-> <<>>]
    /\ seen = [c \in Client |-> <<>>]
    /\ got = [c \in Client |-> None]
    /\ outcome = [c \in Client |-> "none"]

\* A call begins: it has not ended yet.
Call(c, l) ==
    /\ pc' = [pc EXCEPT ![c] = l]
    /\ outcome' = [outcome EXCEPT ![c] = "none"]

Goto(c, l) ==
    /\ pc' = [pc EXCEPT ![c] = l]
    /\ UNCHANGED outcome

\* An error and the death of the process look alike from outside: "failed".
Return(c, o) ==
    /\ pc' = [pc EXCEPT ![c] = "ready"]
    /\ arg' = [arg EXCEPT ![c] = None]
    /\ outcome' = [outcome EXCEPT ![c] = o]

-----------------------------------------------------------------------------
(* Append.                                                                 *)

\* No two records carry the same time: it has nanoseconds.
Append1(c, s) ==
    /\ pc[c] = "ready"
    /\ clock' = clock + 1 /\ clock' \in 1 .. MaxStamp
    /\ arg' = [arg EXCEPT ![c] = [stamp |-> clock', score |-> s]]
    /\ Call(c, "open")
    /\ UNCHANGED <<file, left, seen, got>>

\* Mutant: the file is opened with O_TRUNC.
OpenTruncating(c) ==
    /\ pc[c] = "open"
    /\ left' = [left EXCEPT ![c] = Line(arg[c])]
    /\ file' = <<>>
    /\ Goto(c, "write")
    /\ UNCHANGED <<clock, arg, seen, got>>

Open(c) ==
    /\ pc[c] = "open"
    /\ left' = [left EXCEPT ![c] = Line(arg[c])]
    /\ Goto(c, "write")
    /\ UNCHANGED <<file, clock, arg, seen, got>>

\* How many symbols one system call may take.
Pieces(c) == IF shortWrites THEN DOMAIN left[c] ELSE {Len(left[c])}

\* f.Write: one system call after the other until the line is out.  O_APPEND
\* puts each piece at the end the file has at that moment.
Write(c) ==
    /\ pc[c] = "write"
    /\ \E n \in Pieces(c) :
          /\ file' = file \o SubSeq(left[c], 1, n)
          /\ left' = [left EXCEPT ![c] = SubSeq(@, n + 1, Len(@))]
          /\ IF n < Len(left[c]) THEN Goto(c, "write") /\ UNCHANGED arg
                                 ELSE Return(c, "ok")
    /\ UNCHANGED <<clock, seen, got>>

\* The file cannot be opened, a write fails (a full disk, say), or a signal
\* ends the process.  What was written stays.
Break(c) ==
    /\ pc[c] \in {"open", "write"}
    /\ Return(c, "failed")
    /\ left' = [left EXCEPT ![c] = <<>>]
    /\ UNCHANGED <<file, clock, seen, got>>

-----------------------------------------------------------------------------
(* History, and the trend gate on it.                                      *)

Trend(c) ==
    /\ pc[c] = "ready"
    /\ Call(c, "read")
    /\ UNCHANGED <<file, clock, arg, left, seen, got>>

\* os.ReadFile; a file that is not there reads like an empty one.
Read(c) ==
    /\ pc[c] = "read"
    /\ \/ /\ seen' = [seen EXCEPT ![c] = file]
          /\ Goto(c, "parse")
          /\ UNCHANGED <<arg, got>>
       \/ /\ Return(c, "failed")
          /\ got' = [got EXCEPT ![c] = None]
          /\ UNCHANGED seen
    /\ UNCHANGED <<file, clock, left>>

\* Whether s[i] starts, or ends, a line.
Starts(s, i) == i = 1 \/ IsNewline(s[i - 1])
Ends(s, i)   == i = Len(s) \/ IsNewline(s[i + 1])

\* Symbols i and i + 1 are the two halves of one object, on a line of their own.
IsLine(s, i) ==
    /\ i < Len(s) /\ Starts(s, i) /\ Ends(s, i + 1)
    /\ s[i] = Head1(s[i].of) /\ s[i + 1] = Tail1(s[i].of)

\* Every line is empty or one JSON object: json.Unmarshal accepts neither a
\* part of one nor two in a row.
Readable(s) ==
    \A i \in DOMAIN s :
        /\ IsHead(s[i]) => IsLine(s, i)
        /\ IsTail(s[i]) => i > 1 /\ IsLine(s, i - 1)

\* The objects of the lines, in the order of the file.
Records(s) ==
    LET R[n \in 0 .. Len(s)] ==
            IF n = 0 THEN <<>>
            ELSE IF IsTail(s[n]) THEN Append(R[n - 1], s[n].of) ELSE R[n - 1]
    IN R[Len(s)]

\* Mutant: lines that do not parse are skipped.
ParseSkipping(c) ==
    /\ pc[c] = "parse"
    /\ LET s    == seen[c]
           n    == {i \in DOMAIN s : IsTail(s[i]) /\ i > 1 /\ IsLine(s, i - 1)}
           h    == Records([i \in DOMAIN s |-> [s[i] EXCEPT !.part =
                                IF i \in n THEN "tail" ELSE "newline"]])
       IN got' = [got EXCEPT ![c] = h] /\ Return(c, TrendExit(h))
    /\ seen' = [seen EXCEPT ![c] = <<>>]
    /\ UNCHANGED <<file, clock, left>>

Parse(c) ==
    /\ pc[c] = "parse"
    /\ IF Readable(seen[c])
         THEN LET h == Records(seen[c])
              IN got' = [got EXCEPT ![c] = h] /\ Return(c, TrendExit(h))
         ELSE got' = [got EXCEPT ![c] = None] /\ Return(c, "failed")
    /\ seen' = [seen EXCEPT ![c] = <<>>]
    /\ UNCHANGED <<file, clock, left>>

-----------------------------------------------------------------------------

Step(c) ==
    \/ \E s \in Scores : Append1(c, s)
    \/ Open(c) \/ Write(c) \/ Break(c)
    \/ Trend(c) \/ Read(c) \/ Parse(c)

Next == (\E c \in Client : Step(c)) /\ UNCHANGED shortWrites

Spec == Init /\ [][Next]_vars

-----------------------------------------------------------------------------

\* "A malformed line is an error to protect trail integrity": what a History
\* returned once stays the beginning of every later one, whatever was torn in
\* between.  No trend ever compares records that are not neighbours in the
\* trail, because one between them could not be read.
HistoryGrows ==
    \A c \in Client :
        got[c] # None => /\ Len(got[c]) <= Len(Records(file))
                         /\ got[c] = SubSeq(Records(file), 1, Len(got[c]))

\* As long as the system takes each line in one piece, appends need no lock:
\* however they race, fail or die, the trail stays readable at every moment.
NoLockNeeded == ~shortWrites => Readable(file)

-----------------------------------------------------------------------------
(* The file is a log in append order.                                      *)

\* A record counts from the moment its object is complete.
IsIn(c) == \E i \in DOMAIN file : file[i] = Tail1(arg[c])

CallOf(c) ==
    CASE pc[c] = "ready"  -> "ready"
      [] pc[c] = "read"   -> "reading"
      [] pc[c] = "parse"  -> "observed"
      [] OTHER            -> IF IsIn(c) THEN "appended" ELSE "appending"

Trail == INSTANCE EvidenceTrail WITH
            log    <- Records(file),
            call   <- [c \in Client |-> CallOf(c)],
            got    <- [c \in Client |-> IF pc[c] = "parse" THEN Records(seen[c])
                                                          ELSE got[c]],
            ByTime <- FALSE

\* Every append is in the log whole or not at all, nothing is ever taken out,
\* and every trend that answers has seen the whole log.
TrailSpec == Trail!Spec

=============================================================================
