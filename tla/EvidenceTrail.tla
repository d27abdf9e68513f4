--------------------------- MODULE EvidenceTrail ---------------------------
(***************************************************************************)
(* What the Trail interface promises to the runs that append to one trail  *)
(* and to the trend gates that read it: a log of records to which an       *)
(* append adds one record at one instant or not at all, from which nothing *)
(* is ever taken away, and which a trend sees at one instant.              *)
(*                                                                         *)
(* The JSON Lines file lists records in the order they were appended, the  *)
(* PostgreSQL table in the order they were taken.  ByTime tells the two    *)
(* apart.                                                                  *)
(***************************************************************************)
EXTENDS TrailData

CONSTANTS
    Client,    \* the processes that append or show the trend
    None,
    ByTime     \* records are listed by CreatedAt

VARIABLES
    log,       \* what a History would return now
    call,      \* what each client is doing
    arg,       \* the record it is appending, None when it is not
    got,       \* what its last History observed, None if it failed
    outcome    \* how its last call ended, none while one runs

vars == <<log, call, arg, got, outcome>>

Init ==
    /\ log = <<>>
    /\ call = [c \in Client |-> "ready"]
    /\ arg = [c \in Client |-> None]
    /\ got = [c \in Client |-> None]
    /\ outcome = [c \in Client |-> "none"]

Return(c, o) ==
    /\ call' = [call EXCEPT ![c] = "ready"]
    /\ arg' = [arg EXCEPT ![c] = None]
    /\ outcome' = [outcome EXCEPT ![c] = o]

Begin(c, l) ==
    /\ call[c] = "ready"
    /\ call' = [call EXCEPT ![c] = l]
    /\ outcome' = [outcome EXCEPT ![c] = "none"]

Append1(c, r) ==
    /\ Begin(c, "appending")
    /\ arg' = [arg EXCEPT ![c] = r]
    /\ UNCHANGED <<log, got>>

\* r goes to the end, or behind every record taken before it.
Place(r) ==
    \E n \in 0 .. Len(log) :
        /\ log' = SubSeq(log, 1, n) \o <<r>> \o SubSeq(log, n + 1, Len(log))
        /\ IF ByTime
             THEN /\ \A i \in 1 .. n : log[i].stamp <= r.stamp
                  /\ \A i \in n + 1 .. Len(log) : r.stamp <= log[i].stamp
             ELSE n = Len(log)

\* The append took effect; the caller learns so ("ok") or does not.
Commit(c) ==
    /\ call[c] = "appending"
    /\ Place(arg[c])
    /\ \/ \E o \in {"ok", "failed"} : Return(c, o)
       \/ call' = [call EXCEPT ![c] = "appended"] /\ UNCHANGED <<arg, outcome>>
    /\ UNCHANGED got

\* The answer to an append that took effect earlier.
Acknowledge(c) ==
    /\ call[c] = "appended"
    /\ \E o \in {"ok", "failed"} : Return(c, o)
    /\ UNCHANGED <<log, got>>

History(c) ==
    /\ Begin(c, "reading")
    /\ UNCHANGED <<log, arg, got>>

Observe(c) ==
    /\ call[c] = "reading"
    /\ got' = [got EXCEPT ![c] = log]
    /\ call' = [call EXCEPT ![c] = "observed"]
    /\ UNCHANGED <<log, arg, outcome>>

\* trend exits with the verdict on what it observed.
Answer(c) ==
    /\ call[c] = "observed"
    /\ Return(c, TrendExit(got[c]))
    /\ UNCHANGED <<log, got>>

\* The call fails, or the process is killed in it, without any effect; a
\* failed History returns no records.
Abandon(c) ==
    /\ call[c] \in {"appending", "reading", "observed"}
    /\ Return(c, "failed")
    /\ got' = IF call[c] = "appending" THEN got ELSE [got EXCEPT ![c] = None]
    /\ UNCHANGED log

Next ==
    \E c \in Client :
        \/ \E r \in EvidenceRecord : Append1(c, r)
        \/ Commit(c)
        \/ Acknowledge(c)
        \/ History(c)
        \/ Observe(c)
        \/ Answer(c)
        \/ Abandon(c)

Spec == Init /\ [][Next]_vars

=============================================================================
