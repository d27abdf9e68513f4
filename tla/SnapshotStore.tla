--------------------------- MODULE SnapshotStore ---------------------------
(***************************************************************************)
(* What the Store interface promises to the runs that share one target: a  *)
(* single cell holding a whole snapshot or nothing.  Save takes effect at  *)
(* one instant or not at all, Load sees the cell at one instant, and a     *)
(* killed run does at most what it had started.                            *)
(*                                                                         *)
(* The two backends keep different snapshots when saves race: the JSON     *)
(* file keeps the last one written, the Postgres tables hand out the one   *)
(* taken last.  KeepNewest tells them apart.                               *)
(***************************************************************************)
EXTENDS Naturals

CONSTANTS
    Client,      \* the runs (processes) that share the target
    Snapshot,    \* the snapshots they may save
    None,        \* nothing saved yet; not in Snapshot
    Taken,       \* Taken[s] \in Nat: Snapshot.CreatedAt
    KeepNewest   \* the cell prefers the snapshot taken last

VARIABLES
    value,    \* the snapshot a Load would return now
    call,     \* what each client is doing
    arg,      \* the snapshot a client is saving
    got,      \* what a client's last Load observed, None if it failed
    outcome   \* how a client's last call ended

vars == <<value, call, arg, got, outcome>>

Outcome == {"none", "ok", "notfound", "error", "killed"}

Init ==
    /\ value \in Snapshot \cup {None}
    /\ call = [c \in Client |-> "ready"]
    /\ arg = [c \in Client |-> None]
    /\ got = [c \in Client |-> None]
    /\ outcome = [c \in Client |-> "none"]

Return(c, o) ==
    /\ call' = [call EXCEPT ![c] = "ready"]
    /\ outcome' = [outcome EXCEPT ![c] = o]

Save(c, s) ==
    /\ call[c] = "ready"
    /\ call' = [call EXCEPT ![c] = "saving"]
    /\ arg' = [arg EXCEPT ![c] = s]
    /\ UNCHANGED <<value, got, outcome>>

\* The instant a save takes effect.
Publish(s) ==
    \/ /\ value' = s
       /\ KeepNewest /\ value # None => Taken[s] >= Taken[value]
    \/ /\ KeepNewest /\ value # None
       /\ Taken[value] >= Taken[s]
       /\ UNCHANGED value

\* The save took effect; the caller learns so ("ok") or does not.
Commit(c) ==
    /\ call[c] = "saving"
    /\ Publish(arg[c])
    /\ \E o \in {"ok", "error", "killed"} : Return(c, o)
    /\ UNCHANGED <<arg, got>>

Load(c) ==
    /\ call[c] = "ready"
    /\ call' = [call EXCEPT ![c] = "loading"]
    /\ UNCHANGED <<value, arg, got, outcome>>

Observe(c) ==
    /\ call[c] = "loading"
    /\ got' = [got EXCEPT ![c] = value]
    /\ call' = [call EXCEPT ![c] = "observed"]
    /\ UNCHANGED <<value, arg, outcome>>

Answer(c) ==
    /\ call[c] = "observed"
    /\ Return(c, IF got[c] = None THEN "notfound" ELSE "ok")
    /\ UNCHANGED <<value, arg, got>>

\* The call fails, or the process is killed in it, without any effect; a
\* failed Load returns no snapshot.
Abandon(c) ==
    /\ call[c] # "ready"
    /\ \E o \in {"error", "killed"} : Return(c, o)
    /\ got' = IF call[c] = "saving" THEN got ELSE [got EXCEPT ![c] = None]
    /\ UNCHANGED <<value, arg>>

Next ==
    \E c \in Client :
        \/ \E s \in Snapshot : Save(c, s)
        \/ Commit(c)
        \/ Load(c)
        \/ Observe(c)
        \/ Answer(c)
        \/ Abandon(c)

Spec == Init /\ [][Next]_vars

=============================================================================
