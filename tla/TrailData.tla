----------------------------- MODULE TrailData -----------------------------
(***************************************************************************)
(* One data point of an evidence trail, and the verdict of                 *)
(* trend --fail-on-regression on a history of them.  Of a record only what *)
(* orders it (CreatedAt) and what the gate reads (ScorePct) is kept.       *)
(***************************************************************************)
EXTENDS Naturals, Sequences

CONSTANTS
    MaxStamp,  \* bound: ticks of the wall clock
    Scores     \* ScorePct values

ConstantsOK == MaxStamp \in Nat /\ Scores \subseteq 0 .. 100

EvidenceRecord == [stamp : 1 .. MaxStamp, score : Scores]

\* The latest score is below the one before it.
Regressed(h) == Len(h) >= 2 /\ h[Len(h)].score < h[Len(h) - 1].score

TrendExit(h) == IF Regressed(h) THEN "3" ELSE "0"

=============================================================================
