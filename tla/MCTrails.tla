------------------------------ MODULE MCTrails ------------------------------
(* Two processes; three records, so that in the file a torn line can have a *)
(* record on both sides, and that in the table an INSERT can be overtaken   *)
(* by one taken later and by one taken at the same time.                    *)
EXTENDS Targets, TLC

CONSTANTS c1, c2

MCClient == {c1, c2}
MCScores == {40, 60}

MCSnapshot == {"s"}
MCTaken    == [s \in MCSnapshot |-> 1]

Alike == Permutations(MCClient)

=============================================================================
