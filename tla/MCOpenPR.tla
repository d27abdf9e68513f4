------------------------------ MODULE MCOpenPR ------------------------------
(* Two files with weak keys and one without, so that a run can stop between *)
(* two writes and next to unrelated edits; two edits; two branches beside   *)
(* the main one, so that a failed run can be followed by another.           *)
EXTENDS OpenPR, TLC

CONSTANTS weak1, weak2, other, u1, u2, main, b1, b2

MCFile   == {weak1, weak2, other}
MCWeak   == {weak1, weak2}
MCEdit   == {u1, u2}
MCBranch == {main, b1, b2}

\* The scan root is the directory qryx runs in.
SameDirectory == [f \in MCFile |-> f]

Everything == {"edit", "stage", "publish", "switch"}

Symmetry ==
    Permutations(MCWeak) \cup Permutations(MCEdit) \cup Permutations({b1, b2})

=============================================================================
