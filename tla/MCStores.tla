------------------------------ MODULE MCStores ------------------------------
(* Two processes; for the file two snapshots, enough for two saves and a   *)
(* load to race, and for the tables two assets.  Nothing tells the two     *)
(* processes apart, nor the two assets, and no property is a liveness      *)
(* property.                                                               *)
EXTENDS Targets, TLC

CONSTANTS c1, c2, s1, s2, rsa, md5

MCClient   == {c1, c2}
MCSnapshot == {s1, s2}
MCAsset    == {rsa, md5}
MCTaken    == [s \in {s1, s2} |-> IF s = s1 THEN 1 ELSE 2]

Alike == Permutations(MCClient) \cup Permutations(MCAsset)

=============================================================================
