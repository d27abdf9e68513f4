----------------------------- MODULE MCEventLog -----------------------------
(* An agent with two passports that declare the same kind of certificate, a *)
(* log beside them, and a policy against that kind.                         *)
EXTENDS EventLog, TLC

MCScanned == << [id |-> "a", method |-> "mtls-cert"],
                [id |-> "nobody", method |-> "stream"],
                [id |-> "a", method |-> "spiffe-svid"] >>

MCAsked == { {"sign"}, {"drift", "policy"} }

Alike == Permutations(Run)
=============================================================================
