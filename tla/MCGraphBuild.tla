---------------------------- MODULE MCGraphBuild ----------------------------
(***************************************************************************)
(* Inputs for GraphBuild.  The findings are chosen so that everything the  *)
(* loop distinguishes happens: one place reported twice, one asset under   *)
(* two classes, one key at two severities (TLS 1.0 is medium in a config   *)
(* file and high on a live endpoint), two assets the sort ties, and two    *)
(* agents whose passports share a key (both declare no attestation).       *)
(***************************************************************************)
EXTENDS GraphBuild

CONSTANTS rsa, tls10, x509, noAttestation, qv, misconfig, expired, none,
          here, there, a1, a2, nobody

F(asset, class, sev, occ, agent) ==
    [asset |-> asset, class |-> class, sev |-> sev, occ |-> occ, agent |-> agent]

MCInput ==
    { F(rsa, qv, 4, here, nobody),
      F(rsa, qv, 4, there, nobody),
      F(rsa, expired, 4, here, nobody),
      F(tls10, misconfig, 3, here, nobody),
      F(tls10, misconfig, 4, there, nobody),
      F(noAttestation, misconfig, 3, here, a1),
      F(noAttestation, misconfig, 3, there, a2),
      F(x509, none, 0, here, a1) }

MCRank == [a \in {rsa, tls10, x509, noAttestation} |-> IF a = rsa THEN 1 ELSE 2]

=============================================================================
