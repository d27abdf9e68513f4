------------------------- MODULE MCEvidenceDocument -------------------------
(* Two users of qryx and somebody else, with keys of every kind.            *)
EXTENDS EvidenceDocument, TLC

MCKey     == {"alice", "bob", "carol", "old"}
MCAlg     == "alice" :> "ed25519" @@ "bob" :> "ml-dsa-44" @@
             "carol" :> "ml-dsa-65" @@ "old" :> "rsa"
MCSigners == {"alice", "bob"}
=============================================================================
