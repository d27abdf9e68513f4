----------------------------- MODULE RiskRules -----------------------------
(***************************************************************************)
(* The rules qryx grades an asset by, each a table or a switch in a        *)
(* package of its own: the risk classifier (risk), the CNSA 2.0 audit and  *)
(* the NCSC milestones (report), the migration target and its difficulty   *)
(* (agility), and the builtin "cnsa" policy (policy).  Nothing ties the    *)
(* tables to one another but that they are about the same assets.          *)
(*                                                                         *)
(* An algorithm name is the text a detector writes.  The packages fold the *)
(* case and the dashes of a name each in their own way; on the names that  *)
(* detectors write this matters for Normalize only.                        *)
(***************************************************************************)
EXTENDS Integers, Sequences, SequencesExt

Asset == [type : STRING, algo : STRING, size : Nat, prim : STRING]

-----------------------------------------------------------------------------
(* risk.NormalizeAlgorithm and risk.Classify.                              *)

\* "SHA-384" begins with "SHA-3".
Normalize(algo) ==
    CASE algo \in {"SHA3", "SHA-384"} -> "SHA3"
      [] algo = "Ed25519"             -> "ED25519"
      [] algo = "ChaCha20"            -> "CHACHA20"
      [] OTHER                        -> algo

QuantumVulnerable == {"RSA", "ECDSA", "ECDH", "ECC", "DH", "DSA", "ED25519"}

Weak == {"MD5", "MD4", "SHA-1", "DES", "3DES", "RC4", "RC2", "BLOWFISH"}

NoRisk   == 0
Low      == 2
Medium   == 3
High     == 4
Critical == 5

Baseline(algo) ==
    CASE algo = "BLOWFISH"           -> Low
      [] algo \in {"ED25519", "3DES"} -> Medium
      [] OTHER                       -> High

\* An algorithm in neither set is acceptable or unknown: the table tells the
\* two apart, Classify does not.
Classify(a) ==
    LET n == Normalize(a.algo)
    IN  IF n = "RSA" /\ a.size \in 1 .. 2047
          THEN [class |-> "weak", sev |-> Critical]
        ELSE IF n \in QuantumVulnerable
          THEN [class |-> "quantum-vulnerable", sev |-> Baseline(n)]
        ELSE IF n \in Weak
          THEN [class |-> "weak", sev |-> Baseline(n)]
        ELSE [class |-> "none", sev |-> NoRisk]

-----------------------------------------------------------------------------
(* report.cnsaStatus.                                                      *)

Verdict(status, deadline) == [status |-> status, deadline |-> deadline]

Compliant   == Verdict("compliant", "n/a")
NotAssessed == Verdict("not-assessed", "n/a")
Immediate   == Verdict("non-compliant", "immediate")

ByAlgorithm(a) ==
    CASE a.algo \in {"ML-KEM", "ML-DSA", "SLH-DSA", "SHA-384", "SHA-512"} -> Compliant
      [] a.algo = "AES" /\ a.size = 0          -> NotAssessed
      [] a.algo = "AES" /\ a.size >= 256       -> Compliant
      [] a.algo = "AES" /\ a.size \in 1 .. 255 -> Immediate
      [] OTHER                                 -> NotAssessed

\* What is wrong with the asset comes first, then the risk of its algorithm,
\* and the algorithm itself last.
CnsaStatus(class, a) ==
    CASE class \in {"expired", "hardcoded", "misconfig"} -> Verdict("issue", "immediate")
      [] class = "quantum-vulnerable" -> Verdict("non-compliant", "2030")
      [] class = "weak"               -> Immediate
      [] OTHER                        -> ByAlgorithm(a)

-----------------------------------------------------------------------------
(* agility.target and dominantAgility.                                     *)

\* Mutant: the switch does not know Ed25519.
TargetWithoutEd25519(a) ==
    CASE a.algo = "RSA" -> IF a.prim \in {"signature", "unknown"} THEN "ML-DSA" ELSE "ML-KEM"
      [] a.algo \in {"ECDSA", "DSA"} -> "ML-DSA"
      [] a.algo \in {"ECDH", "DH", "ECC"} -> "ML-KEM"
      [] a.algo \in {"MD5", "SHA-1"} -> "SHA-256"
      [] a.algo \in {"DES", "3DES", "RC4"} -> "AES-256"
      [] a.algo = "AES" /\ a.size < 256 -> "AES-256"
      [] OTHER -> ""

\* What to migrate to, "" for an asset that needs no migration.
Target(a) ==
    CASE a.algo = "RSA" -> IF a.prim \in {"signature", "unknown"} THEN "ML-DSA" ELSE "ML-KEM"
      [] a.algo \in {"ECDSA", "DSA", "Ed25519", "ED25519"} -> "ML-DSA"
      [] a.algo \in {"ECDH", "DH", "ECC"}  -> "ML-KEM"
      [] a.algo \in {"MD5", "SHA-1"}       -> "SHA-256"
      [] a.algo \in {"DES", "3DES", "RC4"} -> "AES-256"
      [] a.algo = "AES" /\ a.size < 256    -> "AES-256"
      [] OTHER                             -> ""

\* How easily a finding's source can be changed: 2 for a managed key store, 1
\* for configuration, 0 for code and for a source the table does not know.
SourceAgility(source) ==
    CASE source \in {"aws-kms", "gcp-kms", "azure-keyvault"} -> 2
      [] source \in {"aws-acm", "tls-probe", "tlsconfig", "certfile", "deps",
                     "terraform", "agentstack"} -> 1
      [] OTHER -> 0

\* The least agile occurrence decides.
DominantAgility(occ) ==
    IF occ = <<>> THEN 0
    ELSE FoldLeft(LAMBDA level, o : IF SourceAgility(o.source) < level
                                      THEN SourceAgility(o.source) ELSE level,
                  SourceAgility(occ[1].source), occ)

-----------------------------------------------------------------------------
(* policy.Evaluate with the builtin policy "cnsa", for one node.           *)

\* Mutant: the builtin policy does not list 3DES.
ForbiddenWithout3DES == {"MD5", "MD4", "SHA-1", "DES", "RC4", "RC2", "DSA"}

ForbidAlgorithms == {"MD5", "MD4", "SHA-1", "DES", "3DES", "RC4", "RC2", "DSA"}

Violates(class, a) ==
    \/ \E f \in ForbidAlgorithms : Normalize(f) = Normalize(a.algo)
    \/ Normalize(a.algo) = "RSA" /\ a.size \in 1 .. 3071
    \/ class \in {"hardcoded", "expired", "misconfig"}

-----------------------------------------------------------------------------
(* model.AssetType.IsCryptographic, and the 2031 milestone's subset.       *)

IsCryptographic(type) ==
    type \in {"algorithm", "key", "certificate", "protocol", "library"}

\* Seen on a live endpoint, or protecting data that can be recorded now and
\* decrypted later.
IsHighestPriority(n) ==
    /\ n.class = "quantum-vulnerable"
    /\ \/ \E o \in ToSet(n.occ) : o.source \in {"tls-probe", "aws-acm"}
       \/ n.asset.prim \in {"encryption", "key-exchange"}
       \/ \E o \in ToSet(n.occ) : o.prim \in {"encryption", "key-exchange"}

=============================================================================
