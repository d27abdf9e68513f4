----------------------- MODULE ComplianceReportProofs -----------------------
(***************************************************************************)
(* The reports agree with one another, and hide no finding, for every scan *)
(* of any length: what the runs check on the findings of MCComplianceReport *)
(* holds for whatever detectors write, as long as InputAssumption does.    *)
(***************************************************************************)
EXTENDS ComplianceReport, FiniteSetTheorems, TLAPS

\* A finding that risk.Apply has seen, or that needed no risk.
Graded == {f \in Finding : f.class # ""}

\* The findings, and how far the loops have come.
Scanned ==
    /\ findings \in Seq(Finding)
    /\ pc \in {"apply", "build", "report"}
    /\ i \in 0 .. Len(findings)
    /\ \A j \in 1 .. Len(findings) : j <= i \/ pc # "apply" => findings[j] \in Graded

\* A node is a finding of its key, and every finding read has a node.
Collected ==
    /\ \A k \in DOMAIN nodes :
          /\ nodes[k].asset \in Detected
          /\ nodes[k].class \in Class
          /\ KeyOf(nodes[k]) = k
    /\ \A j \in 1 .. Len(findings) :
          (pc = "build" /\ j <= i) \/ pc = "report" => KeyOf(findings[j]) \in DOMAIN nodes

\* A report that is written says what the nodes say.
Written ==
    /\ cnsa # Unwritten => pc = "report" /\ cnsa.entries = Entries
    /\ plan # Unwritten => pc = "report" /\ DOMAIN plan = ToMigrate
    /\ violated # Unwritten =>
          /\ pc = "report"
          /\ violated = {k \in DOMAIN nodes : Violates(nodes[k].class, nodes[k].asset)}

IInv == Scanned /\ Collected /\ Written

-----------------------------------------------------------------------------
(* The rules.                                                              *)

LEMMA ClassifyType ==
    ASSUME NEW a \in Asset
    PROVE  /\ Classify(a).class \in {"weak", "quantum-vulnerable", "none"}
           /\ Classify(a).sev \in 0 .. 5
BY DEF Classify, Baseline, NoRisk, Low, Medium, High, Critical

LEMMA ClassifiedType ==
    ASSUME NEW f \in Finding
    PROVE  /\ Classified(f) \in Finding
           /\ Classified(f).asset = f.asset
           /\ Classified(f) \in Graded
<1> DEFINE r == Classify(f.asset)
<1>1. f.asset \in Asset
  BY DEF Finding, Detected
<1>2. r.class \in {"weak", "quantum-vulnerable", "none"} /\ r.sev \in 0 .. 5
  BY <1>1, ClassifyType
<1>3. CASE f.class # ""
  BY <1>3 DEF Classified, Graded
<1>4. CASE f.class = ""
  <2>1. Classified(f) = [f EXCEPT !.class = r.class, !.sev = r.sev]
    BY <1>4 DEF Classified
  <2>2. r.class \in Class /\ r.class # ""
    BY <1>2 DEF Class
  <2> HIDE DEF r
  <2> QED
    BY <2>1, <2>2, <1>2 DEF Finding, Graded
<1> QED
  BY <1>3, <1>4

\* A verdict other than the one of an algorithm depends on the key only, and so
\* does a bad verdict of an algorithm.
LEMMA BadStatusIsOfKey ==
    ASSUME NEW a \in Asset, NEW b \in Asset, NEW class \in Class,
           Normalize(a.algo) = Normalize(b.algo), a.size = b.size,
           CnsaStatus(class, a).status \in {"issue", "non-compliant"}
    PROVE  CnsaStatus(class, b) = CnsaStatus(class, a)
<1>1. CASE class \in {"expired", "hardcoded", "misconfig", "quantum-vulnerable", "weak"}
  BY <1>1 DEF CnsaStatus
<1>2. CASE class \in {"", "none"}
  <2>1. CnsaStatus(class, a) = ByAlgorithm(a) /\ CnsaStatus(class, b) = ByAlgorithm(b)
    BY <1>2 DEF CnsaStatus
  <2>2. a.algo = "AES" /\ a.size \in 1 .. 255
    BY <2>1 DEF ByAlgorithm, Compliant, NotAssessed, Immediate, Verdict
  <2>3. b.algo = "AES" /\ b.size \in 1 .. 255
    BY <2>2 DEF Normalize
  <2> QED
    BY <2>1, <2>2, <2>3 DEF ByAlgorithm
<1> QED
  BY <1>1, <1>2 DEF Class

LEMMA VerdictKinds ==
    /\ \A v : v = Compliant \/ v = NotAssessed =>
          v.status # "non-compliant" /\ v.deadline # "immediate"
    /\ Compliant.status = "compliant"
    /\ NotAssessed.status # "compliant"
    /\ Immediate.status # "compliant"
BY DEF Compliant, NotAssessed, Immediate, Verdict

\* Of what detectors write, no algorithm is bad by the CNSA table alone.
LEMMA AlgorithmNeverBad ==
    ASSUME NEW a \in Asset, a.algo = "AES" => a.size \in {0, 256}
    PROVE  ByAlgorithm(a) = Compliant \/ ByAlgorithm(a) = NotAssessed
<1>1. CASE a.algo = "AES" /\ a.size = 0
  BY <1>1 DEF ByAlgorithm
<1>2. CASE a.algo = "AES" /\ a.size = 256
  BY <1>2 DEF ByAlgorithm
<1>3. CASE a.algo # "AES"
  BY <1>3 DEF ByAlgorithm
<1> QED
  BY <1>1, <1>2, <1>3

LEMMA PlainStatus ==
    ASSUME NEW a \in Asset, NEW class \in {"", "none"}
    PROVE  CnsaStatus(class, a) = ByAlgorithm(a)
BY DEF CnsaStatus

\* What is not compliant because of its algorithm has a target, and what is
\* compliant has none.
LEMMA TargetsAgree ==
    ASSUME NEW a \in Detected, NEW class \in Class
    PROVE  /\ CnsaStatus(class, a).status = "non-compliant" /\ class = Classify(a).class
                 => Target(a) # ""
           /\ CnsaStatus(class, a).status = "compliant" => Target(a) = ""
<1>1. ASSUME CnsaStatus(class, a).status = "non-compliant", class = Classify(a).class
      PROVE  Target(a) # ""
  <2>1. CASE class \in {"quantum-vulnerable", "weak"}
    <3>1. Normalize(a.algo) \in QuantumVulnerable \cup Weak
      <4> DEFINE n == Normalize(a.algo)
                 short == a.size \in 1 .. 2047
      <4> HIDE DEF n
      <4>1. Classify(a) =
              IF n = "RSA" /\ short
                THEN [class |-> "weak", sev |-> Critical]
              ELSE IF n \in QuantumVulnerable
                THEN [class |-> "quantum-vulnerable", sev |-> Baseline(n)]
              ELSE IF n \in Weak
                THEN [class |-> "weak", sev |-> Baseline(n)]
              ELSE [class |-> "none", sev |-> NoRisk]
        BY Zenon DEF Classify, n
      <4> HIDE DEF short
      <4>2. "RSA" \in QuantumVulnerable
        BY DEF QuantumVulnerable
      <4>3. Classify(a).class # "none"
        BY <1>1, <2>1
      <4>4. n \in QuantumVulnerable \cup Weak
        BY <4>1, <4>2, <4>3
      <4> QED
        BY <4>4 DEF n
    <3>2. a.algo \in {"RSA", "ECDSA", "ECDH", "ECC", "DH", "DSA", "ED25519", "Ed25519",
                      "MD5", "SHA-1", "DES", "3DES", "RC4"}
      <4>1. Normalize(a.algo) \notin {"MD4", "RC2", "BLOWFISH"}
        BY DEF Detected
      <4>2. Normalize(a.algo) \in {"RSA", "ECDSA", "ECDH", "ECC", "DH", "DSA", "ED25519",
                                  "MD5", "SHA-1", "DES", "3DES", "RC4"}
        BY <3>1, <4>1 DEF QuantumVulnerable, Weak
      <4>3. a.algo = "Ed25519" \/ Normalize(a.algo) = a.algo \/ Normalize(a.algo) \in {"SHA3", "CHACHA20"}
        BY DEF Normalize
      <4> DEFINE n == Normalize(a.algo)
      <4> HIDE DEF n
      <4> QED
        BY <4>2, <4>3 DEF n
    <3> QED
      BY <3>2 DEF Target
  <2>2. CASE class \in {"", "none"}
    <3> DEFINE v == CnsaStatus(class, a)
    <3>1. v = Compliant \/ v = NotAssessed
      BY <2>2, PlainStatus, AlgorithmNeverBad DEF Detected
    <3>2. v.status = "non-compliant"
      BY <1>1
    <3> HIDE DEF v
    <3> QED
      BY <3>1, <3>2, VerdictKinds
  <2>3. CASE class \in {"expired", "hardcoded", "misconfig"}
    BY <1>1, <2>3 DEF CnsaStatus, Verdict
  <2> QED
    BY <2>1, <2>2, <2>3 DEF Class
<1>2. ASSUME CnsaStatus(class, a).status = "compliant"
      PROVE  Target(a) = ""
  <2>1. CnsaStatus(class, a) = ByAlgorithm(a)
    BY <1>2 DEF CnsaStatus, Verdict, Immediate
  <2>2. \/ a.algo \in {"ML-KEM", "ML-DSA", "SLH-DSA", "SHA-384", "SHA-512"}
        \/ a.algo = "AES" /\ a.size >= 256
    BY <1>2, <2>1 DEF ByAlgorithm, Compliant, NotAssessed, Immediate, Verdict
  <2> QED
    BY <2>2 DEF Target, Detected, Asset
<1> QED
  BY <1>1, <1>2

\* The builtin policy stops at whatever is due immediately, other than what a
\* detector asserted to be weak, and at nothing compliant.
LEMMA PolicyAgrees ==
    ASSUME NEW a \in Detected, NEW class \in Class
    PROVE  /\ CnsaStatus(class, a).deadline = "immediate"
                 => Violates(class, a) \/ (class = "weak" /\ class # Classify(a).class)
           /\ CnsaStatus(class, a).status = "compliant" => ~Violates(class, a)
<1>1. ASSUME CnsaStatus(class, a).deadline = "immediate"
      PROVE  Violates(class, a) \/ (class = "weak" /\ class # Classify(a).class)
  <2>1. CASE class \in {"expired", "hardcoded", "misconfig"}
    BY <2>1 DEF Violates
  <2>2. CASE class = "weak" /\ class = Classify(a).class
    <3>1. \/ Normalize(a.algo) = "RSA" /\ a.size \in 1 .. 2047
          \/ Normalize(a.algo) \in Weak
      BY <2>2 DEF Classify
    <3>2. CASE Normalize(a.algo) = "RSA" /\ a.size \in 1 .. 2047
      BY <3>2 DEF Violates
    <3>3. CASE Normalize(a.algo) \in Weak
      <4>1. Normalize(a.algo) \in {"MD5", "SHA-1", "DES", "3DES", "RC4"}
        BY <3>3 DEF Detected, Weak
      <4>2. \A x \in {"MD5", "SHA-1", "DES", "3DES", "RC4"} :
              x \in ForbidAlgorithms /\ Normalize(x) = x
        BY DEF ForbidAlgorithms, Normalize
      <4> QED
        BY <4>1, <4>2 DEF Violates
    <3> QED
      BY <3>1, <3>2, <3>3
  <2>3. CASE class = "quantum-vulnerable"
    BY <1>1, <2>3 DEF CnsaStatus, Verdict
  <2>4. CASE class \in {"", "none"}
    <3> DEFINE v == CnsaStatus(class, a)
    <3>1. v = Compliant \/ v = NotAssessed
      BY <2>4, PlainStatus, AlgorithmNeverBad DEF Detected
    <3>2. v.deadline = "immediate"
      BY <1>1
    <3> HIDE DEF v
    <3> QED
      BY <3>1, <3>2, VerdictKinds
  <2> QED
    BY <2>1, <2>2, <2>3, <2>4 DEF Class
<1>2. ASSUME CnsaStatus(class, a).status = "compliant"
      PROVE  ~Violates(class, a)
  <2>1. class \in {"", "none"}
    BY <1>2 DEF CnsaStatus, Verdict, Immediate, Class
  <2>2. a.algo \in {"ML-KEM", "ML-DSA", "SLH-DSA", "SHA-384", "SHA-512", "AES"}
    BY <1>2, <2>1 DEF CnsaStatus, ByAlgorithm, Compliant, NotAssessed, Immediate, Verdict
  <2>3. Normalize(a.algo) \in {"ML-KEM", "ML-DSA", "SLH-DSA", "SHA3", "SHA-512", "AES"}
    BY <2>2 DEF Normalize
  <2>4. \A x \in ForbidAlgorithms : Normalize(x) = x
    BY DEF ForbidAlgorithms, Normalize
  <2>5. \A x \in ForbidAlgorithms : Normalize(x) # Normalize(a.algo)
    BY <2>3, <2>4 DEF ForbidAlgorithms
  <2>6. class \notin {"hardcoded", "expired", "misconfig"}
    BY <2>1
  <2>7. Normalize(a.algo) # "RSA"
    BY <2>3
  <2> QED
    BY <2>5, <2>6, <2>7 DEF Violates
<1> QED
  BY <1>1, <1>2

-----------------------------------------------------------------------------
(* IInv holds initially and is preserved.                                  *)

LEMMA InitIInv == Init => IInv
<1> SUFFICES ASSUME Init PROVE IInv
  OBVIOUS
<1>1. PICK n \in 0 .. MaxLen : findings \in [1 .. n -> Input]
  BY DEF Init
<1>2. findings \in Seq(Finding) /\ Len(findings) = n
  BY <1>1, InputAssumption, MaxLenAssumption
<1>4. Scanned
  BY <1>2 DEF Init, Scanned
<1>5. Collected
  BY DEF Init, Collected
<1>6. Written
  BY DEF Init, Written
<1> QED
  BY <1>4, <1>5, <1>6 DEF IInv

\* Nothing is written before the report, and the reports leave the rest alone.
LEMMA NothingWritten ==
    ASSUME IInv, pc # "report"
    PROVE  cnsa = Unwritten /\ plan = Unwritten /\ violated = Unwritten
BY DEF IInv, Written

LEMMA ApplyPreserves == IInv /\ Apply => IInv'
<1> SUFFICES ASSUME IInv, Apply PROVE IInv'
  OBVIOUS
<1>1. /\ findings \in Seq(Finding) /\ i \in 0 .. Len(findings) /\ i + 1 \in 1 .. Len(findings)
      /\ pc = "apply"
  BY DEF IInv, Scanned, Apply
<1>2. /\ Classified(findings[i + 1]) \in Finding
      /\ Classified(findings[i + 1]).asset = findings[i + 1].asset
      /\ Classified(findings[i + 1]) \in Graded
  BY <1>1, ClassifiedType
<1>3. /\ findings' \in Seq(Finding) /\ Len(findings') = Len(findings)
      /\ \A j \in 1 .. Len(findings) :
            findings'[j] = IF j = i + 1 THEN Classified(findings[i + 1]) ELSE findings[j]
  BY <1>1, <1>2 DEF Apply
<1>5. Scanned'
  <2>2. \A j \in 1 .. Len(findings') : j <= i + 1 => findings'[j] \in Graded
    BY <1>1, <1>2, <1>3 DEF IInv, Scanned
  <2> QED
    BY <1>1, <1>3, <2>2 DEF Scanned, Apply
<1>6. Collected'
  BY <1>1 DEF IInv, Collected, Apply
<1>7. Written'
  BY <1>1, NothingWritten DEF Written, Apply, reports
<1> QED
  BY <1>5, <1>6, <1>7 DEF IInv

LEMMA EndApplyPreserves == IInv /\ EndApply => IInv'
<1> SUFFICES ASSUME IInv, EndApply PROVE IInv'
  OBVIOUS
<1>1. Scanned'
  BY DEF IInv, Scanned, EndApply
<1>2. Collected'
  BY DEF IInv, Scanned, Collected, EndApply
<1>3. Written'
  BY NothingWritten DEF Written, EndApply, reports
<1> QED
  BY <1>1, <1>2, <1>3 DEF IInv

LEMMA AddFindingPreserves == IInv /\ AddFinding => IInv'
<1> SUFFICES ASSUME IInv, AddFinding PROVE IInv'
  OBVIOUS
<1> DEFINE f == findings[i + 1]
           k == KeyOf(f)
<1>1. /\ findings \in Seq(Finding) /\ i \in 0 .. Len(findings) /\ i + 1 \in 1 .. Len(findings)
      /\ pc = "build"
  BY DEF IInv, Scanned, AddFinding
<1>2. f \in Finding
  BY <1>1 DEF IInv, Scanned
<1>3. DOMAIN nodes' = DOMAIN nodes \cup {k}
  BY DEF AddFinding
<1>4. \A x \in DOMAIN nodes : x # k => nodes'[x] = nodes[x]
  BY DEF AddFinding
<1>5. /\ nodes'[k].asset \in Detected
      /\ nodes'[k].class \in Class
      /\ KeyOf(nodes'[k]) = k
  <2>1. CASE k \notin DOMAIN nodes
    <3>1. nodes'[k] = [asset |-> f.asset, class |-> f.class, sev |-> f.sev,
                       occ |-> <<Occurrence(f)>>]
      BY <2>1 DEF AddFinding
    <3>2. nodes'[k].asset = f.asset /\ nodes'[k].class = f.class
      BY <3>1
    <3>3. KeyOf(nodes'[k]) = k
      BY <3>2 DEF KeyOf
    <3>4. f.asset \in Detected /\ f.class \in Class
      BY <1>2 DEF Finding
    <3> QED
      BY <3>2, <3>3, <3>4, <1>2
  <2>2. CASE k \in DOMAIN nodes
    <3> DEFINE old == nodes[k]
               class == IF f.sev > old.sev THEN f.class ELSE old.class
    <3>1. /\ old.asset \in Detected
          /\ old.class \in Class
          /\ KeyOf(old) = k
      BY <2>2 DEF IInv, Collected
    <3>2. old.class = f.class
      BY <3>1 DEF KeyOf
    <3>3. nodes'[k] = [asset |-> old.asset, class |-> class,
                       sev   |-> IF f.sev > old.sev THEN f.sev ELSE old.sev,
                       occ   |-> Append(old.occ, Occurrence(f))]
      BY <2>2 DEF AddFinding
    <3>4. nodes'[k].asset = old.asset /\ nodes'[k].class = old.class
      BY <3>2, <3>3
    <3>5. KeyOf(nodes'[k]) = KeyOf(old)
      BY <3>4 DEF KeyOf
    <3> QED
      BY <3>1, <3>4, <3>5
  <2> QED
    BY <2>1, <2>2
<1>6. Collected'
  <2>1. \A x \in DOMAIN nodes' :
          /\ nodes'[x].asset \in Detected
          /\ nodes'[x].class \in Class
          /\ KeyOf(nodes'[x]) = x
    <3> SUFFICES ASSUME NEW x \in DOMAIN nodes'
                 PROVE  /\ nodes'[x].asset \in Detected
                        /\ nodes'[x].class \in Class
                        /\ KeyOf(nodes'[x]) = x
      OBVIOUS
    <3>1. CASE x = k
      BY <3>1, <1>5
    <3>2. CASE x # k
      BY <3>2, <1>3, <1>4 DEF IInv, Collected
    <3> QED
      BY <3>1, <3>2
  <2>2. \A j \in 1 .. Len(findings) : j <= i + 1 => KeyOf(findings[j]) \in DOMAIN nodes'
    <3> SUFFICES ASSUME NEW j \in 1 .. Len(findings), j <= i + 1
                 PROVE  KeyOf(findings[j]) \in DOMAIN nodes'
      OBVIOUS
    <3>1. CASE j = i + 1
      BY <3>1, <1>3
    <3>2. CASE j # i + 1
      <4>1. j <= i
        BY <3>2, <1>1
      <4> QED
        BY <4>1, <1>1, <1>3 DEF IInv, Collected
    <3> QED
      BY <3>1, <3>2
  <2>3. findings' = findings /\ i' = i + 1 /\ pc' = "build"
    BY <1>1 DEF AddFinding
  <2> QED
    BY <2>1, <2>2, <2>3 DEF Collected
<1>7. Scanned'
  BY <1>1 DEF IInv, Scanned, AddFinding
<1>8. Written'
  BY <1>1, NothingWritten DEF Written, AddFinding, reports
<1> QED
  BY <1>6, <1>7, <1>8 DEF IInv

LEMMA EndBuildPreserves == IInv /\ EndBuild => IInv'
<1> SUFFICES ASSUME IInv, EndBuild PROVE IInv'
  OBVIOUS
<1>1. Scanned'
  BY DEF IInv, Scanned, EndBuild
<1>2. Collected'
  BY DEF IInv, Scanned, Collected, EndBuild
<1>3. Written'
  BY NothingWritten DEF Written, EndBuild, reports
<1> QED
  BY <1>1, <1>2, <1>3 DEF IInv

\* What a report leaves alone.
LEMMA ReportsOnlyRead ==
    ASSUME IInv, UNCHANGED <<findings, pc, i, nodes>>
    PROVE  /\ Scanned' /\ Collected'
           /\ Entries' = Entries
           /\ ToMigrate' = ToMigrate
           /\ {k \in DOMAIN nodes : Violates(nodes[k].class, nodes[k].asset)}'
                = {k \in DOMAIN nodes : Violates(nodes[k].class, nodes[k].asset)}
<1>1. Scanned'
  BY DEF IInv, Scanned
<1>2. Collected'
  BY DEF IInv, Collected
<1>3. Entries' = Entries
  BY DEF Entries, Audited, CryptographicNodes
<1>4. ToMigrate' = ToMigrate
  BY DEF ToMigrate
<1> QED
  BY <1>1, <1>2, <1>3, <1>4

LEMMA ReportsPreserve ==
    IInv /\ (Audit \/ Migration \/ EvaluatePolicy \/ Readiness) => IInv'
<1> SUFFICES ASSUME IInv, Audit \/ Migration \/ EvaluatePolicy \/ Readiness
             PROVE  IInv'
  OBVIOUS
<1>1. UNCHANGED <<findings, pc, i, nodes>> /\ pc = "report"
  BY DEF Audit, Migration, EvaluatePolicy, Readiness
<1>2. Scanned' /\ Collected'
  BY <1>1, ReportsOnlyRead
<1>3. Written'
  <2>1. CASE Audit
    <3>1. cnsa'.entries = Entries
      BY <2>1 DEF Audit
    <3> QED
      BY <2>1, <3>1, <1>1, ReportsOnlyRead DEF Audit, IInv, Written
  <2>2. CASE Migration
    <3>1. DOMAIN plan' = ToMigrate
      BY <2>2 DEF Migration
    <3> QED
      BY <2>2, <3>1, <1>1, ReportsOnlyRead DEF Migration, IInv, Written
  <2>3. CASE EvaluatePolicy
    BY <2>3, <1>1, ReportsOnlyRead DEF EvaluatePolicy, IInv, Written
  <2>4. CASE Readiness
    BY <2>4, <1>1, ReportsOnlyRead DEF Readiness, IInv, Written
  <2> QED
    BY <2>1, <2>2, <2>3, <2>4
<1> QED
  BY <1>2, <1>3 DEF IInv

LEMMA StutterPreserves == IInv /\ UNCHANGED vars => IInv'
<1> SUFFICES ASSUME IInv, UNCHANGED vars PROVE IInv'
  OBVIOUS
<1>1. Scanned' /\ Collected'
  BY ReportsOnlyRead DEF vars
<1>2. Written'
  BY ReportsOnlyRead DEF IInv, Written, vars
<1> QED
  BY <1>1, <1>2 DEF IInv

LEMMA IInvHolds == Spec => []IInv
<1>1. Init => IInv
  BY InitIInv
<1>2. IInv /\ [Next]_vars => IInv'
  BY ApplyPreserves, EndApplyPreserves, AddFindingPreserves, EndBuildPreserves,
     ReportsPreserve, StutterPreserves DEF Next
<1> QED
  BY <1>1, <1>2, PTL DEF Spec

-----------------------------------------------------------------------------
(* The theorems.                                                           *)

\* What an entry of the audit says, and the keys that have one.
LEMMA EntryOf ==
    ASSUME IInv, cnsa # Unwritten
    PROVE  /\ DOMAIN cnsa.entries = {k \in DOMAIN nodes : IsCryptographic(nodes[k].asset.type)}
           /\ \A k \in DOMAIN cnsa.entries :
                 cnsa.entries[k] = CnsaStatus(nodes[k].class, nodes[k].asset)
BY DEF IInv, Written, Entries, Audited, CryptographicNodes

\* No finding that is an issue or not compliant is hidden by another one of its
\* key, for any scan: buildEntries of cnsa.go over the nodes of graph.Build.
THEOREM NothingHidden == Spec => []NoBadFindingHidden
<1>1. IInv => NoBadFindingHidden
  <2> SUFFICES ASSUME IInv, cnsa # Unwritten,
                      NEW f \in Cryptographic, Own(f).status \in {"issue", "non-compliant"}
               PROVE  KeyOf(f) \in DOMAIN cnsa.entries /\ cnsa.entries[KeyOf(f)] = Own(f)
    BY DEF NoBadFindingHidden
  <2>1. PICK j \in DOMAIN findings : f = findings[j] /\ IsCryptographic(f.asset.type)
    BY DEF Cryptographic
  <2>2. /\ findings \in Seq(Finding) /\ pc = "report"
        /\ j \in 1 .. Len(findings)
    BY <2>1 DEF IInv, Scanned, Written
  <2>3. f \in Finding /\ f.class # ""
    BY <2>1, <2>2 DEF IInv, Scanned, Graded
  <2>4. Own(f) = CnsaStatus(f.class, f.asset)
    BY <2>3 DEF Own, Classified
  <2> DEFINE k == KeyOf(f)
             n == nodes[k]
  <2>5. k \in DOMAIN nodes
    BY <2>1, <2>2 DEF IInv, Collected
  <2>6. n.asset \in Detected /\ KeyOf(n) = KeyOf(f)
    BY <2>5 DEF IInv, Collected
  <2>7. /\ n.asset.type = f.asset.type /\ n.asset.size = f.asset.size
        /\ Normalize(n.asset.algo) = Normalize(f.asset.algo)
        /\ n.class = f.class
    BY <2>6 DEF KeyOf
  <2>8. k \in DOMAIN cnsa.entries /\ cnsa.entries[k] = CnsaStatus(n.class, n.asset)
    BY <2>1, <2>5, <2>7, EntryOf
  <2>9. f.asset \in Asset /\ f.class \in Class
    BY <2>3 DEF Finding, Detected
  <2>10. CnsaStatus(f.class, n.asset) = CnsaStatus(f.class, f.asset)
    BY <2>4, <2>6, <2>7, <2>9, BadStatusIsOfKey DEF Detected
  <2> QED
    BY <2>4, <2>7, <2>8, <2>10
<1> QED
  BY <1>1, IInvHolds, PTL

\* The migration plan has a step for every asset that is not compliant because
\* of its algorithm and for none that is compliant: agility.target against
\* cnsaStatus.
THEOREM PlanAgrees == Spec => []PlanMatchesAudit
<1>1. IInv => PlanMatchesAudit
  <2> SUFFICES ASSUME IInv, cnsa # Unwritten, plan # Unwritten,
                      NEW k \in DOMAIN cnsa.entries
               PROVE  /\ cnsa.entries[k].status = "non-compliant" /\ OfAlgorithm(nodes[k])
                            => k \in DOMAIN plan
                      /\ cnsa.entries[k].status = "compliant" => k \notin DOMAIN plan
    BY DEF PlanMatchesAudit
  <2>1. /\ k \in DOMAIN nodes
        /\ cnsa.entries[k] = CnsaStatus(nodes[k].class, nodes[k].asset)
    BY EntryOf
  <2>2. nodes[k].asset \in Detected /\ nodes[k].class \in Class
    BY <2>1 DEF IInv, Collected
  <2>3. k \in DOMAIN plan <=> Target(nodes[k].asset) # ""
    BY <2>1 DEF IInv, Written, ToMigrate
  <2> QED
    BY <2>1, <2>2, <2>3, TargetsAgree DEF OfAlgorithm
<1> QED
  BY <1>1, IInvHolds, PTL

\* The builtin policy stops at whatever the audit wants fixed immediately, but
\* for what a detector asserted to be weak, and at nothing compliant:
\* policy.Evaluate against cnsaStatus.
THEOREM PolicyAgreesWithAudit == Spec => []PolicyMatchesAudit
<1>1. IInv => PolicyMatchesAudit
  <2> SUFFICES ASSUME IInv, cnsa # Unwritten, violated # Unwritten,
                      NEW k \in DOMAIN cnsa.entries
               PROVE  /\ cnsa.entries[k].deadline = "immediate"
                            => \/ k \in violated
                               \/ nodes[k].class = "weak" /\ ~OfAlgorithm(nodes[k])
                      /\ cnsa.entries[k].status = "compliant" => k \notin violated
    BY DEF PolicyMatchesAudit
  <2>1. /\ k \in DOMAIN nodes
        /\ cnsa.entries[k] = CnsaStatus(nodes[k].class, nodes[k].asset)
    BY EntryOf
  <2>2. nodes[k].asset \in Detected /\ nodes[k].class \in Class
    BY <2>1 DEF IInv, Collected
  <2>3. k \in violated <=> Violates(nodes[k].class, nodes[k].asset)
    BY <2>1 DEF IInv, Written
  <2> QED
    BY <2>1, <2>2, <2>3, PolicyAgrees DEF OfAlgorithm
<1> QED
  BY <1>1, IInvHolds, PTL

-----------------------------------------------------------------------------
(* What the score and the milestones rest on: where a node comes from, and  *)
(* what they count.                                                         *)

\* A node shows the asset of one of its findings.
Sourced ==
    /\ pc = "apply" => nodes = <<>>
    /\ \A k \in DOMAIN nodes : \E j \in 1 .. Len(findings) :
          /\ findings[j] \in Graded
          /\ KeyOf(findings[j]) = k
          /\ nodes[k].asset = findings[j].asset /\ nodes[k].class = findings[j].class

\* Only what Shor's algorithm breaks is called quantum-vulnerable.
SaysQuantum(f) ==
    f.class = "quantum-vulnerable" => Normalize(f.asset.algo) \in QuantumVulnerable

Quantum == \A j \in 1 .. Len(findings) : SaysQuantum(findings[j])

Counted ==
    /\ IsFiniteSet(DOMAIN nodes)
    /\ cnsa # Unwritten => cnsa.score = ScorePct(Entries)
    /\ ncsc # Unwritten => pc = "report" /\ ncsc = Milestones

CountInv == Sourced /\ Quantum /\ Counted

LEMMA ClassifySaysQuantum ==
    ASSUME NEW f \in Finding, SaysQuantum(f)
    PROVE  SaysQuantum(Classified(f))
<1> DEFINE r == Classify(f.asset)
<1>1. CASE f.class # ""
  BY <1>1 DEF Classified
<1>2. CASE f.class = ""
  <2>1. Classified(f) = [f EXCEPT !.class = r.class, !.sev = r.sev]
    BY <1>2 DEF Classified
  <2>2. Classified(f).class = r.class /\ Classified(f).asset = f.asset
    BY <2>1 DEF Finding
  <2>3. r.class = "quantum-vulnerable" => Normalize(f.asset.algo) \in QuantumVulnerable
    BY DEF Classify
  <2> HIDE DEF r
  <2> QED
    BY <2>2, <2>3 DEF SaysQuantum
<1> QED
  BY <1>1, <1>2

LEMMA InitCount == Init => CountInv
<1> SUFFICES ASSUME Init PROVE CountInv
  OBVIOUS
<1>1. nodes = <<>> /\ DOMAIN nodes = {} /\ cnsa = Unwritten /\ ncsc = Unwritten
  BY DEF Init
<1>2. Sourced
  BY <1>1 DEF Sourced
<1>3. Quantum
  <2>1. PICK n \in 0 .. MaxLen : findings \in [1 .. n -> Input]
    BY DEF Init
  <2>2. Len(findings) = n
    BY <2>1, MaxLenAssumption
  <2> QED
    BY <2>1, <2>2, InputAssumption DEF Quantum, SaysQuantum
<1>4. Counted
  BY <1>1, FS_EmptySet DEF Counted
<1> QED
  BY <1>2, <1>3, <1>4 DEF CountInv

LEMMA ApplyCount == IInv /\ CountInv /\ Apply => CountInv'
<1> SUFFICES ASSUME IInv, CountInv, Apply PROVE CountInv'
  OBVIOUS
<1>1. /\ findings \in Seq(Finding) /\ i \in 0 .. Len(findings) /\ i + 1 \in 1 .. Len(findings)
      /\ pc = "apply" /\ nodes = <<>> /\ DOMAIN nodes = {} /\ nodes' = nodes
      /\ cnsa' = Unwritten /\ ncsc' = Unwritten
  BY NothingWritten DEF IInv, Scanned, CountInv, Sourced, Counted, Apply, reports
<1>2. /\ Len(findings') = Len(findings)
      /\ \A j \in 1 .. Len(findings) :
            findings'[j] = IF j = i + 1 THEN Classified(findings[i + 1]) ELSE findings[j]
  BY <1>1, ClassifiedType DEF Apply
<1>3. SaysQuantum(Classified(findings[i + 1]))
  BY <1>1, ClassifySaysQuantum DEF CountInv, Quantum
<1>4. Quantum'
  BY <1>2, <1>3 DEF CountInv, Quantum
<1>5. Sourced'
  BY <1>1 DEF Sourced
<1>6. Counted'
  BY <1>1 DEF CountInv, Counted
<1> QED
  BY <1>4, <1>5, <1>6 DEF CountInv

LEMMA AddFindingCount == IInv /\ CountInv /\ AddFinding => CountInv'
<1> SUFFICES ASSUME IInv, CountInv, AddFinding PROVE CountInv'
  OBVIOUS
<1> DEFINE f == findings[i + 1]
           k == KeyOf(f)
<1>1. /\ findings \in Seq(Finding) /\ i \in 0 .. Len(findings) /\ i + 1 \in 1 .. Len(findings)
      /\ pc = "build" /\ pc' = pc /\ findings' = findings
      /\ cnsa' = Unwritten /\ ncsc' = Unwritten
  BY NothingWritten DEF IInv, Scanned, CountInv, Counted, AddFinding, reports
<1>2. f \in Graded
  BY <1>1 DEF IInv, Scanned
<1>3. DOMAIN nodes' = DOMAIN nodes \cup {k} /\ \A x \in DOMAIN nodes : x # k => nodes'[x] = nodes[x]
  BY DEF AddFinding
<1>4. \E j \in 1 .. Len(findings) :
         /\ findings[j] \in Graded
         /\ KeyOf(findings[j]) = k
         /\ nodes'[k].asset = findings[j].asset /\ nodes'[k].class = findings[j].class
  <2>1. CASE k \notin DOMAIN nodes
    <3>1. nodes'[k] = [asset |-> f.asset, class |-> f.class, sev |-> f.sev,
                       occ |-> <<Occurrence(f)>>]
      BY <2>1 DEF AddFinding
    <3>2. nodes'[k].asset = f.asset /\ nodes'[k].class = f.class
      BY <3>1
    <3> QED
      BY <1>1, <1>2, <3>2
  <2>2. CASE k \in DOMAIN nodes
    <3> DEFINE old == nodes[k]
               class == IF f.sev > old.sev THEN f.class ELSE old.class
    <3>1. PICK j \in 1 .. Len(findings) :
             /\ findings[j] \in Graded
             /\ KeyOf(findings[j]) = k
             /\ old.asset = findings[j].asset /\ old.class = findings[j].class
      BY <2>2 DEF CountInv, Sourced
    <3>2. old.class = f.class
      BY <3>1 DEF KeyOf
    <3>3. nodes'[k] = [asset |-> old.asset, class |-> class,
                       sev   |-> IF f.sev > old.sev THEN f.sev ELSE old.sev,
                       occ   |-> Append(old.occ, Occurrence(f))]
      BY <2>2 DEF AddFinding
    <3>4. nodes'[k].asset = old.asset /\ nodes'[k].class = old.class
      BY <3>2, <3>3
    <3> QED
      BY <3>1, <3>4
  <2> QED
    BY <2>1, <2>2
<1> HIDE DEF k
<1>6. Sourced'
  <2> SUFFICES ASSUME NEW x \in DOMAIN nodes'
               PROVE  \E j \in 1 .. Len(findings) :
                         /\ findings[j] \in Graded
                         /\ KeyOf(findings[j]) = x
                         /\ nodes'[x].asset = findings[j].asset
                         /\ nodes'[x].class = findings[j].class
    BY <1>1 DEF Sourced
  <2>1. CASE x = k
    BY <1>4, <2>1
  <2>2. CASE x # k
    BY <1>3, <2>2 DEF CountInv, Sourced
  <2> QED
    BY <2>1, <2>2
<1>7. Quantum'
  BY <1>1 DEF CountInv, Quantum
<1>8. Counted'
  <2>1. IsFiniteSet(DOMAIN nodes')
    BY <1>3, FS_AddElement DEF CountInv, Counted
  <2> QED
    BY <1>1, <2>1 DEF Counted
<1> QED
  BY <1>6, <1>7, <1>8 DEF CountInv

LEMMA StillCounted ==
    ASSUME IInv, CountInv, UNCHANGED <<findings, nodes>>, pc = "apply" \/ pc' # "apply"
    PROVE  /\ Sourced' /\ Quantum' /\ IsFiniteSet(DOMAIN nodes')
           /\ ScorePct(Entries)' = ScorePct(Entries) /\ Milestones' = Milestones
<1>1. Sourced' /\ Quantum' /\ IsFiniteSet(DOMAIN nodes')
  BY DEF CountInv, Sourced, Quantum, Counted
<1>2. Entries' = Entries
  BY DEF Entries, Audited, CryptographicNodes
<1>3. ScorePct(Entries)' = ScorePct(Entries)
  BY <1>2 DEF ScorePct, Total
<1>4. Inventory' = Inventory
  BY DEF Inventory, CryptographicNodes
<1>5. QuantumNodes' = QuantumNodes
  BY <1>4 DEF QuantumNodes
<1>6. UrgentNodes' = UrgentNodes
  BY <1>5 DEF UrgentNodes
<1>7. PlanExists' = PlanExists
  BY <1>5 DEF PlanExists
<1>8. Milestones' = Milestones
  BY <1>4, <1>5, <1>6, <1>7 DEF Milestones, Milestone
<1> QED
  BY <1>1, <1>3, <1>8

LEMMA NextCount == IInv /\ CountInv /\ [Next]_vars => CountInv'
<1> SUFFICES ASSUME IInv, CountInv, [Next]_vars PROVE CountInv'
  OBVIOUS
<1>1. CASE EndApply
  <2>1. UNCHANGED <<findings, nodes>> /\ pc = "apply" /\ cnsa' = Unwritten /\ ncsc' = Unwritten
    BY <1>1, NothingWritten DEF EndApply, reports, CountInv, Counted
  <2> QED
    BY <2>1, StillCounted DEF CountInv, Counted
<1>2. CASE EndBuild
  <2>1. /\ UNCHANGED <<findings, nodes>> /\ pc' # "apply"
        /\ cnsa' = Unwritten /\ ncsc' = Unwritten
    BY <1>2, NothingWritten DEF EndBuild, reports, CountInv, Counted
  <2> QED
    BY <2>1, StillCounted DEF CountInv, Counted
<1>3. CASE Audit
  <2>1. /\ UNCHANGED <<findings, nodes, pc, ncsc>> /\ pc' # "apply"
        /\ cnsa'.score = ScorePct(Entries)
    BY <1>3 DEF Audit
  <2> QED
    BY <2>1, StillCounted DEF CountInv, Counted
<1>4. CASE Readiness
  <2>1. /\ UNCHANGED <<findings, nodes, pc, cnsa>> /\ pc = "report" /\ pc' # "apply"
        /\ ncsc' = Milestones
    BY <1>4 DEF Readiness
  <2> QED
    BY <2>1, StillCounted DEF CountInv, Counted
<1>5. CASE Migration \/ EvaluatePolicy \/ UNCHANGED vars
  <2>1. UNCHANGED <<findings, nodes, pc, cnsa, ncsc>>
    BY <1>5 DEF Migration, EvaluatePolicy, vars
  <2>2. pc = "apply" \/ pc' # "apply"
    BY <2>1
  <2> QED
    BY <2>1, <2>2, StillCounted DEF CountInv, Counted
<1> QED
  BY <1>1, <1>2, <1>3, <1>4, <1>5, ApplyCount, AddFindingCount DEF Next

LEMMA CountHolds == Spec => []CountInv
<1> QED
  BY InitCount, NextCount, IInvHolds, PTL DEF Spec

\* What one finding, or one node, is by itself.
LEMMA FindingOf ==
    ASSUME IInv, CountInv, cnsa # Unwritten, NEW f \in Cryptographic
    PROVE  /\ f \in Finding /\ f.class # "" /\ Own(f) = CnsaStatus(f.class, f.asset)
           /\ KeyOf(f) \in DOMAIN cnsa.entries
           /\ KeyOf(f) \in DOMAIN nodes /\ nodes[KeyOf(f)].class = f.class
<1>1. PICK j \in DOMAIN findings : f = findings[j] /\ IsCryptographic(f.asset.type)
  BY DEF Cryptographic
<1>2. /\ findings \in Seq(Finding) /\ pc = "report"
      /\ j \in 1 .. Len(findings)
  BY <1>1 DEF IInv, Scanned, Written
<1>3. f \in Finding /\ f.class # ""
  BY <1>1, <1>2 DEF IInv, Scanned, Graded
<1>4. Own(f) = CnsaStatus(f.class, f.asset)
  BY <1>3 DEF Own, Classified
<1>5. KeyOf(f) \in DOMAIN nodes
  BY <1>1, <1>2 DEF IInv, Collected
<1>6. KeyOf(nodes[KeyOf(f)]) = KeyOf(f)
  BY <1>5 DEF IInv, Collected
<1>7. nodes[KeyOf(f)].asset.type = f.asset.type /\ nodes[KeyOf(f)].class = f.class
  BY <1>6 DEF KeyOf
<1> QED
  BY <1>1, <1>3, <1>4, <1>5, <1>7, EntryOf

\* The other way round: an entry is what one of its findings is.
LEMMA EntryIsFindings ==
    ASSUME IInv, CountInv, cnsa # Unwritten, NEW k \in DOMAIN cnsa.entries
    PROVE  \E g \in Cryptographic : KeyOf(g) = k /\ Own(g) = cnsa.entries[k]
<1>1. /\ k \in DOMAIN nodes /\ IsCryptographic(nodes[k].asset.type)
      /\ cnsa.entries[k] = CnsaStatus(nodes[k].class, nodes[k].asset)
  BY EntryOf
<1>2. PICK j \in 1 .. Len(findings) :
         /\ KeyOf(findings[j]) = k
         /\ nodes[k].asset = findings[j].asset /\ nodes[k].class = findings[j].class
  BY <1>1 DEF CountInv, Sourced
<1>3. j \in DOMAIN findings
  BY DEF IInv, Scanned
<1>4. findings[j] \in Cryptographic
  BY <1>1, <1>2, <1>3 DEF Cryptographic
<1>5. Own(findings[j]) = CnsaStatus(findings[j].class, findings[j].asset)
  BY <1>4, FindingOf
<1> QED
  BY <1>1, <1>2, <1>4, <1>5

LEMMA FullMarks ==
    ASSUME NEW c \in Nat, NEW t \in Nat, c <= t, t # 0, (c * 100) \div t = 100
    PROVE  c = t
OBVIOUS

\* A score of 100 percent is earned (ComplianceReport: FullScoreIsEarned): the
\* division of cnsa.go rounds down, so that no asset that is not compliant is
\* rounded away, and the entries it counts are what findings are by themselves.
THEOREM AFullScoreIsEarned == Spec => []FullScoreIsEarned
<1>1. IInv /\ CountInv => FullScoreIsEarned
  <2> SUFFICES ASSUME IInv, CountInv, cnsa # Unwritten, cnsa.score = 100
               PROVE  /\ Cryptographic # {}
                      /\ \A f \in Cryptographic :
                            /\ Own(f).status \in {"compliant", "not-assessed"}
                            /\ \E g \in Cryptographic : KeyOf(g) = KeyOf(f) /\ Own(g) = Compliant
    BY DEF FullScoreIsEarned
  <2> DEFINE D == DOMAIN cnsa.entries
             C == {k \in D : cnsa.entries[k] = Compliant}
  <2>1. cnsa.entries = Entries /\ D \subseteq DOMAIN nodes
    BY EntryOf DEF IInv, Written
  <2>2. IsFiniteSet(D)
    BY <2>1, FS_Subset DEF CountInv, Counted
  <2>3. /\ Cardinality(C) \in Nat /\ Cardinality(D) \in Nat /\ Cardinality(C) <= Cardinality(D)
        /\ Cardinality(C) = Cardinality(D) => C = D
    BY <2>2, FS_Subset, FS_CardinalityType
  <2>4. 100 = IF Cardinality(D) = 0 THEN 0 ELSE (Cardinality(C) * 100) \div Cardinality(D)
    BY <2>1 DEF CountInv, Counted, ScorePct, Total
  <2> HIDE DEF C, D
  <2>5. Cardinality(D) # 0 /\ Cardinality(C) = Cardinality(D)
    BY <2>3, <2>4, FullMarks
  <2>6. C = D /\ D # {}
    BY <2>2, <2>3, <2>5, FS_EmptySet
  <2>7. \A k \in D : cnsa.entries[k] = Compliant
    BY <2>6 DEF C
  <2>8. Cryptographic # {}
    BY <2>6, EntryIsFindings DEF D
  <2>9. ASSUME NEW f \in Cryptographic
        PROVE  /\ Own(f).status \in {"compliant", "not-assessed"}
               /\ \E g \in Cryptographic : KeyOf(g) = KeyOf(f) /\ Own(g) = Compliant
    <3>1. KeyOf(f) \in D
      BY FindingOf DEF D
    <3>2. \E g \in Cryptographic : KeyOf(g) = KeyOf(f) /\ Own(g) = Compliant
      BY <2>7, <3>1, EntryIsFindings DEF D
    <3>3. CnsaStatus(f.class, nodes[KeyOf(f)].asset) = Compliant
      BY <2>7, <3>1, FindingOf, EntryOf DEF D
    <3>4. f.class \in {"", "none"}
      <4>1. f.class \in Class
        BY FindingOf DEF Finding
      <4> QED
        BY <3>3, <4>1 DEF Class, CnsaStatus, Compliant, Immediate, Verdict
    <3>5. f.asset \in Detected
      BY FindingOf DEF Finding
    <3>6. f.asset \in Asset /\ (f.asset.algo = "AES" => f.asset.size \in {0, 256})
      BY <3>5 DEF Detected
    <3>7. Own(f) = Compliant \/ Own(f) = NotAssessed
      <4>1. Own(f) = CnsaStatus(f.class, f.asset)
        BY FindingOf
      <4>2. CnsaStatus(f.class, f.asset) = ByAlgorithm(f.asset)
        BY <3>4 DEF CnsaStatus
      <4> QED
        BY <3>6, <4>1, <4>2, AlgorithmNeverBad
    <3> QED
      BY <3>2, <3>7 DEF Compliant, NotAssessed, Verdict
  <2> QED
    BY <2>8, <2>9
<1> QED
  BY <1>1, IInvHolds, CountHolds, PTL

LEMMA MilestoneSays ==
    ASSUME NEW n \in Nat
    PROVE  /\ Milestone(n) = "at-risk" <=> Inventory # {} /\ n # 0
           /\ Milestone(n) = "not-started" <=> Inventory = {}
<1>1. CASE Inventory = {}
  BY <1>1 DEF Milestone
<1>2. CASE Inventory # {} /\ n = 0
  BY <1>2 DEF Milestone
<1>3. CASE Inventory # {} /\ n # 0
  <2>1. n > 0
    BY <1>3
  <2> HIDE DEF Inventory
  <2> QED
    BY <1>3, <2>1 DEF Milestone
<1> QED
  BY <1>1, <1>2, <1>3

\* What quantum computers break has a target to migrate to.
LEMMA QuantumHasTarget ==
    ASSUME NEW a, Normalize(a.algo) \in QuantumVulnerable
    PROVE  Target(a) # ""
<1>1. a.algo \in {"RSA", "ECDSA", "ECDH", "ECC", "DH", "DSA", "ED25519", "Ed25519"}
  BY DEF Normalize, QuantumVulnerable
<1> QED
  BY <1>1 DEF Target

\* buildNCSC and buildEntries count the same assets (ComplianceReport:
\* MilestonesMatchAudit), and every quantum-vulnerable one has a plan.
THEOREM MilestonesAgree == Spec => []MilestonesMatchAudit
<1>1. IInv /\ CountInv => MilestonesMatchAudit
  <2> SUFFICES ASSUME IInv, CountInv, cnsa # Unwritten, ncsc # Unwritten
               PROVE  MilestonesMatchAudit
    BY DEF MilestonesMatchAudit
  <2> DEFINE audit == {cnsa.entries[k] : k \in DOMAIN cnsa.entries}
  <2>1. ncsc = Milestones
    BY DEF CountInv, Counted
  <2>2. DOMAIN cnsa.entries = Inventory
    BY EntryOf DEF Inventory, CryptographicNodes
  <2>3. Inventory \subseteq DOMAIN nodes /\ UrgentNodes \subseteq QuantumNodes /\ QuantumNodes \subseteq Inventory
    BY DEF Inventory, CryptographicNodes, UrgentNodes, QuantumNodes
  <2>4. IsFiniteSet(QuantumNodes) /\ IsFiniteSet(UrgentNodes)
    BY <2>3, FS_Subset DEF CountInv, Counted
  <2>5. /\ Cardinality(QuantumNodes) \in Nat /\ Cardinality(UrgentNodes) \in Nat
        /\ Cardinality(QuantumNodes) = 0 <=> QuantumNodes = {}
        /\ Cardinality(UrgentNodes) = 0 <=> UrgentNodes = {}
    BY <2>4, FS_CardinalityType, FS_EmptySet
  <2>6. /\ ncsc.full2035 = Milestone(Cardinality(QuantumNodes))
        /\ ncsc.priority2031 = Milestone(Cardinality(UrgentNodes))
        /\ ncsc.discovery2028 = Milestone(IF PlanExists THEN 0 ELSE 1)
    BY <2>1 DEF Milestones
  <2>7. \A k \in Inventory : cnsa.entries[k].deadline = "2030" <=> k \in QuantumNodes
    <3> SUFFICES ASSUME NEW k \in Inventory
                 PROVE  cnsa.entries[k].deadline = "2030" <=> k \in QuantumNodes
      OBVIOUS
    <3>1. cnsa.entries[k] = CnsaStatus(nodes[k].class, nodes[k].asset) /\ nodes[k].class \in Class
      BY <2>2, <2>3, EntryOf DEF IInv, Collected
    <3>2. CASE nodes[k].class = "quantum-vulnerable"
      BY <3>1, <3>2 DEF CnsaStatus, Verdict, QuantumNodes
    <3>3. CASE nodes[k].class \in {"expired", "hardcoded", "misconfig", "weak"}
      BY <3>1, <3>3 DEF CnsaStatus, Verdict, Immediate, QuantumNodes
    <3>4. CASE nodes[k].class \in {"", "none"}
      <4>1. CnsaStatus(nodes[k].class, nodes[k].asset) = ByAlgorithm(nodes[k].asset)
        BY <3>4 DEF CnsaStatus
      <4>2. nodes[k].asset \in Detected
        BY <2>3 DEF IInv, Collected
      <4>3. ByAlgorithm(nodes[k].asset) = Compliant \/ ByAlgorithm(nodes[k].asset) = NotAssessed
        BY <4>2, AlgorithmNeverBad DEF Detected
      <4>4. cnsa.entries[k].deadline # "2030"
        BY <3>1, <4>1, <4>3 DEF Compliant, NotAssessed, Verdict
      <4>5. k \notin QuantumNodes
        BY <3>4 DEF QuantumNodes
      <4> QED
        BY <4>4, <4>5
    <3> QED
      BY <3>1, <3>2, <3>3, <3>4 DEF Class
  <2>8. PlanExists
    <3> SUFFICES ASSUME NEW k \in QuantumNodes PROVE Target(nodes[k].asset) # ""
      BY DEF PlanExists
    <3>1. k \in DOMAIN nodes /\ nodes[k].class = "quantum-vulnerable"
      BY <2>3 DEF QuantumNodes
    <3>2. PICK j \in 1 .. Len(findings) :
             nodes[k].asset = findings[j].asset /\ nodes[k].class = findings[j].class
      BY <3>1 DEF CountInv, Sourced
    <3>3. Normalize(nodes[k].asset.algo) \in QuantumVulnerable
      BY <3>1, <3>2 DEF CountInv, Quantum, SaysQuantum
    <3> QED
      BY <3>3, QuantumHasTarget
  <2> HIDE DEF audit
  <2>9. (\E e \in audit : e.deadline = "2030") <=> QuantumNodes # {}
    BY <2>2, <2>3, <2>7 DEF audit
  <2>10. audit = {} <=> Inventory = {}
    BY <2>2 DEF audit
  <2>11. ncsc.full2035 = "at-risk" <=> QuantumNodes # {}
    BY <2>3, <2>5, <2>6, MilestoneSays
  <2>12. ncsc.full2035 = "not-started" <=> Inventory = {}
    BY <2>5, <2>6, MilestoneSays
  <2>13. ncsc.priority2031 = "at-risk" => UrgentNodes # {}
    BY <2>5, <2>6, MilestoneSays
  <2>14. ncsc.discovery2028 # "at-risk"
    BY <2>6, <2>8, MilestoneSays
  <2> QED
    BY <2>3, <2>9, <2>10, <2>11, <2>12, <2>13, <2>14 DEF MilestonesMatchAudit, audit
<1> QED
  BY <1>1, IInvHolds, CountHolds, PTL

=============================================================================
