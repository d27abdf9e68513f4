-------------------------- MODULE ComplianceReport --------------------------
(***************************************************************************)
(* The compliance pack: how the findings of one scan become the CNSA 2.0   *)
(* audit and its score, the migration plan, the verdict of --policy cnsa   *)
(* and the NCSC milestones.                                                *)
(*                                                                         *)
(* risk.Apply goes over the findings one by one, graph.Build folds them    *)
(* into nodes, and each report then reads the same nodes.  A node shows    *)
(* one asset, the first found, for all findings of its key; GraphBuild has *)
(* what deduplication does to occurrences, tags and order.                 *)
(***************************************************************************)
EXTENDS RiskRules, FiniteSets

CONSTANTS
    Input,     \* what detectors write: a finding, its class "" unless asserted
    MaxLen,    \* bound on the number of findings of a scan
    Unwritten  \* a report that has not been asked for

Class == {"", "quantum-vulnerable", "weak", "misconfig", "expired",
          "hardcoded", "none"}

\* No detector knows MD4, RC2 or Blowfish, and none writes another size for AES
\* than the 256 bits of a provider's default; the tables have more rows.
Detected ==
    {a \in Asset : /\ Normalize(a.algo) \notin {"MD4", "RC2", "BLOWFISH"}
                   /\ a.algo = "AES" => a.size \in {0, 256}}

Finding == [asset : Detected, source : STRING, class : Class, sev : 0 .. 5]

\* Whatever else a detector asserts, quantum-vulnerable is Classify's to say.
ASSUME InputAssumption ==
    Input \subseteq {f \in Finding : f.class # "quantum-vulnerable"}

ASSUME MaxLenAssumption == MaxLen \in Nat

VARIABLES
    findings,  \* res.Findings
    pc,        \* "apply", "build" or "report"
    i,         \* how many findings the current loop has done
    nodes,     \* the graph: nodes by key
    cnsa,      \* the audit
    plan,      \* the migration plan
    violated,  \* the keys that violate the policy
    ncsc       \* the milestones

vars == <<findings, pc, i, nodes, cnsa, plan, violated, ncsc>>
reports == <<cnsa, plan, violated, ncsc>>

Init ==
    /\ findings \in UNION {[1 .. n -> Input] : n \in 0 .. MaxLen}
    /\ pc = "apply"
    /\ i = 0
    /\ nodes = <<>>
    /\ cnsa = Unwritten
    /\ plan = Unwritten
    /\ violated = Unwritten
    /\ ncsc = Unwritten

-----------------------------------------------------------------------------

\* What a detector asserts is left alone.
Classified(f) ==
    IF f.class # "" THEN f
    ELSE LET r == Classify(f.asset) IN [f EXCEPT !.class = r.class, !.sev = r.sev]

Apply ==
    /\ pc = "apply" /\ i < Len(findings)
    /\ findings' = [findings EXCEPT ![i + 1] = Classified(@)]
    /\ i' = i + 1
    /\ UNCHANGED <<pc, nodes, reports>>

EndApply ==
    /\ pc = "apply" /\ i = Len(findings)
    /\ pc' = "build"
    /\ i' = 0
    /\ UNCHANGED <<findings, nodes, reports>>

\* Mutant: an asset is one node whatever its risk.
KeyWithoutClass(f) == <<f.asset.type, Normalize(f.asset.algo), f.asset.size>>

KeyOf(f) == <<f.asset.type, Normalize(f.asset.algo), f.asset.size, f.class>>

Occurrence(f) == [source |-> f.source, prim |-> f.asset.prim]

\* Every finding is at a place of its own, so none is an occurrence twice.
AddFinding ==
    /\ pc = "build" /\ i < Len(findings)
    /\ LET f   == findings[i + 1]
           k   == KeyOf(f)
           new == [asset |-> f.asset, class |-> f.class, sev |-> f.sev,
                   occ |-> <<Occurrence(f)>>]
           old == nodes[k]
           sum == [asset |-> old.asset,
                   class |-> IF f.sev > old.sev THEN f.class ELSE old.class,
                   sev   |-> IF f.sev > old.sev THEN f.sev ELSE old.sev,
                   occ   |-> Append(old.occ, Occurrence(f))]
       IN nodes' = [x \in DOMAIN nodes \cup {k} |->
                      IF x # k THEN nodes[x] ELSE IF k \in DOMAIN nodes THEN sum ELSE new]
    /\ i' = i + 1
    /\ UNCHANGED <<findings, pc, reports>>

EndBuild ==
    /\ pc = "build" /\ i = Len(findings)
    /\ pc' = "report"
    /\ UNCHANGED <<findings, i, nodes, reports>>

-----------------------------------------------------------------------------
(* The reports.                                                            *)

CryptographicNodes == {k \in DOMAIN nodes : IsCryptographic(nodes[k].asset.type)}

\* buildEntries and buildNCSC each have the filter.
Audited == CryptographicNodes

\* Mutant: the milestones count every node.
InventoryOfAll == DOMAIN nodes

Inventory == CryptographicNodes

\* Mutant: what was not assessed is not counted.
TotalAssessed(entries) ==
    Cardinality({k \in DOMAIN entries : entries[k] # NotAssessed})

\* The entries of the audit, before they are sorted.
Entries == [k \in Audited |-> CnsaStatus(nodes[k].class, nodes[k].asset)]

Total(entries) == Cardinality(DOMAIN entries)

ScorePct(entries) ==
    LET compliant == Cardinality({k \in DOMAIN entries : entries[k] = Compliant})
    IN  IF Total(entries) = 0 THEN 0 ELSE (compliant * 100) \div Total(entries)

\* buildEntries, and the counts of buildEvidence.
Audit ==
    /\ pc = "report" /\ cnsa = Unwritten
    /\ cnsa' = [entries |-> Entries, score |-> ScorePct(Entries)]
    /\ UNCHANGED <<findings, pc, i, nodes, plan, violated, ncsc>>

ToMigrate == {k \in DOMAIN nodes : Target(nodes[k].asset) # ""}

Step(n) ==
    LET agility == DominantAgility(n.occ)
    IN [target |-> Target(n.asset), agility |-> agility,
        quickWin |-> agility = 2 /\ n.sev \in {High, Critical}]

Migration ==
    /\ pc = "report" /\ plan = Unwritten
    /\ plan' = [k \in ToMigrate |-> Step(nodes[k])]
    /\ UNCHANGED <<findings, pc, i, nodes, cnsa, violated, ncsc>>

EvaluatePolicy ==
    /\ pc = "report" /\ violated = Unwritten
    /\ violated' = {k \in DOMAIN nodes : Violates(nodes[k].class, nodes[k].asset)}
    /\ UNCHANGED <<findings, pc, i, nodes, cnsa, plan, ncsc>>

QuantumNodes == {k \in Inventory : nodes[k].class = "quantum-vulnerable"}

PlanExists == \A k \in QuantumNodes : Target(nodes[k].asset) # ""

Milestone(count) ==
    CASE Inventory = {} -> "not-started"
      [] Inventory # {} /\ count = 0 -> "on-track"
      [] Inventory # {} /\ count > 0 -> "at-risk"

UrgentNodes == {k \in QuantumNodes : IsHighestPriority(nodes[k])}

\* Every node has an occurrence, so nothing is inventoried only when there is no
\* node.
Milestones ==
    [discovery2028 |-> Milestone(IF PlanExists THEN 0 ELSE 1),
     priority2031  |-> Milestone(Cardinality(UrgentNodes)),
     full2035      |-> Milestone(Cardinality(QuantumNodes))]

\* buildNCSC.
Readiness ==
    /\ pc = "report" /\ ncsc = Unwritten
    /\ ncsc' = Milestones
    /\ UNCHANGED <<findings, pc, i, nodes, cnsa, plan, violated>>

Next ==
    \/ Apply \/ EndApply
    \/ AddFinding \/ EndBuild
    \/ Audit \/ Migration \/ EvaluatePolicy \/ Readiness

Spec == Init /\ [][Next]_vars

-----------------------------------------------------------------------------

Verdicts == {"not-started", "on-track", "at-risk"}

TypeOK ==
    /\ Len(findings) <= MaxLen
    /\ \A j \in DOMAIN findings : findings[j].class \in Class
    /\ pc # "apply" => \A j \in DOMAIN findings : findings[j].class # ""
    /\ pc \in {"apply", "build", "report"}
    /\ i \in 0 .. Len(findings)
    /\ \A k \in DOMAIN nodes : nodes[k].class \in Class /\ Len(nodes[k].occ) > 0
    /\ cnsa # Unwritten => cnsa.score \in 0 .. 100
    /\ plan # Unwritten => DOMAIN plan \subseteq DOMAIN nodes
    /\ violated # Unwritten => violated \subseteq DOMAIN nodes
    /\ ncsc # Unwritten => /\ ncsc.discovery2028 \in Verdicts
                           /\ ncsc.priority2031 \in Verdicts
                           /\ ncsc.full2035 \in Verdicts

-----------------------------------------------------------------------------
(* What the reports owe the findings.  Own is what CNSA 2.0 says of a       *)
(* finding by itself.                                                       *)

Own(f) == LET g == Classified(f) IN CnsaStatus(g.class, g.asset)

Cryptographic == {findings[j] : j \in {x \in DOMAIN findings :
                                         IsCryptographic(findings[x].asset.type)}}

\* A risk is never hidden by what else was found: a finding that is an issue or
\* not compliant by itself is an entry of the audit with that status and that
\* deadline, whatever shares its algorithm, size and type.
NoBadFindingHidden ==
    cnsa # Unwritten =>
        \A f \in Cryptographic : Own(f).status \in {"issue", "non-compliant"} =>
            KeyOf(f) \in DOMAIN cnsa.entries /\ cnsa.entries[KeyOf(f)] = Own(f)

\* A score of 100 is earned: something was found, every finding shares an entry
\* with one that is compliant by itself, and none is worse than not assessed.
FullScoreIsEarned ==
    cnsa # Unwritten /\ cnsa.score = 100 =>
        /\ Cryptographic # {}
        /\ \A f \in Cryptographic :
              /\ Own(f).status \in {"compliant", "not-assessed"}
              /\ \E g \in Cryptographic : KeyOf(g) = KeyOf(f) /\ Own(g) = Compliant

\* The risk of this node is the one of its algorithm, not one that a detector
\* asserted.
OfAlgorithm(n) == n.class = Classify(n.asset).class

\* The plan "scores each non-compliant asset": every asset that is not compliant
\* because of its algorithm has a step, and none that is compliant has one.
PlanMatchesAudit ==
    cnsa # Unwritten /\ plan # Unwritten =>
        \A k \in DOMAIN cnsa.entries :
            /\ cnsa.entries[k].status = "non-compliant" /\ OfAlgorithm(nodes[k])
                  => k \in DOMAIN plan
            /\ cnsa.entries[k].status = "compliant" => k \notin DOMAIN plan

\* "--policy cnsa enforces the same standard": it stops at whatever the audit
\* wants fixed immediately, other than what a detector asserted to be weak, and
\* at nothing the audit calls compliant.
PolicyMatchesAudit ==
    cnsa # Unwritten /\ violated # Unwritten =>
        \A k \in DOMAIN cnsa.entries :
            /\ cnsa.entries[k].deadline = "immediate"
                  => \/ k \in violated
                     \/ nodes[k].class = "weak" /\ ~OfAlgorithm(nodes[k])
            /\ cnsa.entries[k].status = "compliant" => k \notin violated

\* The milestones and the audit count the same assets: 2035 is at risk exactly
\* when the audit has a 2030 deadline, it has not been started exactly when the
\* audit is empty, no earlier milestone is worse than it, and every
\* quantum-vulnerable asset has a target.
MilestonesMatchAudit ==
    cnsa # Unwritten /\ ncsc # Unwritten =>
        LET audit == {cnsa.entries[k] : k \in DOMAIN cnsa.entries}
        IN /\ ncsc.full2035 = "at-risk" <=> \E e \in audit : e.deadline = "2030"
           /\ ncsc.full2035 = "not-started" <=> audit = {}
           /\ ncsc.priority2031 = "at-risk" => ncsc.full2035 = "at-risk"
           /\ ncsc.discovery2028 # "at-risk"

-----------------------------------------------------------------------------
(* What the documentation says of the audit and the code does not do.       *)

\* README: "An algorithm with no CNSA 2.0 rule in qryx is reported as
\* not-assessed, its own status, and never counted as compliant."
NeverCountedAsCompliant ==
    cnsa # Unwritten =>
        \A f \in Cryptographic :
            Own(f) = NotAssessed /\ KeyOf(f) \in DOMAIN cnsa.entries
                => cnsa.entries[KeyOf(f)] # Compliant

=============================================================================
