----------------------------- MODULE GraphBuild -----------------------------
(***************************************************************************)
(* graph.Build: the loop that folds the list of findings into one node per *)
(* (asset, risk class), one finding at a time, and the stable sort that    *)
(* ends it.  The order of the findings is the order the scan produced; the *)
(* node's asset and occurrence list are abstracted to its key and the set  *)
(* of its occurrences.                                                     *)
(***************************************************************************)
EXTENDS AssetGraph

CONSTANTS
    Input,        \* the findings a scan may produce
    MaxFindings,  \* bound on the number of findings of one scan
    Rank          \* Rank[a]: position of a by (algorithm, key size)

ASSUME InputAssumption       == Input \subseteq Finding
ASSUME MaxFindingsAssumption == MaxFindings \in Nat
ASSUME RankAssumption        == Rank \in [Asset -> Nat]

VARIABLES
    findings,  \* the findings, in scan order; never changes
    i,         \* how many of them have been folded in
    nodes,     \* the node map: key -> node
    seen,      \* <<key, occurrence>> pairs already recorded
    order,     \* keys in order of first appearance
    out        \* the sorted result, <<>> until Build returns

vars == <<findings, i, nodes, seen, order, out>>

Node == [sev : Severity, riskFrom : 1 .. MaxFindings,
         occs : SUBSET Occ, agent : Agent \cup {NoAgent}]

TypeOK ==
    /\ findings \in Seq(Finding) /\ Len(findings) <= MaxFindings
    /\ i \in 0 .. Len(findings)
    /\ DOMAIN nodes \subseteq Key
    /\ \A k \in DOMAIN nodes : nodes[k] \in Node
    /\ seen \in SUBSET (Key \X Occ)
    /\ order \in Seq(Key)
    /\ out \in Seq(Key)

Init ==
    /\ findings \in UNION {[1 .. n -> Input] : n \in 0 .. MaxFindings}
    /\ i = 0
    /\ nodes = <<>>
    /\ seen = {}
    /\ order = <<>>
    /\ out = <<>>

\* Mutant: an equally severe risk found later replaces the first one.
WithRiskLastWins(f, k) ==
    IF k \notin DOMAIN nodes
      THEN [sev |-> f.sev, riskFrom |-> i + 1, occs |-> {}, agent |-> NoAgent]
    ELSE IF f.sev >= nodes[k].sev
      THEN [nodes[k] EXCEPT !.sev = f.sev, !.riskFrom = i + 1]
    ELSE nodes[k]

\* Mutant: the risk of an existing node is never raised.
WithRiskFirstSeen(f, k) ==
    IF k \notin DOMAIN nodes
      THEN [sev |-> f.sev, riskFrom |-> i + 1, occs |-> {}, agent |-> NoAgent]
    ELSE nodes[k]

\* Mutant: the loop index is used before it is advanced.
WithRiskOffByOne(f, k) ==
    IF k \notin DOMAIN nodes
      THEN [sev |-> f.sev, riskFrom |-> i, occs |-> {}, agent |-> NoAgent]
    ELSE nodes[k]

\* The node a finding creates or updates, before its occurrence is recorded:
\* a later finding replaces the risk only when it is strictly more severe.
\* riskFrom is the finding the node's Risk (severity and reason) comes from.
WithRisk(f, k) ==
    IF k \notin DOMAIN nodes
      THEN [sev |-> f.sev, riskFrom |-> i + 1, occs |-> {}, agent |-> NoAgent]
    ELSE IF f.sev > nodes[k].sev
      THEN [nodes[k] EXCEPT !.sev = f.sev, !.riskFrom = i + 1]
    ELSE nodes[k]

\* An occurrence met for the first time is recorded and its tags are merged
\* over the node's: the last agent_id wins.
WithOccurrence(n, f, k) ==
    IF <<k, f.occ>> \in seen
      THEN n
      ELSE [n EXCEPT !.occs  = @ \cup {f.occ},
                     !.agent = IF f.agent # NoAgent THEN f.agent ELSE @]

AddFinding ==
    /\ i < Len(findings)
    /\ LET f == findings[i + 1]
           k == KeyOf(f)
           n == WithOccurrence(WithRisk(f, k), f, k)
       IN /\ nodes' = [x \in DOMAIN nodes \cup {k} |->
                         IF x = k THEN n ELSE nodes[x]]
          /\ seen' = seen \cup {<<k, f.occ>>}
          /\ order' = IF k \in DOMAIN nodes THEN order ELSE Append(order, k)
    /\ i' = i + 1
    /\ UNCHANGED <<findings, out>>

\* Severity descending, then (algorithm, key size); ties keep the order of
\* first appearance because the sort is stable.
Precedes(p, q) ==
    LET k == order[p]
        l == order[q]
    IN \/ nodes[k].sev > nodes[l].sev
       \/ /\ nodes[k].sev = nodes[l].sev
          /\ \/ Rank[k[1]] < Rank[l[1]]
             \/ Rank[k[1]] = Rank[l[1]] /\ p < q

\* The positions of order, rearranged so that each one precedes the next.
Sorted(s) == \A p, q \in DOMAIN order : p < q => Precedes(s[p], s[q])

SortOut ==
    /\ i = Len(findings)
    /\ out = <<>>
    /\ \E s \in [DOMAIN order -> DOMAIN order] :
          /\ Sorted(s)
          /\ out' = [p \in DOMAIN order |-> order[s[p]]]
    /\ UNCHANGED <<findings, i, nodes, seen, order>>

Next == AddFinding \/ SortOut

Spec == Init /\ [][Next]_vars

-----------------------------------------------------------------------------
(* What Build promises, said of the findings alone.                        *)

\* The positions of the first n findings that belong to key k.
Of(k, n) == {j \in 1 .. n : KeyOf(findings[j]) = k}

\* Position j is the first of the first n findings at its place for k.
IsFresh(j, k, n) ==
    /\ j \in Of(k, n)
    /\ \A m \in Of(k, n) : findings[m].occ = findings[j].occ => j <= m

\* j is a fresh occurrence that names an agent.
NamesAgent(j, k, n) == IsFresh(j, k, n) /\ findings[j].agent # NoAgent

\* A node carries the risk of the first of the most severe findings.
RiskIsFirstMax(node, k, n) ==
    /\ node.riskFrom \in Of(k, n)
    /\ node.sev = findings[node.riskFrom].sev
    /\ \A m \in Of(k, n) :
          /\ findings[m].sev <= node.sev
          /\ findings[m].sev = node.sev => node.riskFrom <= m

\* A node carries the agent of the last fresh occurrence that names one.
AgentIsLast(node, k, n) ==
    \/ /\ node.agent = NoAgent
       /\ \A j \in 1 .. n : ~NamesAgent(j, k, n)
    \/ \E j \in 1 .. n :
          /\ NamesAgent(j, k, n)
          /\ node.agent = findings[j].agent
          /\ \A m \in 1 .. n : NamesAgent(m, k, n) => m <= j

\* After any prefix of the findings, the node map is what that prefix says:
\* one node per (asset, class), with the first most severe risk, exactly the
\* distinct occurrences, and the agent of the last fresh one (graph.Build's
\* comment: "deduplicating identical occurrences and keeping the
\* highest-severity risk per asset").
BuildFoldsPrefix ==
    /\ DOMAIN nodes = {KeyOf(findings[j]) : j \in 1 .. i}
    /\ \A k \in DOMAIN nodes :
          /\ RiskIsFirstMax(nodes[k], k, i)
          /\ nodes[k].occs = {findings[j].occ : j \in Of(k, i)}
          /\ AgentIsLast(nodes[k], k, i)

\* --fail-on walks findings, --fail-on-new and the policy walk nodes.  For
\* every threshold the two populations give the same verdict: collapsing
\* findings into nodes hides no gating risk and invents none.
GateAgreement ==
    \A t \in Severity :
        (\E j \in 1 .. i : Gates(findings[j].class, findings[j].sev, t))
            <=> (\E k \in DOMAIN nodes : Gates(k[2], nodes[k].sev, t))

=============================================================================
