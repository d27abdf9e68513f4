-------------------------- MODULE GraphBuildProofs --------------------------
(***************************************************************************)
(* graph.Build computes what it promises for every list of findings, of    *)
(* any length, and loses no gating risk on the way.                        *)
(***************************************************************************)
EXTENDS GraphBuild, TLAPS

\* The keys met so far, in order of appearance, are the keys of the nodes, and
\* seen remembers exactly the occurrences the nodes carry.
Bookkeeping ==
    /\ \A k \in DOMAIN nodes : \A o \in Occ :
          <<k, o>> \in seen <=> o \in nodes[k].occs
    /\ \A x \in seen : x[1] \in DOMAIN nodes
    /\ {order[p] : p \in DOMAIN order} = DOMAIN nodes

IInv == TypeOK /\ Bookkeeping /\ BuildFoldsPrefix

-----------------------------------------------------------------------------

LEMMA InputsAreFindings ==
    ASSUME NEW n \in Nat, NEW s \in [1 .. n -> Input]
    PROVE  s \in Seq(Finding) /\ Len(s) = n
BY InputAssumption

LEMMA InitIInv == Init => IInv
<1> SUFFICES ASSUME Init PROVE IInv
  OBVIOUS
<1>1. PICK n \in 0 .. MaxFindings : findings \in [1 .. n -> Input]
  BY DEF Init
<1>2. findings \in Seq(Finding) /\ Len(findings) = n
  BY <1>1, InputsAreFindings, MaxFindingsAssumption
<1>3. TypeOK
  BY <1>1, <1>2, MaxFindingsAssumption DEF Init, TypeOK
<1>4. Bookkeeping
  BY DEF Init, Bookkeeping
<1>5. BuildFoldsPrefix
  BY DEF Init, BuildFoldsPrefix
<1> QED
  BY <1>3, <1>4, <1>5 DEF IInv

-----------------------------------------------------------------------------
(* One turn of the loop, seen from the finding it consumes.                *)

LEMMA AddFindingType ==
    ASSUME IInv, AddFinding
    PROVE  TypeOK'
<1> DEFINE f == findings[i + 1]
           k == KeyOf(f)
           n == WithOccurrence(WithRisk(f, k), f, k)
<1> USE DEF IInv, TypeOK
<1>1. i + 1 \in 1 .. Len(findings) /\ i + 1 \in 1 .. MaxFindings
  BY MaxFindingsAssumption DEF AddFinding
<1>2. f \in Finding /\ k \in Key
  <2>1. f \in Finding
    BY <1>1
  <2>2. f.asset \in Asset /\ f.class \in Class
    BY <2>1 DEF Finding
  <2> QED
    BY <2>1, <2>2 DEF Key, KeyOf
<1>3. WithRisk(f, k) \in Node
  BY <1>1, <1>2 DEF WithRisk, Node, Finding
<1>4. n \in Node
  BY <1>2, <1>3 DEF WithOccurrence, Node, Finding
<1> QED
  BY <1>1, <1>2, <1>4 DEF AddFinding, Finding

\* The finding just consumed joins its own key's positions and no other's.
LEMMA OfNext ==
    ASSUME TypeOK, i < Len(findings), NEW x
    PROVE  Of(x, i + 1) = IF KeyOf(findings[i + 1]) = x
                            THEN Of(x, i) \cup {i + 1}
                            ELSE Of(x, i)
BY DEF Of, TypeOK

\* Positions already passed stay fresh or stale; the new one is fresh when
\* seen does not hold its occurrence.
LEMMA FreshNext ==
    ASSUME IInv, i < Len(findings), NEW x,
           NEW j \in 1 .. i + 1
    PROVE  IsFresh(j, x, i + 1) <=>
             IF j <= i THEN IsFresh(j, x, i)
             ELSE /\ KeyOf(findings[j]) = x
                  /\ <<x, findings[j].occ>> \notin seen
<1> USE DEF IInv
<1>1. i \in Nat /\ j \in Nat /\ i + 1 \in 1 .. Len(findings)
  BY DEF TypeOK
<1>2. CASE j <= i
  <2>a. Of(x, i + 1) \subseteq Of(x, i) \cup {i + 1}
    BY OfNext
  <2>3. Of(x, i) \subseteq Of(x, i + 1)
    BY OfNext
  <2>1. j \in Of(x, i + 1) <=> j \in Of(x, i)
    BY <1>1, <1>2, <2>a, <2>3
  <2>2. \A m \in Of(x, i + 1) : m \in Of(x, i) \/ j <= m
    BY <1>1, <1>2, <2>a
  <2> QED
    BY <1>2, <2>1, <2>2, <2>3 DEF IsFresh
<1>3. CASE ~(j <= i)
  <2>1. j = i + 1
    BY <1>1, <1>3
  <2>2. \A m \in Of(x, i) : ~(i + 1 <= m)
    BY <1>1 DEF Of
  <2>3. findings[j] \in Finding /\ findings[j].occ \in Occ
    <3>1. findings[j] \in Finding
      BY <1>1, <2>1 DEF TypeOK
    <3> QED
      BY <3>1 DEF Finding
  <2>4. j \in Of(x, i + 1) <=> KeyOf(findings[j]) = x
    BY <1>1, <2>1 DEF Of
  <2>5. ASSUME KeyOf(findings[j]) = x
        PROVE  <<x, findings[j].occ>> \in seen
                 <=> \E m \in Of(x, i) : findings[m].occ = findings[j].occ
    <3>1. CASE x \in DOMAIN nodes
      <4>1. <<x, findings[j].occ>> \in seen <=> findings[j].occ \in nodes[x].occs
        BY <2>3, <3>1 DEF Bookkeeping
      <4>2. nodes[x].occs = {findings[m].occ : m \in Of(x, i)}
        BY <3>1 DEF BuildFoldsPrefix
      <4> QED
        BY <4>1, <4>2
    <3>2. CASE x \notin DOMAIN nodes
      <4>1. <<x, findings[j].occ>> \notin seen
        BY <3>2 DEF Bookkeeping
      <4>2. Of(x, i) = {}
        BY <3>2 DEF BuildFoldsPrefix, Of
      <4> QED
        BY <4>1, <4>2
    <3> QED
      BY <3>1, <3>2
  <2>6. CASE KeyOf(findings[j]) = x
    <3>1. Of(x, i + 1) = Of(x, i) \cup {i + 1}
      BY <2>1, <2>6, OfNext
    <3> QED
      BY <1>1, <1>3, <2>1, <2>2, <2>4, <2>5, <2>6, <3>1 DEF IsFresh
  <2>7. CASE KeyOf(findings[j]) # x
    BY <1>3, <2>4, <2>7 DEF IsFresh
  <2> QED
    BY <2>6, <2>7
<1> QED
  BY <1>2, <1>3

-----------------------------------------------------------------------------
(* What a turn of the loop does to the node map.                           *)

LEMMA NodesNext ==
    ASSUME IInv, AddFinding
    PROVE  LET f == findings[i + 1]
               k == KeyOf(f)
           IN /\ i + 1 \in 1 .. Len(findings) /\ f \in Finding /\ k \in Key
              /\ i' = i + 1 /\ findings' = findings
              /\ DOMAIN nodes' = DOMAIN nodes \cup {k}
              /\ \A x \in DOMAIN nodes : x # k => nodes'[x] = nodes[x]
              /\ nodes'[k] = WithOccurrence(WithRisk(f, k), f, k)
              /\ seen' = seen \cup {<<k, f.occ>>}
<1>1. i + 1 \in 1 .. Len(findings)
  BY DEF AddFinding, IInv, TypeOK
<1>2. findings[i + 1] \in Finding
  BY <1>1 DEF IInv, TypeOK
<1>3. KeyOf(findings[i + 1]) \in Key
  BY <1>2 DEF Finding, Key, KeyOf
<1> QED
  BY <1>1, <1>2, <1>3 DEF AddFinding

\* The fields of the node the turn writes.
LEMMA NodeWritten ==
    ASSUME IInv, AddFinding
    PROVE  LET f == findings[i + 1]
               k == KeyOf(f)
               old == k \in DOMAIN nodes
               n == nodes'[k]
           IN /\ n \in Node
              /\ n.occs = (IF old THEN nodes[k].occs ELSE {}) \cup {f.occ}
              /\ n.agent = IF <<k, f.occ>> \notin seen /\ f.agent # NoAgent
                             THEN f.agent
                             ELSE IF old THEN nodes[k].agent ELSE NoAgent
              /\ IF old /\ ~(f.sev > nodes[k].sev)
                   THEN n.sev = nodes[k].sev /\ n.riskFrom = nodes[k].riskFrom
                   ELSE n.sev = f.sev /\ n.riskFrom = i + 1
<1> DEFINE f == findings[i + 1]
           k == KeyOf(f)
           r == WithRisk(f, k)
<1>1. i + 1 \in 1 .. MaxFindings /\ f \in Finding
  BY NodesNext, MaxFindingsAssumption DEF IInv, TypeOK
<1>2. k \in DOMAIN nodes => nodes[k] \in Node
  BY DEF IInv, TypeOK
<1>3. r \in Node
  BY <1>1, <1>2 DEF WithRisk, Node, Finding
<1>4. r.occs = IF k \in DOMAIN nodes THEN nodes[k].occs ELSE {}
  BY <1>2 DEF WithRisk, Node
<1>5. r.agent = IF k \in DOMAIN nodes THEN nodes[k].agent ELSE NoAgent
  BY <1>2 DEF WithRisk, Node
<1>6. IF k \in DOMAIN nodes /\ ~(f.sev > nodes[k].sev)
        THEN r.sev = nodes[k].sev /\ r.riskFrom = nodes[k].riskFrom
        ELSE r.sev = f.sev /\ r.riskFrom = i + 1
  BY <1>2 DEF WithRisk, Node
<1>7. CASE <<k, f.occ>> \in seen
  <2>1. nodes'[k] = r
    BY <1>7, NodesNext DEF WithOccurrence
  <2>2. k \in DOMAIN nodes /\ f.occ \in nodes[k].occs
    BY <1>1, <1>7 DEF IInv, Bookkeeping, Finding
  <2> HIDE DEF r
  <2> QED
    BY <1>3, <1>4, <1>5, <1>6, <1>7, <2>1, <2>2
<1>8. CASE <<k, f.occ>> \notin seen
  <2> DEFINE a == IF f.agent # NoAgent THEN f.agent ELSE r.agent
  <2>1. nodes'[k] = [r EXCEPT !.occs = r.occs \cup {f.occ}, !.agent = a]
    BY <1>8, NodesNext DEF WithOccurrence
  <2> HIDE DEF r
  <2>0. f.occ \in Occ /\ a \in Agent \cup {NoAgent}
    BY <1>1, <1>3 DEF Node, Finding
  <2>2. /\ nodes'[k] \in Node
        /\ nodes'[k].occs = r.occs \cup {f.occ}
        /\ nodes'[k].agent = IF f.agent # NoAgent THEN f.agent ELSE r.agent
        /\ nodes'[k].sev = r.sev /\ nodes'[k].riskFrom = r.riskFrom
    <3> HIDE DEF a, f, k
    <3>1. /\ nodes'[k] \in Node
          /\ nodes'[k].occs = r.occs \cup {f.occ} /\ nodes'[k].agent = a
          /\ nodes'[k].sev = r.sev /\ nodes'[k].riskFrom = r.riskFrom
      BY <1>3, <2>0, <2>1 DEF Node
    <3> QED
      BY <3>1 DEF a
  <2>3. nodes'[k].occs = (IF k \in DOMAIN nodes THEN nodes[k].occs ELSE {}) \cup {f.occ}
    BY <1>4, <2>2
  <2>4. nodes'[k].agent = IF <<k, f.occ>> \notin seen /\ f.agent # NoAgent
                            THEN f.agent
                            ELSE IF k \in DOMAIN nodes THEN nodes[k].agent ELSE NoAgent
    BY <1>5, <1>8, <2>2
  <2>5. IF k \in DOMAIN nodes /\ ~(f.sev > nodes[k].sev)
          THEN nodes'[k].sev = nodes[k].sev /\ nodes'[k].riskFrom = nodes[k].riskFrom
          ELSE nodes'[k].sev = f.sev /\ nodes'[k].riskFrom = i + 1
    BY <1>6, <2>2
  <2> QED
    BY <2>2, <2>3, <2>4, <2>5
<1> QED
  BY <1>7, <1>8

LEMMA BookkeepingNext ==
    ASSUME IInv, AddFinding
    PROVE  Bookkeeping'
<1> DEFINE f == findings[i + 1]
           k == KeyOf(f)
<1> USE NodesNext
<1>1. \A x \in DOMAIN nodes' : \A o \in Occ :
         <<x, o>> \in seen' <=> o \in nodes'[x].occs
  <2> SUFFICES ASSUME NEW x \in DOMAIN nodes', NEW o \in Occ
               PROVE  <<x, o>> \in seen' <=> o \in nodes'[x].occs
    OBVIOUS
  <2>1. CASE x # k
    BY <2>1 DEF IInv, Bookkeeping
  <2>2. CASE x = k /\ k \in DOMAIN nodes
    <3>1. nodes'[k].occs = nodes[k].occs \cup {f.occ}
      BY <2>2, NodeWritten
    <3> QED
      BY <2>2, <3>1 DEF IInv, Bookkeeping
  <2>3. CASE x = k /\ k \notin DOMAIN nodes
    <3>1. <<k, o>> \notin seen
      BY <2>3 DEF IInv, Bookkeeping
    <3>2. nodes'[k].occs = {f.occ}
      BY <2>3, NodeWritten
    <3> QED
      BY <2>3, <3>1, <3>2
  <2> QED
    BY <2>1, <2>2, <2>3
<1>2. \A x \in seen' : x[1] \in DOMAIN nodes'
  BY DEF IInv, Bookkeeping
<1>3. {order'[p] : p \in DOMAIN order'} = DOMAIN nodes'
  <2>1. order \in Seq(Key) /\ {order[p] : p \in DOMAIN order} = DOMAIN nodes
    BY DEF IInv, TypeOK, Bookkeeping
  <2>2. CASE k \in DOMAIN nodes
    <3>1. order' = order /\ DOMAIN nodes' = DOMAIN nodes
      BY <2>2 DEF AddFinding
    <3> QED
      BY <2>1, <3>1
  <2>3. CASE k \notin DOMAIN nodes
    <3>1. order' = Append(order, k)
      BY <2>3 DEF AddFinding
    <3>2. DOMAIN order' = DOMAIN order \cup {Len(order) + 1}
      BY <2>1, <3>1
    <3>3. \A p \in DOMAIN order : order'[p] = order[p]
      BY <2>1, <3>1
    <3>4. order'[Len(order) + 1] = k
      BY <2>1, <3>1
    <3> QED
      BY <2>1, <3>2, <3>3, <3>4
  <2> QED
    BY <2>2, <2>3
<1> QED
  BY <1>1, <1>2, <1>3 DEF Bookkeeping

LEMMA FoldNext ==
    ASSUME IInv, AddFinding
    PROVE  BuildFoldsPrefix'
<1> DEFINE f == findings[i + 1]
           k == KeyOf(f)
<1>a. i \in Nat /\ i < Len(findings) /\ f \in Finding /\ TypeOK
  BY NodesNext DEF AddFinding, IInv, TypeOK
<1>b. \A x : Of(x, i + 1) = IF k = x THEN Of(x, i) \cup {i + 1} ELSE Of(x, i)
  BY <1>a, OfNext
<1>c. \A x \in DOMAIN nodes :
         /\ RiskIsFirstMax(nodes[x], x, i)
         /\ nodes[x].occs = {findings[j].occ : j \in Of(x, i)}
         /\ AgentIsLast(nodes[x], x, i)
  BY DEF IInv, BuildFoldsPrefix
<1>d. k \notin DOMAIN nodes => Of(k, i) = {}
  BY DEF IInv, BuildFoldsPrefix, Of
<1>e. \A x : \A j \in Of(x, i) : j \in 1 .. i /\ findings[j].sev \in Severity
  <2> SUFFICES ASSUME NEW x, NEW j \in Of(x, i)
               PROVE  j \in 1 .. i /\ findings[j].sev \in Severity
    OBVIOUS
  <2>1. j \in 1 .. Len(findings) /\ j \in 1 .. i
    BY <1>a DEF Of
  <2>2. findings[j] \in Finding
    BY <1>a, <2>1 DEF TypeOK
  <2> QED
    BY <2>1, <2>2 DEF Finding
<1>1. DOMAIN nodes' = {KeyOf(findings[j]) : j \in 1 .. i + 1}
  <2>1. DOMAIN nodes = {KeyOf(findings[j]) : j \in 1 .. i}
    BY DEF IInv, BuildFoldsPrefix
  <2>2. 1 .. i + 1 = (1 .. i) \cup {i + 1}
    BY <1>a
  <2> QED
    BY <2>1, <2>2, NodesNext
<1>2. ASSUME NEW x \in DOMAIN nodes'
      PROVE  RiskIsFirstMax(nodes'[x], x, i + 1)
  <2>1. CASE x # k
    <3>1. x \in DOMAIN nodes /\ nodes'[x] = nodes[x] /\ Of(x, i + 1) = Of(x, i)
      BY <1>b, <2>1, NodesNext
    <3> QED
      BY <1>c, <3>1 DEF RiskIsFirstMax
  <2>2. CASE x = k
    <3> DEFINE n == nodes'[k]
    <3>1. Of(k, i + 1) = Of(k, i) \cup {i + 1}
      BY <1>b
    <3>2. f.sev \in Severity /\ (k \in DOMAIN nodes => nodes[k].sev \in Severity)
      BY <1>a DEF TypeOK, Node, Finding
    <3>3. CASE k \in DOMAIN nodes /\ ~(f.sev > nodes[k].sev)
      <4>1. n.sev = nodes[k].sev /\ n.riskFrom = nodes[k].riskFrom
        BY <3>3, NodeWritten
      <4>2. RiskIsFirstMax(nodes[k], k, i)
        BY <1>c, <3>3
      <4> HIDE DEF n, f, k
      <4>3. n.riskFrom \in Of(k, i) /\ n.riskFrom \in 1 .. i
        BY <1>e, <4>1, <4>2 DEF RiskIsFirstMax
      <4>4. f.sev <= n.sev /\ n.riskFrom <= i + 1
        BY <1>a, <3>2, <3>3, <4>1, <4>3 DEF Severity
      <4> QED
        BY <2>2, <3>1, <4>1, <4>2, <4>3, <4>4 DEF RiskIsFirstMax, f, n, k
    <3>4. CASE k \notin DOMAIN nodes \/ f.sev > nodes[k].sev
      <4>1. n.sev = f.sev /\ n.riskFrom = i + 1
        BY <3>4, NodeWritten
      <4>2. \A m \in Of(k, i) : findings[m].sev < f.sev
        <5> SUFFICES ASSUME NEW m \in Of(k, i) PROVE findings[m].sev < f.sev
          OBVIOUS
        <5>1. k \in DOMAIN nodes /\ f.sev > nodes[k].sev
          BY <1>d, <3>4
        <5>2. findings[m].sev <= nodes[k].sev
          BY <1>c, <5>1 DEF RiskIsFirstMax
        <5> QED
          BY <1>e, <3>2, <5>1, <5>2 DEF Severity
      <4> HIDE DEF n
      <4> QED
        BY <1>a, <1>e, <2>2, <3>1, <3>2, <4>1, <4>2 DEF RiskIsFirstMax, Severity, n
    <3> QED
      BY <3>3, <3>4
  <2> QED
    BY <2>1, <2>2
<1>3. ASSUME NEW x \in DOMAIN nodes'
      PROVE  nodes'[x].occs = {findings[j].occ : j \in Of(x, i + 1)}
  <2>1. CASE x # k
    BY <1>b, <1>c, <2>1, NodesNext
  <2>2. CASE x = k /\ k \in DOMAIN nodes
    <3>1. nodes'[k].occs = nodes[k].occs \cup {f.occ}
      BY <2>2, NodeWritten
    <3> QED
      BY <1>b, <1>c, <2>2, <3>1
  <2>3. CASE x = k /\ k \notin DOMAIN nodes
    <3>1. nodes'[k].occs = {f.occ} /\ Of(k, i + 1) = {i + 1}
      BY <1>b, <1>d, <2>3, NodeWritten
    <3> QED
      BY <2>3, <3>1
  <2> QED
    BY <2>1, <2>2, <2>3
<1>f. 1 .. i + 1 = (1 .. i) \cup {i + 1} /\ i + 1 \notin 1 .. i
  BY <1>a
<1>g. \A x : \A j \in 1 .. i : NamesAgent(j, x, i + 1) <=> NamesAgent(j, x, i)
  <2> SUFFICES ASSUME NEW x, NEW j \in 1 .. i
               PROVE  NamesAgent(j, x, i + 1) <=> NamesAgent(j, x, i)
    OBVIOUS
  <2>1. j \in 1 .. i + 1 /\ j <= i
    BY <1>a
  <2>2. IsFresh(j, x, i + 1) <=> IsFresh(j, x, i)
    BY <1>a, <2>1, FreshNext
  <2> QED
    BY <2>2 DEF NamesAgent
<1>h. \A x : NamesAgent(i + 1, x, i + 1)
              <=> k = x /\ <<x, f.occ>> \notin seen /\ f.agent # NoAgent
  BY <1>a, <1>f, FreshNext DEF NamesAgent
<1>4. ASSUME NEW x \in DOMAIN nodes'
      PROVE  AgentIsLast(nodes'[x], x, i + 1)
  <2> DEFINE n == nodes'[x]
             names == k = x /\ <<x, f.occ>> \notin seen /\ f.agent # NoAgent
  <2>1. CASE names
    <3>1. n.agent = f.agent
      BY <2>1, NodeWritten
    <3>2. NamesAgent(i + 1, x, i + 1)
      BY <1>h, <2>1
    <3>3. \A m \in 1 .. i + 1 : m <= i + 1
      BY <1>a
    <3> HIDE DEF n, names
    <3> QED
      BY <1>f, <3>1, <3>2, <3>3 DEF AgentIsLast, n
  <2>2. CASE ~names
    <3>1. ~NamesAgent(i + 1, x, i + 1)
      BY <1>h, <2>2
    <3>2. CASE x \in DOMAIN nodes
      <4>1. n.agent = nodes[x].agent
        BY <2>2, <3>2, NodesNext, NodeWritten
      <4>2. AgentIsLast(nodes[x], x, i)
        BY <1>c, <3>2
      <4> HIDE DEF n, names
      <4> QED
        BY <1>f, <1>g, <3>1, <4>1, <4>2 DEF AgentIsLast, n
    <3>3. CASE x \notin DOMAIN nodes
      <4>1. x = k /\ n.agent = NoAgent
        BY <2>2, <3>3, NodesNext, NodeWritten
      <4>2. \A j \in 1 .. i : ~NamesAgent(j, x, i)
        BY <1>d, <3>3, <4>1 DEF NamesAgent, IsFresh
      <4> HIDE DEF n, names
      <4> QED
        BY <1>f, <1>g, <3>1, <4>1, <4>2 DEF AgentIsLast, n
    <3> QED
      BY <3>2, <3>3
  <2> QED
    BY <2>1, <2>2
<1>5. i' = i + 1 /\ findings' = findings
  BY NodesNext
<1> HIDE DEF f, k
<1>6. ASSUME NEW x \in DOMAIN nodes'
      PROVE  /\ RiskIsFirstMax(nodes[x], x, i)'
             /\ (nodes[x].occs = {findings[j].occ : j \in Of(x, i)})'
             /\ AgentIsLast(nodes[x], x, i)'
  <2>1. RiskIsFirstMax(nodes[x], x, i)'
    BY <1>2, <1>5, <1>6 DEF RiskIsFirstMax, Of
  <2>2. (nodes[x].occs = {findings[j].occ : j \in Of(x, i)})'
    BY <1>3, <1>5, <1>6 DEF Of
  <2>3. AgentIsLast(nodes[x], x, i)'
    BY <1>4, <1>5, <1>6 DEF AgentIsLast, NamesAgent, IsFresh, Of
  <2> QED
    BY <2>1, <2>2, <2>3
<1> QED
  BY <1>1, <1>5, <1>6 DEF BuildFoldsPrefix

-----------------------------------------------------------------------------
(* The sort changes the result and nothing else.                           *)

LEMMA SortOutKeeps ==
    ASSUME IInv, SortOut
    PROVE  IInv'
<1>1. PICK s \in [DOMAIN order -> DOMAIN order] :
         out' = [p \in DOMAIN order |-> order[s[p]]]
  BY DEF SortOut
<1>2. order \in Seq(Key) /\ DOMAIN order = 1 .. Len(order) /\ Len(order) \in Nat
  BY DEF IInv, TypeOK
<1>3. \A p \in 1 .. Len(order) : order[s[p]] \in Key
  BY <1>1, <1>2
<1>4. out' \in Seq(Key)
  BY <1>1, <1>2, <1>3
<1>5. UNCHANGED <<findings, i, nodes, seen, order>>
  BY DEF SortOut
<1>6. TypeOK'
  BY <1>4, <1>5 DEF IInv, TypeOK
<1>7. Bookkeeping'
  BY <1>5 DEF IInv, Bookkeeping
<1>8. BuildFoldsPrefix'
  BY <1>5 DEF IInv, BuildFoldsPrefix, RiskIsFirstMax, AgentIsLast, NamesAgent,
              IsFresh, Of
<1> QED
  BY <1>6, <1>7, <1>8 DEF IInv

LEMMA StutterKeeps ==
    ASSUME IInv, UNCHANGED vars
    PROVE  IInv'
<1>1. TypeOK'
  BY DEF IInv, TypeOK, vars
<1>2. Bookkeeping'
  BY DEF IInv, Bookkeeping, vars
<1>3. BuildFoldsPrefix'
  BY DEF IInv, BuildFoldsPrefix, RiskIsFirstMax, AgentIsLast, NamesAgent,
         IsFresh, Of, vars
<1> QED
  BY <1>1, <1>2, <1>3 DEF IInv

LEMMA Inductive == Spec => []IInv
<1>1. IInv /\ [Next]_vars => IInv'
  <2> SUFFICES ASSUME IInv, [Next]_vars PROVE IInv'
    OBVIOUS
  <2>1. CASE AddFinding
    BY <2>1, AddFindingType, BookkeepingNext, FoldNext DEF IInv
  <2>2. CASE SortOut
    BY <2>2, SortOutKeeps
  <2>3. CASE UNCHANGED vars
    BY <2>3, StutterKeeps
  <2> QED
    BY <2>1, <2>2, <2>3 DEF Next
<1> QED
  BY <1>1, InitIInv, PTL DEF Spec

-----------------------------------------------------------------------------
(* The theorems.                                                           *)

\* The node map, the bookkeeping and the result keep their types.
THEOREM TypeCorrect == Spec => []TypeOK
BY Inductive, PTL DEF IInv

\* However many findings there are and in whatever order they come, the map
\* graph.Build has built after any prefix of them is the one the prefix
\* determines: a node per (asset, class), the first most severe risk, the
\* distinct occurrences, the last agent.
THEOREM BuildIsCorrect == Spec => []BuildFoldsPrefix
BY Inductive, PTL DEF IInv

\* A gate over nodes and a gate over findings always agree: --fail-on and a
\* --fail-on-new whose baseline is empty give one verdict.
THEOREM GatesAgree == Spec => []GateAgreement
<1>1. IInv => GateAgreement
  <2> SUFFICES ASSUME IInv, NEW t \in Severity
               PROVE  (\E j \in 1 .. i : Gates(findings[j].class, findings[j].sev, t))
                        <=> (\E k \in DOMAIN nodes : Gates(k[2], nodes[k].sev, t))
    BY DEF GateAgreement
  <2>1. \A j \in 1 .. i : findings[j] \in Finding
    BY DEF IInv, TypeOK
  <2>2. ASSUME NEW j \in 1 .. i, Gates(findings[j].class, findings[j].sev, t)
        PROVE  \E k \in DOMAIN nodes : Gates(k[2], nodes[k].sev, t)
    <3> DEFINE k == KeyOf(findings[j])
    <3>1. k \in DOMAIN nodes /\ j \in Of(k, i) /\ k[2] = findings[j].class
      BY DEF IInv, BuildFoldsPrefix, Of, KeyOf
    <3>2. findings[j].sev <= nodes[k].sev
      BY <3>1 DEF IInv, BuildFoldsPrefix, RiskIsFirstMax
    <3>3. findings[j].sev \in Severity /\ nodes[k].sev \in Severity
      BY <2>1, <3>1 DEF IInv, TypeOK, Node, Finding
    <3>4. nodes[k].sev >= t
      BY <2>2, <3>2, <3>3 DEF Gates, Severity
    <3> HIDE DEF k
    <3> QED
      BY <2>2, <3>1, <3>4 DEF Gates
  <2>3. ASSUME NEW k \in DOMAIN nodes, Gates(k[2], nodes[k].sev, t)
        PROVE  \E j \in 1 .. i : Gates(findings[j].class, findings[j].sev, t)
    <3> DEFINE j == nodes[k].riskFrom
    <3>1. j \in Of(k, i) /\ nodes[k].sev = findings[j].sev
      BY DEF IInv, BuildFoldsPrefix, RiskIsFirstMax
    <3>2. j \in 1 .. i /\ k[2] = findings[j].class
      BY <3>1 DEF Of, KeyOf
    <3> QED
      BY <2>3, <3>1, <3>2 DEF Gates
  <2> QED
    BY <2>2, <2>3
<1> QED
  BY <1>1, Inductive, PTL

=============================================================================
