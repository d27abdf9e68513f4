--------------------------- MODULE QryxRunProofs ---------------------------
(***************************************************************************)
(* For any number of runs, findings and flags: the exit code of a run is   *)
(* the verdict its findings deserve, a drift gate never decides without a  *)
(* comparison, and what a run leaves for the runs beside and after it is   *)
(* complete, free of test code, and what their drift gates compare with.   *)
(***************************************************************************)
EXTENDS QryxRun, TLAPS

-----------------------------------------------------------------------------
(* Deduplication: what SeverityOf and Build return.                        *)

LEMMA MaximumExists ==
    ASSUME NEW T \in SUBSET Severity, T # {}
    PROVE  \E s \in T : \A t \in T : t <= s
<1> USE DEF Severity
<1>1. CASE 5 \in T
  BY <1>1
<1>2. CASE 5 \notin T /\ 4 \in T
  BY <1>2
<1>3. CASE 5 \notin T /\ 4 \notin T /\ 3 \in T
  BY <1>3
<1>4. CASE 5 \notin T /\ 4 \notin T /\ 3 \notin T /\ 2 \in T
  BY <1>4
<1>5. CASE 5 \notin T /\ 4 \notin T /\ 3 \notin T /\ 2 \notin T /\ 1 \in T
  BY <1>5
<1>6. CASE \A s \in 1 .. 5 : s \notin T
  <2>1. ASSUME NEW t \in T PROVE t = 0
    <3>1. t \in 0 .. 5 /\ t \notin 1 .. 5
      BY <1>6
    <3> QED
      BY <3>1
  <2>2. \E s \in T : s = 0
    BY <2>1
  <2>3. \A t \in T : t <= 0
    BY <2>1
  <2> QED
    BY <2>2, <2>3
<1> QED
  BY <1>1, <1>2, <1>3, <1>4, <1>5, <1>6

\* SeverityOf is the severity of some finding of the key, and of none below it.
LEMMA SeverityOfIsMax ==
    ASSUME NEW S \in SUBSET Finding, NEW k \in KeysOf(S)
    PROVE  /\ SeverityOf(S, k) \in Severity
           /\ \E f \in S : KeyOf(f) = k /\ f.sev = SeverityOf(S, k)
           /\ \A f \in S : KeyOf(f) = k => f.sev <= SeverityOf(S, k)
<1> DEFINE T == {f.sev : f \in {g \in S : KeyOf(g) = k}}
           IsMax(s) == /\ \E f \in S : KeyOf(f) = k /\ f.sev = s
                       /\ \A f \in S : KeyOf(f) = k => f.sev <= s
<1>1. T \in SUBSET Severity /\ T # {}
  BY DEF Finding, KeysOf
<1>2. PICK s \in T : \A t \in T : t <= s
  BY <1>1, MaximumExists
<1>3. s \in Severity /\ IsMax(s)
  BY <1>1, <1>2
<1>4. SeverityOf(S, k) = CHOOSE x \in Severity : IsMax(x)
  BY DEF SeverityOf
<1>5. SeverityOf(S, k) \in Severity /\ IsMax(SeverityOf(S, k))
  <2> HIDE DEF IsMax
  <2> QED
    BY <1>3, <1>4
<1> QED
  BY <1>5

LEMMA KeyType ==
    ASSUME NEW f \in Finding
    PROVE  KeyOf(f) \in Key /\ KeyOf(f)[1] = f.asset /\ KeyOf(f)[2] = f.class
<1>1. f.asset \in Asset /\ f.class \in Class
  BY DEF Finding
<1> QED
  BY <1>1 DEF KeyOf, Key

LEMMA KeysType ==
    ASSUME NEW S \in SUBSET Finding
    PROVE  KeysOf(S) \in SUBSET Key
BY KeyType DEF KeysOf

LEMMA BuildType ==
    ASSUME NEW S \in SUBSET Finding
    PROVE  Build(S) \in Graph /\ DOMAIN Build(S) = KeysOf(S)
<1>1. Build(S) \in [KeysOf(S) -> Severity]
  BY SeverityOfIsMax DEF Build
<1> QED
  BY <1>1, KeysType DEF Graph, Build

\* A gate that looks at the nodes of T stops exactly when one that looks at
\* T's findings would.  T keeps the findings of a key together.
LEMMA NodesGateLikeFindings ==
    ASSUME NEW S \in SUBSET Finding, NEW T \in SUBSET S,
           \A f \in S, g \in T : KeyOf(f) = KeyOf(g) => f \in T,
           NEW t \in Nat
    PROVE  (\E k \in KeysOf(T) : Gates(k[2], SeverityOf(S, k), t))
             <=> (\E f \in T : Gates(f.class, f.sev, t))
<1>1. ASSUME NEW k \in KeysOf(T), Gates(k[2], SeverityOf(S, k), t)
      PROVE  \E f \in T : Gates(f.class, f.sev, t)
  <2>1. k \in KeysOf(S)
    BY <1>1 DEF KeysOf
  <2>2. PICK f \in S : KeyOf(f) = k /\ f.sev = SeverityOf(S, k)
    BY <2>1, SeverityOfIsMax
  <2>3. f \in T
    BY <1>1, <2>2 DEF KeysOf
  <2>4. f.class = k[2]
    BY <2>2, KeyType
  <2> QED
    BY <1>1, <2>2, <2>3, <2>4
<1>2. ASSUME NEW f \in T, Gates(f.class, f.sev, t)
      PROVE  \E k \in KeysOf(T) : Gates(k[2], SeverityOf(S, k), t)
  <2>1. KeyOf(f) \in KeysOf(T) /\ KeyOf(f) \in KeysOf(S)
    BY DEF KeysOf
  <2>2. f.sev <= SeverityOf(S, KeyOf(f)) /\ SeverityOf(S, KeyOf(f)) \in Severity
    BY <2>1, SeverityOfIsMax
  <2>3. KeyOf(f)[2] = f.class /\ f.sev \in Severity
    BY KeyType DEF Finding
  <2> QED
    BY <1>2, <2>1, <2>2, <2>3 DEF Gates, Severity
<1> QED
  BY <1>1, <1>2

LEMMA NodesBreachLikeFindings ==
    ASSUME NEW S \in SUBSET Finding, NEW T \in SUBSET S,
           \A f \in S, g \in T : KeyOf(f) = KeyOf(g) => f \in T,
           NEW p \in Policy
    PROVE  (\E k \in KeysOf(T) : Breaches(p, k, SeverityOf(S, k)))
             <=> (\E f \in T : Breaches(p, KeyOf(f), f.sev))
<1>1. ASSUME NEW k \in KeysOf(T), Breaches(p, k, SeverityOf(S, k))
      PROVE  \E f \in T : Breaches(p, KeyOf(f), f.sev)
  <2>1. k \in KeysOf(S)
    BY <1>1 DEF KeysOf
  <2>2. PICK f \in S : KeyOf(f) = k /\ f.sev = SeverityOf(S, k)
    BY <2>1, SeverityOfIsMax
  <2>3. f \in T
    BY <1>1, <2>2 DEF KeysOf
  <2> QED
    BY <1>1, <2>2, <2>3
<1>2. ASSUME NEW f \in T, Breaches(p, KeyOf(f), f.sev)
      PROVE  \E k \in KeysOf(T) : Breaches(p, k, SeverityOf(S, k))
  <2>1. KeyOf(f) \in KeysOf(T) /\ KeyOf(f) \in KeysOf(S)
    BY DEF KeysOf
  <2>2. f.sev <= SeverityOf(S, KeyOf(f)) /\ SeverityOf(S, KeyOf(f)) \in Severity
    BY <2>1, SeverityOfIsMax
  <2>3. f.sev \in Severity /\ p.max \in Severity
    BY DEF Finding, Policy
  <2>4. f.sev > p.max => SeverityOf(S, KeyOf(f)) > p.max
    BY <2>2, <2>3 DEF Severity
  <2>5. Breaches(p, KeyOf(f), SeverityOf(S, KeyOf(f)))
    BY <1>2, <2>4 DEF Breaches
  <2> QED
    BY <2>1, <2>5
<1> QED
  BY <1>1, <1>2

-----------------------------------------------------------------------------
(* The inductive invariant.                                                *)

\* What is new is told from the loaded baseline alone.
AddedIsFresh(r) == added[r] = KeysOf(Fresh(r))

\* The steps behind the comparison with the baseline.
Compared == {"drift", "report", "evidence", "policy", "violations", "failOn",
             "failOnNew"}

\* A run holds no baseline before its Load.
NotLoadedYet(r) ==
    pc[r] \in {"start", "emitFindings", "save", "baseline"} => base[r] = None

\* The gates a run is past have found nothing.
GatesPassed(r) ==
    /\ pc[r] # "done" => exit[r] = ""
    /\ pc[r] \in {"failOn", "failOnNew"} => ~PolicyBroken(r)
    /\ pc[r] = "violations" => flags[r].policy \in Policy
    /\ pc[r] = "failOnNew" => ~AnySevere(r)

\* A gate that needs the comparison has it, from the comparison on.
ComparedWhenGated(r) ==
    /\ pc[r] \in Compared \/ exit[r] \in Decided
    /\ DriftGated(flags[r]) /\ ~flags[r].allow /\ flags[r].baseline # None
    => base[r] # None

DecidedRight(r) == exit[r] \in Decided => exit[r] = Verdict(r)

RunInv(r) == /\ AddedIsFresh(r) /\ NotLoadedYet(r) /\ GatesPassed(r)
             /\ ComparedWhenGated(r) /\ DecidedRight(r)

IInv == TypeOK /\ \A r \in Run : RunInv(r)

LEMMA InitIInv == Init => IInv
<1> SUFFICES ASSUME Init PROVE IInv
  OBVIOUS
<1>1. TypeOK
  <2>1. store \in [Target -> Snapshot \cup {None}]
    <3>1. ASSUME NEW s \in Scan
          PROVE  [graph |-> Build(s.prod), by |-> Outside] \in Snapshot
      <4>1. s.prod \in SUBSET Finding
        BY ScanAssumption DEF ScanResult
      <4> QED
        BY <4>1, BuildType DEF Snapshot
    <3> QED
      BY <3>1 DEF Init
  <2> QED
    BY <2>1 DEF Init, TypeOK
<1>2. ASSUME NEW r \in Run PROVE RunInv(r)
  <2>1. AddedIsFresh(r)
    BY DEF Init, AddedIsFresh, Fresh, KeysOf
  <2>2. NotLoadedYet(r) /\ GatesPassed(r)
    BY DEF Init, NotLoadedYet, GatesPassed
  <2>3. ComparedWhenGated(r) /\ DecidedRight(r)
    BY DEF Init, ComparedWhenGated, Compared, DecidedRight, Decided
  <2> QED
    BY <2>1, <2>2, <2>3 DEF RunInv
<1> QED
  BY <1>1, <1>2 DEF IInv

-----------------------------------------------------------------------------
(* Types.                                                                  *)

LEMMA FlagTypes ==
    ASSUME TypeOK, NEW r \in Run, pc[r] # "start"
    PROVE  /\ flags[r] \in Flags /\ flags[r] \in CommandLine
           /\ scan[r] \in Scan /\ scan[r] \in ScanResult
BY FlagsAssumption, ScanAssumption DEF TypeOK

LEMMA EventTypes ==
    ASSUME TypeOK, NEW r \in Run
    PROVE  /\ pc[r] # "start" => FindingEvents(r) \in SUBSET Event
           /\ pc[r] # "start" => DriftEvents(r) \in SUBSET Event
           /\ pc[r] # "start" => SigningEvents(r) \in SUBSET Event
           /\ pc[r] # "start" => ViolationEvents(r) \in SUBSET Event
<1>1. findings[r] \in SUBSET Finding /\ added[r] \in SUBSET Key
  BY DEF TypeOK
<1>2. Tagged(findings[r]) \in SUBSET Finding
  BY <1>1 DEF Tagged
<1>3. KeysOf(Tagged(findings[r])) \in SUBSET Key
  BY <1>2, KeysType
<1>4. {f.agent : f \in Tagged(findings[r])} \in SUBSET Agent
  BY <1>1 DEF Tagged, Finding
<1>5. ASSUME NEW type \in {"crypto_finding", "crypto_drift", "policy_violation",
                           "evidence_signed"},
             NEW whats \in SUBSET (Key \cup Agent)
      PROVE  Events(r, type, whats) \in SUBSET Event
  BY <1>5 DEF Events, Event
<1> QED
  BY <1>3, <1>4, <1>5 DEF FindingEvents, DriftEvents, SigningEvents, ViolationEvents

LEMMA EmitTypes ==
    ASSUME NEW r, NEW due \in SUBSET Event, log \in SUBSET Event,
           Emit(due) \/ EmitBreaks(r, due) \/ UNCHANGED log
    PROVE  log' \in SUBSET Event
BY DEF Emit, EmitBreaks

\* Wherever a step goes, it goes to a step or to an exit code.
LEMMA MoveTypes ==
    ASSUME TypeOK, NEW r \in Run,
           \/ \E l \in Steps : Goto(r, l)
           \/ \E code \in {"0", "1", "2", "3", "killed"} : Exit(r, code)
    PROVE  /\ pc' \in [Run -> {"start", "done"} \cup Steps]
           /\ exit' \in [Run -> {"", "0", "1", "2", "3", "killed"}]
           /\ \A q \in Run \ {r} : pc'[q] = pc[q] /\ exit'[q] = exit[q]
           /\ pc'[r] # "start"
<1> DEFINE P == {"start", "done"} \cup Steps
           E == {"", "0", "1", "2", "3", "killed"}
<1>1. pc \in [Run -> P] /\ exit \in [Run -> E]
  BY DEF TypeOK
<1>2. "start" \notin Steps
  BY DEF Steps
<1>3. PICK l \in P \ {"start"} : pc' = [pc EXCEPT ![r] = l]
  BY <1>2 DEF Goto, Exit
<1>4. PICK x \in E : exit' = [exit EXCEPT ![r] = x]
  <2>1. CASE exit' = exit
    <3>1. exit' = [exit EXCEPT ![r] = exit[r]] /\ exit[r] \in E
      BY <1>1, <2>1
    <3> QED
      BY <3>1
  <2>2. CASE \E x \in E : exit' = [exit EXCEPT ![r] = x]
    BY <2>2
  <2> QED
    BY <2>1, <2>2 DEF Goto, Exit
<1> HIDE DEF P, E
<1>5. pc' \in [Run -> P] /\ pc'[r] # "start" /\ \A q \in Run \ {r} : pc'[q] = pc[q]
  BY <1>1, <1>3
<1>6. exit' \in [Run -> E] /\ \A q \in Run \ {r} : exit'[q] = exit[q]
  BY <1>1, <1>4
<1> QED
  BY <1>5, <1>6 DEF P, E

LEMMA SnapTypes ==
    ASSUME TypeOK, NEW r \in Run
    PROVE  Snap(r) \in Snapshot
BY BuildType DEF TypeOK, Snap, Snapshot

LEMMA DriftKeys ==
    ASSUME NEW b \in Snapshot, NEW S \in SUBSET Finding
    PROVE  /\ Drift(b.graph, Build(S)) \in SUBSET Key
           /\ Drift(b.graph, Build(S)) = {k \in KeysOf(S) : k \notin DOMAIN b.graph}
BY BuildType, KeysType DEF Drift, Added

\* What a run may be started with is a command line.
LEMMA OfferedFlags == Offered \subseteq Flags
BY FlagsAssumption DEF Offered

LEMMA StepType ==
    ASSUME TypeOK, NEW r \in Run, Step(r)
    PROVE  TypeOK'
<1> DEFINE Moves ==
             /\ pc' \in [Run -> {"start", "done"} \cup Steps]
             /\ exit' \in [Run -> {"", "0", "1", "2", "3", "killed"}]
             /\ \A q \in Run \ {r} : pc'[q] = pc[q] /\ exit'[q] = exit[q]
             /\ pc'[r] # "start"
           Given == flags[r] # None /\ scan[r] # None
<1>1. ASSUME NEW f \in Flags, NEW s \in Scan, ScanTarget(r, f, s) PROVE TypeOK'
  <2>1. Moves
    BY <1>1, MoveTypes DEF ScanTarget, Broken, Steps
  <2>2. f \in CommandLine /\ s \in ScanResult /\ Production(f, s) \in SUBSET Finding
    BY FlagsAssumption, ScanAssumption DEF ScanResult, Production
  <2>3. f # None /\ s # None
    BY NoneAssumption
  <2> QED
    BY <1>1, <2>1, <2>2, <2>3 DEF ScanTarget, TypeOK
<1>2. ASSUME Moves, UNCHANGED input, pc[r] # "start",
             base' \in [Run -> Snapshot \cup {None}],
             added' \in [Run -> SUBSET Key],
             store' \in [Target -> Snapshot \cup {None}],
             log' \in SUBSET Event, trail' \in SUBSET Run
      PROVE  TypeOK'
  BY <1>2 DEF TypeOK, input
<1>3. CASE EmitFindings(r)
  <2>1. Moves
    BY <1>3, MoveTypes DEF EmitFindings, EmitBreaks, Broken, Steps
  <2>2. log' \in SUBSET Event
    BY <1>3, EventTypes, EmitTypes DEF EmitFindings, TypeOK
  <2> QED
    BY <1>2, <1>3, <2>1, <2>2 DEF EmitFindings, TypeOK
<1>4. CASE SaveSnapshot(r)
  <2>1. Moves
    BY <1>4, MoveTypes DEF SaveSnapshot, Broken, Steps
  <2>2. flags[r].save \in Target \cup {None}
    BY <1>4, FlagTypes DEF SaveSnapshot, CommandLine
  <2>3. store' \in [Target -> Snapshot \cup {None}]
    BY <1>4, <2>2, SnapTypes DEF SaveSnapshot, TypeOK
  <2> QED
    BY <1>2, <1>4, <2>1, <2>3 DEF SaveSnapshot, TypeOK
<1>5. CASE LoadBaseline(r)
  <2>1. Moves
    BY <1>5, MoveTypes DEF LoadBaseline, MissingBaseline, Broken, Steps
  <2>2. flags[r].baseline \in Target \cup {None} /\ findings[r] \in SUBSET Finding
    BY <1>5, FlagTypes DEF LoadBaseline, CommandLine, TypeOK
  <2>3. CASE UNCHANGED <<base, added>>
    BY <1>2, <1>5, <2>1, <2>3 DEF LoadBaseline, TypeOK
  <2>4. ASSUME NEW t \in Target, store[t] # None,
               base' = [base EXCEPT ![r] = store[t]],
               added' = [added EXCEPT ![r] =
                           Drift(store[t].graph, Build(findings[r]))]
        PROVE  TypeOK'
    <3>1. store[t] \in Snapshot
      BY <2>4 DEF TypeOK
    <3>2. Drift(store[t].graph, Build(findings[r])) \in SUBSET Key
      BY <3>1, <2>2, DriftKeys
    <3>3. base' \in [Run -> Snapshot \cup {None}] /\ added' \in [Run -> SUBSET Key]
      BY <2>4, <3>1, <3>2 DEF TypeOK
    <3> QED
      BY <1>2, <1>5, <2>1, <3>3 DEF LoadBaseline, TypeOK
  <2> QED
    BY <1>5, <2>2, <2>3, <2>4 DEF LoadBaseline
<1>6. CASE EmitDrift(r)
  <2>1. Moves
    BY <1>6, MoveTypes DEF EmitDrift, EmitBreaks, Broken, Steps
  <2>2. log' \in SUBSET Event
    BY <1>6, EventTypes, EmitTypes DEF EmitDrift, TypeOK
  <2> QED
    BY <1>2, <1>6, <2>1, <2>2 DEF EmitDrift, TypeOK
<1>7. CASE Report(r)
  <2>1. Moves
    BY <1>7, MoveTypes DEF Report, EmitBreaks, Broken, Steps
  <2>2. log' \in SUBSET Event
    BY <1>7, EventTypes, EmitTypes DEF Report, TypeOK
  <2> QED
    BY <1>2, <1>7, <2>1, <2>2 DEF Report, TypeOK
<1>8. CASE SaveEvidence(r)
  <2>1. Moves
    BY <1>8, MoveTypes DEF SaveEvidence, Broken, Steps
  <2> QED
    BY <1>2, <1>8, <2>1 DEF SaveEvidence, TypeOK
<1>9. CASE LoadPolicy(r) \/ FailOn(r) \/ FailOnNew(r) \/ Kill(r)
  <2>1. Moves
    BY <1>9, MoveTypes DEF LoadPolicy, FailOn, FailOnNew, Kill, Steps
  <2> QED
    BY <1>2, <1>9, <2>1 DEF LoadPolicy, FailOn, FailOnNew, Kill, TypeOK, Steps
<1>10. CASE EvaluatePolicy(r)
  <2>1. Moves
    BY <1>10, MoveTypes DEF EvaluatePolicy, EmitBreaks, Broken, Steps
  <2>2. log' \in SUBSET Event
    BY <1>10, EventTypes, EmitTypes DEF EvaluatePolicy, TypeOK
  <2> QED
    BY <1>2, <1>10, <2>1, <2>2 DEF EvaluatePolicy, TypeOK
<1> QED
  BY <1>1, <1>3, <1>4, <1>5, <1>6, <1>7, <1>8, <1>9, <1>10, OfferedFlags DEF Step

-----------------------------------------------------------------------------
(* One step, seen by the run that takes it and by the others.              *)

\* What RunInv(q) depends on.
Same(q) == /\ pc'[q] = pc[q] /\ exit'[q] = exit[q] /\ flags'[q] = flags[q]
           /\ findings'[q] = findings[q] /\ base'[q] = base[q]
           /\ added'[q] = added[q]

LEMMA SameGates ==
    ASSUME NEW q \in Run, flags'[q] = flags[q], findings'[q] = findings[q],
           base'[q] = base[q]
    PROVE  /\ Fresh(q)' = Fresh(q)
           /\ PolicyBroken(q)' <=> PolicyBroken(q)
           /\ AnySevere(q)' <=> AnySevere(q)
           /\ FreshSevere(q)' <=> FreshSevere(q)
           /\ Verdict(q)' = Verdict(q)
<1>1. Fresh(q)' = Fresh(q)
  BY DEF Fresh
<1>2. PolicyBroken(q)' <=> PolicyBroken(q)
  BY <1>1 DEF PolicyBroken
<1>3. AnySevere(q)' <=> AnySevere(q)
  BY DEF AnySevere
<1>4. FreshSevere(q)' <=> FreshSevere(q)
  BY <1>1 DEF FreshSevere
<1> QED
  BY <1>1, <1>2, <1>3, <1>4 DEF Verdict

LEMMA SameInv ==
    ASSUME NEW q \in Run, RunInv(q), Same(q)
    PROVE  RunInv(q)'
<1>1. AddedIsFresh(q)'
  BY SameGates DEF RunInv, Same, AddedIsFresh
<1>2. NotLoadedYet(q)' /\ ComparedWhenGated(q)'
  BY DEF RunInv, Same, NotLoadedYet, ComparedWhenGated
<1>3. GatesPassed(q)'
  BY SameGates DEF RunInv, Same, GatesPassed
<1>4. DecidedRight(q)'
  BY SameGates DEF RunInv, Same, DecidedRight
<1> QED
  BY <1>1, <1>2, <1>3, <1>4 DEF RunInv

LEMMA StepOthers ==
    ASSUME TypeOK, NEW r \in Run, Step(r), NEW q \in Run, q # r
    PROVE  Same(q)
<1> USE DEF TypeOK, Same, Goto, Exit, Broken
<1>1. ASSUME NEW f \in Flags, NEW s \in Scan, ScanTarget(r, f, s) PROVE Same(q)
  BY <1>1 DEF ScanTarget
<1>2. CASE LoadBaseline(r)
  BY <1>2 DEF LoadBaseline, MissingBaseline, input
<1>3. CASE EmitFindings(r) \/ SaveSnapshot(r) \/ EmitDrift(r)
  BY <1>3 DEF EmitFindings, SaveSnapshot, EmitDrift, EmitBreaks, input
<1>4. CASE Report(r) \/ SaveEvidence(r) \/ LoadPolicy(r) \/ EvaluatePolicy(r)
  BY <1>4 DEF Report, SaveEvidence, LoadPolicy, EvaluatePolicy, EmitBreaks, input
<1>5. CASE FailOn(r) \/ FailOnNew(r) \/ Kill(r)
  BY <1>5 DEF FailOn, FailOnNew, Kill, input
<1> QED
  BY <1>1, <1>2, <1>3, <1>4, <1>5, OfferedFlags DEF Step

-----------------------------------------------------------------------------
(* The gates, node by node and finding by finding.                         *)

LEMMA FreshKeepsKeys ==
    ASSUME NEW r \in Run
    PROVE  /\ Fresh(r) \in SUBSET findings[r]
           /\ \A f \in findings[r], g \in Fresh(r) :
                 KeyOf(f) = KeyOf(g) => f \in Fresh(r)
BY DEF Fresh

LEMMA PolicyGate ==
    ASSUME TypeOK, NEW r \in Run, AddedIsFresh(r), flags[r].policy \in Policy
    PROVE  Violations(r) = {} <=> ~PolicyBroken(r)
<1> DEFINE p == flags[r].policy
           S == findings[r]
           T == IF flags[r].policyNew THEN Fresh(r) ELSE S
<1>1. S \in SUBSET Finding /\ T \in SUBSET S
  BY FreshKeepsKeys DEF TypeOK
<1>2. \A f \in S, g \in T : KeyOf(f) = KeyOf(g) => f \in T
  BY FreshKeepsKeys
<1>3. (\E k \in KeysOf(T) : Breaches(p, k, SeverityOf(S, k)))
        <=> (\E f \in T : Breaches(p, KeyOf(f), f.sev))
  BY <1>1, <1>2, NodesBreachLikeFindings
<1>4. Violations(r) = {k \in KeysOf(T) : Breaches(p, k, SeverityOf(S, k))}
  BY DEF Violations, AddedIsFresh
<1>5. PolicyBroken(r) <=> \E f \in T : Breaches(p, KeyOf(f), f.sev)
  BY PolicyAssumption DEF PolicyBroken
<1> QED
  BY <1>3, <1>4, <1>5

LEMMA FreshGate ==
    ASSUME TypeOK, NEW r \in Run, AddedIsFresh(r), NEW t \in Nat
    PROVE  (\E k \in added[r] : Gates(k[2], SeverityOf(findings[r], k), t))
             <=> (\E f \in Fresh(r) : Gates(f.class, f.sev, t))
BY FreshKeepsKeys, NodesGateLikeFindings DEF TypeOK, AddedIsFresh

-----------------------------------------------------------------------------
(* Preservation by the run that steps.                                     *)

\* A step that only moves on, to a place about which the invariant says no
\* more than where it was, or that ends the run without a verdict.
LEMMA MovesOn ==
    ASSUME TypeOK, NEW r \in Run, RunInv(r),
           flags'[r] = flags[r], findings'[r] = findings[r],
           base'[r] = base[r], added'[r] = added[r], pc[r] # "done",
           \/ \E l \in Steps \ {"violations", "failOn", "failOnNew"} :
                 /\ Goto(r, l)
                 /\ base[r] # None => l \in Compared
                 /\ pc[r] \in Compared \/ l \notin Compared
           \/ \E code \in {"1", "killed"} : Exit(r, code)
    PROVE  RunInv(r)'
<1>1. AddedIsFresh(r)'
  BY SameGates DEF RunInv, AddedIsFresh
<1>2. exit'[r] \notin Decided
  BY DEF TypeOK, RunInv, GatesPassed, Goto, Exit, Decided
<1>3. NotLoadedYet(r)'
  BY DEF TypeOK, RunInv, NotLoadedYet, Goto, Exit, Compared, Steps
<1>4. GatesPassed(r)'
  BY DEF TypeOK, RunInv, GatesPassed, Goto, Exit, Steps
<1>5. ComparedWhenGated(r)'
  BY <1>2 DEF TypeOK, RunInv, ComparedWhenGated, Goto, Exit, Compared
<1>6. DecidedRight(r)'
  BY <1>2 DEF DecidedRight
<1> QED
  BY <1>1, <1>3, <1>4, <1>5, <1>6 DEF RunInv

LEMMA ScanTargetInv ==
    ASSUME TypeOK, NEW r \in Run, RunInv(r), NEW f \in Flags, NEW s \in Scan,
           ScanTarget(r, f, s)
    PROVE  RunInv(r)'
<1>1. base'[r] = None /\ added'[r] = {}
  BY DEF ScanTarget, RunInv, NotLoadedYet, AddedIsFresh, Fresh, KeysOf
<1>2. AddedIsFresh(r)'
  BY <1>1 DEF AddedIsFresh, Fresh, KeysOf
<1>3. exit'[r] \notin Decided /\ pc'[r] \in {"emitFindings", "done"}
      /\ (pc'[r] # "done" => exit'[r] = "")
  BY DEF ScanTarget, TypeOK, RunInv, GatesPassed, Goto, Broken, Exit, Decided
<1>4. NotLoadedYet(r)' /\ GatesPassed(r)' /\ ComparedWhenGated(r)'
  BY <1>1, <1>3 DEF NotLoadedYet, GatesPassed, ComparedWhenGated, Compared
<1>5. DecidedRight(r)'
  BY <1>3 DEF DecidedRight
<1> QED
  BY <1>2, <1>4, <1>5 DEF RunInv

LEMMA QuietInv ==
    ASSUME TypeOK, NEW r \in Run, RunInv(r),
           \/ EmitFindings(r) \/ SaveSnapshot(r) \/ EmitDrift(r) \/ Report(r)
           \/ SaveEvidence(r) \/ Kill(r)
    PROVE  RunInv(r)'
<1> USE DEF input, Steps, Compared, Broken, EmitBreaks, RunInv, NotLoadedYet
<1>1. CASE EmitFindings(r)
  BY <1>1, MovesOn DEF EmitFindings
<1>2. CASE SaveSnapshot(r)
  BY <1>2, MovesOn DEF SaveSnapshot
<1>3. CASE EmitDrift(r)
  BY <1>3, MovesOn DEF EmitDrift
<1>4. CASE Report(r)
  BY <1>4, MovesOn DEF Report
<1>5. CASE SaveEvidence(r)
  BY <1>5, MovesOn DEF SaveEvidence
<1>6. CASE Kill(r)
  BY <1>6, MovesOn DEF Kill
<1> QED
  BY <1>1, <1>2, <1>3, <1>4, <1>5, <1>6

LEMMA LoadBaselineInv ==
    ASSUME TypeOK, NEW r \in Run, RunInv(r), LoadBaseline(r)
    PROVE  RunInv(r)'
<1> DEFINE t == flags[r].baseline
<1>1. t \in Target \cup {None} /\ findings[r] \in SUBSET Finding
  BY FlagTypes DEF LoadBaseline, CommandLine, TypeOK
<1>2. exit[r] = "" /\ pc[r] = "baseline" /\ base[r] = None
      /\ flags'[r] = flags[r] /\ findings'[r] = findings[r]
  BY DEF LoadBaseline, RunInv, GatesPassed, NotLoadedYet, input
<1>3. CASE t # None /\ Broken(r) /\ UNCHANGED <<base, added>>
  BY <1>2, <1>3, MovesOn DEF Broken
<1>4. CASE t # None /\ Exit(r, "1") /\ UNCHANGED <<base, added>>
  BY <1>2, <1>4, MovesOn
<1>5. CASE /\ Goto(r, "drift") /\ UNCHANGED <<base, added>>
           /\ t = None \/ ~(DriftGated(flags[r]) /\ ~flags[r].allow)
  <2>1. pc'[r] = "drift" /\ exit'[r] = ""
    BY <1>2, <1>5 DEF Goto, TypeOK
  <2>2. AddedIsFresh(r)'
    BY <1>2, <1>5, SameGates DEF RunInv, AddedIsFresh
  <2>3. NotLoadedYet(r)' /\ GatesPassed(r)' /\ DecidedRight(r)'
    BY <2>1 DEF NotLoadedYet, GatesPassed, DecidedRight, Decided
  <2>4. ComparedWhenGated(r)'
    BY <1>2, <1>5 DEF ComparedWhenGated, DriftGated
  <2> QED
    BY <2>2, <2>3, <2>4 DEF RunInv
<1>6. CASE /\ t # None /\ store[t] # None
           /\ base' = [base EXCEPT ![r] = store[t]]
           /\ added' = [added EXCEPT ![r] =
                          Drift(store[t].graph, Build(findings[r]))]
           /\ Goto(r, "drift")
  <2>1. pc'[r] = "drift" /\ exit'[r] = ""
    BY <1>2, <1>6 DEF Goto, TypeOK
  <2>2. store[t] \in Snapshot /\ base'[r] = store[t]
        /\ added'[r] = Drift(store[t].graph, Build(findings[r]))
    BY <1>1, <1>6 DEF TypeOK
  <2>3. added'[r] = {k \in KeysOf(findings[r]) : k \notin DOMAIN store[t].graph}
    BY <1>1, <2>2, DriftKeys
  <2>4. Fresh(r)' = {f \in findings[r] : KeyOf(f) \notin DOMAIN store[t].graph}
    BY <1>2, <1>6, <2>2 DEF Fresh
  <2>5. AddedIsFresh(r)'
    BY <2>3, <2>4 DEF AddedIsFresh, KeysOf
  <2>6. NotLoadedYet(r)' /\ GatesPassed(r)' /\ DecidedRight(r)'
    BY <2>1 DEF NotLoadedYet, GatesPassed, DecidedRight, Decided
  <2>7. ComparedWhenGated(r)'
    BY <1>6, <2>2 DEF ComparedWhenGated
  <2> QED
    BY <2>5, <2>6, <2>7 DEF RunInv
<1> QED
  BY <1>3, <1>4, <1>5, <1>6 DEF LoadBaseline, MissingBaseline

\* A step of a gate: the comparison stays what it was.
LEMMA GateFrame ==
    ASSUME TypeOK, NEW r \in Run, RunInv(r), pc[r] \in Compared,
           flags'[r] = flags[r], findings'[r] = findings[r],
           base'[r] = base[r], added'[r] = added[r],
           pc'[r] \in Compared \cup {"done"},
           GatesPassed(r)', DecidedRight(r)'
    PROVE  RunInv(r)'
<1>1. AddedIsFresh(r)'
  BY SameGates DEF RunInv, AddedIsFresh
<1>2. NotLoadedYet(r)'
  BY DEF NotLoadedYet, Compared
<1>3. ComparedWhenGated(r)'
  BY DEF RunInv, ComparedWhenGated, DriftGated
<1> QED
  BY <1>1, <1>2, <1>3 DEF RunInv

LEMMA LoadPolicyInv ==
    ASSUME TypeOK, NEW r \in Run, RunInv(r), LoadPolicy(r)
    PROVE  RunInv(r)'
<1>1. /\ pc[r] = "policy" /\ exit[r] = ""
      /\ flags'[r] = flags[r] /\ findings'[r] = findings[r]
      /\ base'[r] = base[r] /\ added'[r] = added[r]
  BY DEF LoadPolicy, RunInv, GatesPassed, input
<1>2. CASE Exit(r, "1")
  BY <1>1, <1>2, MovesOn
<1>3. CASE flags[r].policy = None /\ Goto(r, "failOn")
  <2>1. pc'[r] = "failOn" /\ exit'[r] = ""
    BY <1>1, <1>3 DEF Goto, TypeOK
  <2>2. ~PolicyBroken(r)'
    BY <1>1, <1>3 DEF PolicyBroken
  <2>3. GatesPassed(r)' /\ DecidedRight(r)'
    BY <2>1, <2>2 DEF GatesPassed, DecidedRight, Decided
  <2> QED
    BY <1>1, <2>1, <2>3, GateFrame DEF Compared
<1>4. CASE flags[r].policy \in Policy /\ Goto(r, "violations")
  <2>1. pc'[r] = "violations" /\ exit'[r] = ""
    BY <1>1, <1>4 DEF Goto, TypeOK
  <2>2. GatesPassed(r)' /\ DecidedRight(r)'
    BY <1>1, <1>4, <2>1 DEF GatesPassed, DecidedRight, Decided
  <2> QED
    BY <1>1, <2>1, <2>2, GateFrame DEF Compared
<1> QED
  BY <1>2, <1>3, <1>4 DEF LoadPolicy

LEMMA EvaluatePolicyInv ==
    ASSUME TypeOK, NEW r \in Run, RunInv(r), EvaluatePolicy(r)
    PROVE  RunInv(r)'
<1>1. /\ pc[r] = "violations" /\ exit[r] = "" /\ flags[r].policy \in Policy
      /\ flags'[r] = flags[r] /\ findings'[r] = findings[r]
      /\ base'[r] = base[r] /\ added'[r] = added[r]
  BY DEF EvaluatePolicy, RunInv, GatesPassed, input
<1>2. Violations(r) = {} <=> ~PolicyBroken(r)
  BY <1>1, PolicyGate DEF RunInv
<1>3. CASE Broken(r)
  BY <1>1, <1>3, MovesOn DEF Broken
<1>4. CASE Violations(r) = {} /\ Goto(r, "failOn")
  <2>1. pc'[r] = "failOn" /\ exit'[r] = ""
    BY <1>1, <1>4 DEF Goto, TypeOK
  <2>2. ~PolicyBroken(r)'
    BY <1>1, <1>2, <1>4, SameGates
  <2>3. GatesPassed(r)' /\ DecidedRight(r)'
    BY <2>1, <2>2 DEF GatesPassed, DecidedRight, Decided
  <2> QED
    BY <1>1, <2>1, <2>3, GateFrame DEF Compared
<1>5. CASE Violations(r) # {} /\ Exit(r, "3")
  <2>1. pc'[r] = "done" /\ exit'[r] = "3"
    BY <1>5 DEF Exit, TypeOK
  <2>2. Verdict(r)' = "3"
    BY <1>1, <1>2, <1>5, SameGates DEF Verdict
  <2>3. GatesPassed(r)' /\ DecidedRight(r)'
    BY <2>1, <2>2 DEF GatesPassed, DecidedRight
  <2> QED
    BY <1>1, <2>1, <2>3, GateFrame DEF Compared
<1> QED
  BY <1>3, <1>4, <1>5 DEF EvaluatePolicy, EmitBreaks

LEMMA FailOnInv ==
    ASSUME TypeOK, NEW r \in Run, RunInv(r), FailOn(r)
    PROVE  RunInv(r)'
<1>1. /\ pc[r] = "failOn" /\ exit[r] = "" /\ ~PolicyBroken(r)
      /\ flags'[r] = flags[r] /\ findings'[r] = findings[r]
      /\ base'[r] = base[r] /\ added'[r] = added[r]
  BY DEF FailOn, RunInv, GatesPassed, input
<1>2. CASE Exit(r, "1")
  BY <1>1, <1>2, MovesOn
<1>3. CASE ~AnySevere(r) /\ Goto(r, "failOnNew")
  <2>1. pc'[r] = "failOnNew" /\ exit'[r] = ""
    BY <1>1, <1>3 DEF Goto, TypeOK
  <2>2. ~PolicyBroken(r)' /\ ~AnySevere(r)'
    BY <1>1, <1>3, SameGates
  <2>3. GatesPassed(r)' /\ DecidedRight(r)'
    BY <2>1, <2>2 DEF GatesPassed, DecidedRight, Decided
  <2> QED
    BY <1>1, <2>1, <2>3, GateFrame DEF Compared
<1>4. CASE AnySevere(r) /\ Exit(r, "2")
  <2>1. pc'[r] = "done" /\ exit'[r] = "2"
    BY <1>4 DEF Exit, TypeOK
  <2>2. Verdict(r)' = "2"
    BY <1>1, <1>4, SameGates DEF Verdict
  <2>3. GatesPassed(r)' /\ DecidedRight(r)'
    BY <2>1, <2>2 DEF GatesPassed, DecidedRight
  <2> QED
    BY <1>1, <2>1, <2>3, GateFrame DEF Compared
<1> QED
  BY <1>2, <1>3, <1>4 DEF FailOn, AnySevere

LEMMA FailOnNewInv ==
    ASSUME TypeOK, NEW r \in Run, RunInv(r), FailOnNew(r)
    PROVE  RunInv(r)'
<1>1. /\ pc[r] = "failOnNew" /\ exit[r] = "" /\ ~PolicyBroken(r)
      /\ ~AnySevere(r) /\ AddedIsFresh(r)
      /\ flags'[r] = flags[r] /\ findings'[r] = findings[r]
      /\ base'[r] = base[r] /\ added'[r] = added[r]
  BY DEF FailOnNew, RunInv, GatesPassed, input
<1>2. CASE Exit(r, "1")
  BY <1>1, <1>2, MovesOn
<1>3. flags[r].failOnNew \in Nat
  <2>1. flags[r].failOnNew \in Threshold
    BY <1>1, FlagTypes DEF CommandLine
  <2> QED
    BY <2>1 DEF Threshold, Off, Invalid
<1>4. (\E k \in added[r] : Gates(k[2], SeverityOf(findings[r], k),
                                 flags[r].failOnNew))
        <=> (\E f \in Fresh(r) : Gates(f.class, f.sev, flags[r].failOnNew))
  BY <1>1, <1>3, FreshGate
<1>5. CASE FreshSevere(r) /\ Exit(r, "2")
  <2>1. pc'[r] = "done" /\ exit'[r] = "2"
    BY <1>5 DEF Exit, TypeOK
  <2>2. Verdict(r)' = "2"
    BY <1>1, <1>5, SameGates DEF Verdict
  <2>3. GatesPassed(r)' /\ DecidedRight(r)'
    BY <2>1, <2>2 DEF GatesPassed, DecidedRight
  <2> QED
    BY <1>1, <2>1, <2>3, GateFrame DEF Compared
<1>6. CASE ~FreshSevere(r) /\ Exit(r, "0")
  <2>1. pc'[r] = "done" /\ exit'[r] = "0"
    BY <1>6 DEF Exit, TypeOK
  <2>2. Verdict(r)' = "0"
    BY <1>1, <1>6, SameGates DEF Verdict
  <2>3. GatesPassed(r)' /\ DecidedRight(r)'
    BY <2>1, <2>2 DEF GatesPassed, DecidedRight
  <2> QED
    BY <1>1, <2>1, <2>3, GateFrame DEF Compared
<1> QED
  BY <1>2, <1>4, <1>5, <1>6 DEF FailOnNew, FreshSevere

LEMMA NextIInv == IInv /\ [Next]_vars => IInv'
<1> SUFFICES ASSUME IInv, [Next]_vars PROVE IInv'
  OBVIOUS
<1>1. ASSUME NEW r \in Run, Step(r) PROVE IInv'
  <2>1. TypeOK /\ RunInv(r)
    BY DEF IInv
  <2>2. TypeOK'
    BY <1>1, <2>1, StepType
  <2>3. ASSUME NEW q \in Run, q # r PROVE RunInv(q)'
    BY <1>1, <2>3, StepOthers, SameInv DEF IInv
  <2>4. RunInv(r)'
    BY <1>1, <2>1, ScanTargetInv, QuietInv, LoadBaselineInv, LoadPolicyInv,
       EvaluatePolicyInv, FailOnInv, FailOnNewInv, OfferedFlags DEF Step
  <2> QED
    BY <2>2, <2>3, <2>4 DEF IInv
<1>2. CASE UNCHANGED vars
  <2>1. TypeOK'
    BY <1>2 DEF vars, TypeOK, IInv
  <2>2. ASSUME NEW q \in Run PROVE RunInv(q)'
    <3>1. RunInv(q) /\ Same(q)
      BY <1>2 DEF IInv, vars, Same
    <3> QED
      BY <3>1, SameInv
  <2> QED
    BY <2>1, <2>2 DEF IInv
<1> QED
  BY <1>1, <1>2 DEF Next

THEOREM Invariance == Spec => []IInv
BY InitIInv, NextIInv, PTL DEF Spec

\* Every variable keeps its type (run() in main.go).
THEOREM TypeCorrect == Spec => []TypeOK
BY Invariance, PTL DEF IInv

\* The exit code is the verdict the findings deserve: no finding is lost or
\* invented between the scan and the gates (main.go, graph.Build, store.Diff,
\* policy.Evaluate).
THEOREM ExitCodeIsRight == Spec => []ExitIsVerdict
<1>1. IInv => ExitIsVerdict
  BY DEF IInv, RunInv, DecidedRight, ExitIsVerdict
<1> QED
  BY <1>1, Invariance, PTL

\* A drift gate with a --baseline decides nothing before it has compared
\* (the missing-baseline rule of main.go).
THEOREM GateSees == Spec => []GateNeverBlind
<1>1. IInv => GateNeverBlind
  BY DEF IInv, RunInv, ComparedWhenGated, GateNeverBlind
<1> QED
  BY <1>1, Invariance, PTL

-----------------------------------------------------------------------------
(* What a run has written by the time it moves on, and whose findings the  *)
(* snapshots and the events show.                                          *)

AfterFindings == Steps \ {"emitFindings"}
AfterDrift    == {"report", "evidence", "policy", "violations", "failOn", "failOnNew"}
AfterEvidence == {"policy", "violations", "failOn", "failOnNew"}

\* A step that writes is passed only when all of it is written.
Audited(r) ==
    /\ pc[r] \in AfterFindings \/ exit[r] \in Decided => FindingEvents(r) \subseteq log
    /\ pc[r] \in AfterDrift \/ exit[r] \in Decided => DriftEvents(r) \subseteq log
    /\ pc[r] \in AfterEvidence \/ exit[r] \in Decided =>
          (flags[r].evidence => r \in trail)
    /\ exit[r] = "3" => ViolationEvents(r) \subseteq log

\* The run has its findings, and they are what it has to count.
Counted(r) == /\ pc[r] # "start"
              /\ findings[r] = Production(flags[r], scan[r])

CountedOnTheWay(r) == pc[r] \in Steps \/ exit[r] \in Decided => Counted(r)

\* A snapshot of r's shows the findings of r.
Shows(s, r) ==
    s # None /\ s.by = r => Counted(r) /\ s.graph = Build(findings[r])

StoredRight(r) == \A t \in Target : Shows(store[t], r)

LoadedRight(r) == \A q \in Run : Shows(base[q], r)

LoggedRight(r) ==
    \A e \in log : e.run = r =>
        Counted(r) /\ (e.type # "evidence_signed" => e.what \in KeysOf(findings[r]))

SharedInv(r) == /\ Audited(r) /\ CountedOnTheWay(r)
                /\ StoredRight(r) /\ LoadedRight(r) /\ LoggedRight(r)

WholeInv == IInv /\ \A r \in Run : SharedInv(r)

LEMMA InitWholeInv == Init => WholeInv
<1> SUFFICES ASSUME Init, NEW r \in Run PROVE SharedInv(r)
  BY InitIInv DEF WholeInv
<1>1. Audited(r) /\ CountedOnTheWay(r)
  BY DEF Init, Audited, CountedOnTheWay, AfterFindings, AfterDrift, AfterEvidence,
         Steps, Decided
<1>2. StoredRight(r)
  <2>1. ASSUME NEW t \in Target PROVE store[t] = None \/ store[t].by = Outside
    <3>1. store[t] \in {[graph |-> Build(s.prod), by |-> Outside] : s \in Scan}
                         \cup {None}
      BY DEF Init
    <3>2. CASE store[t] # None
      <4>1. PICK s \in Scan : store[t] = [graph |-> Build(s.prod), by |-> Outside]
        BY <3>1, <3>2
      <4> QED
        BY <4>1
    <3> QED
      BY <3>2
  <2> QED
    BY <2>1, OutsideAssumption DEF StoredRight, Shows
<1>3. LoadedRight(r) /\ LoggedRight(r)
  BY DEF Init, LoadedRight, LoggedRight, Shows
<1> QED
  BY <1>1, <1>2, <1>3 DEF SharedInv

-----------------------------------------------------------------------------
(* What a step leaves alone.                                               *)

\* A run gets its command line and its findings in its first step and keeps
\* them; nobody else touches them.
LEMMA StepKeeps ==
    ASSUME TypeOK, NEW r \in Run, Step(r)
    PROVE  /\ pc'[r] # "start"
           /\ \A q \in Run : q # r \/ pc[r] # "start" =>
                 /\ flags'[q] = flags[q] /\ scan'[q] = scan[q]
                 /\ findings'[q] = findings[q]
           /\ \A q \in Run \ {r} : /\ pc'[q] = pc[q] /\ exit'[q] = exit[q]
                                   /\ base'[q] = base[q] /\ added'[q] = added[q]
<1> USE DEF TypeOK, Goto, Exit, Broken, EmitBreaks, input, Steps
<1>1. ASSUME NEW f \in Flags, NEW s \in Scan, ScanTarget(r, f, s)
      PROVE  /\ pc'[r] # "start" /\ pc[r] = "start"
             /\ \A q \in Run \ {r} :
                   /\ flags'[q] = flags[q] /\ scan'[q] = scan[q]
                   /\ findings'[q] = findings[q]
                   /\ pc'[q] = pc[q] /\ exit'[q] = exit[q]
                   /\ base'[q] = base[q] /\ added'[q] = added[q]
  BY <1>1 DEF ScanTarget
<1> DEFINE Rest == /\ pc'[r] # "start" /\ UNCHANGED input
                   /\ \A q \in Run \ {r} :
                         /\ pc'[q] = pc[q] /\ exit'[q] = exit[q]
                         /\ base'[q] = base[q] /\ added'[q] = added[q]
<1>2. CASE LoadBaseline(r)
  <2>1. Rest
    BY <1>2 DEF LoadBaseline, MissingBaseline
  <2> QED
    BY <2>1
<1>3. CASE EmitFindings(r) \/ SaveSnapshot(r) \/ EmitDrift(r)
  <2>1. Rest
    BY <1>3 DEF EmitFindings, SaveSnapshot, EmitDrift
  <2> QED
    BY <2>1
<1>4. CASE Report(r) \/ SaveEvidence(r) \/ LoadPolicy(r) \/ EvaluatePolicy(r)
  <2>1. Rest
    BY <1>4 DEF Report, SaveEvidence, LoadPolicy, EvaluatePolicy
  <2> QED
    BY <2>1
<1>5. CASE FailOn(r) \/ FailOnNew(r) \/ Kill(r)
  <2>1. Rest
    BY <1>5 DEF FailOn, FailOnNew, Kill
  <2> QED
    BY <2>1
<1> QED
  BY <1>1, <1>2, <1>3, <1>4, <1>5, OfferedFlags DEF Step

\* Nothing is taken off the log or the trail.
LEMMA StepAppends ==
    ASSUME NEW r \in Run, Step(r)
    PROVE  log \subseteq log' /\ trail \subseteq trail'
<1> USE DEF Emit, EmitBreaks, input
<1>1. ASSUME NEW f \in Offered, NEW s \in Scan, ScanTarget(r, f, s)
      PROVE  log \subseteq log' /\ trail \subseteq trail'
  BY <1>1 DEF ScanTarget
<1>2. CASE EmitFindings(r) \/ EmitDrift(r) \/ Report(r) \/ EvaluatePolicy(r)
  BY <1>2 DEF EmitFindings, EmitDrift, Report, EvaluatePolicy
<1>3. CASE SaveEvidence(r)
  BY <1>3 DEF SaveEvidence
<1>4. CASE SaveSnapshot(r) \/ LoadBaseline(r)
  BY <1>4 DEF SaveSnapshot, LoadBaseline
<1>5. CASE LoadPolicy(r) \/ FailOn(r) \/ FailOnNew(r) \/ Kill(r)
  BY <1>5 DEF LoadPolicy, FailOn, FailOnNew, Kill
<1> QED
  BY <1>1, <1>2, <1>3, <1>4, <1>5 DEF Step

\* An event that a step adds is one of the four kinds, of the run that steps.
LEMMA StepLogs ==
    ASSUME NEW r \in Run, Step(r), NEW e \in log' \ log
    PROVE  /\ pc[r] \in Steps
           /\ e \in FindingEvents(r) \cup DriftEvents(r) \cup SigningEvents(r)
                       \cup ViolationEvents(r)
<1> USE DEF Emit, EmitBreaks, Steps
<1>1. ASSUME NEW f \in Offered, NEW s \in Scan, ScanTarget(r, f, s)
      PROVE  FALSE
  BY <1>1 DEF ScanTarget
<1>2. CASE EmitFindings(r)
  BY <1>2 DEF EmitFindings
<1>3. CASE EmitDrift(r)
  BY <1>3 DEF EmitDrift
<1>4. CASE Report(r)
  BY <1>4 DEF Report
<1>5. CASE EvaluatePolicy(r)
  BY <1>5 DEF EvaluatePolicy
<1>6. CASE SaveSnapshot(r) \/ LoadBaseline(r) \/ SaveEvidence(r)
  BY <1>6 DEF SaveSnapshot, LoadBaseline, SaveEvidence
<1>7. CASE LoadPolicy(r) \/ FailOn(r) \/ FailOnNew(r) \/ Kill(r)
  BY <1>7 DEF LoadPolicy, FailOn, FailOnNew, Kill
<1> QED
  BY <1>1, <1>2, <1>3, <1>4, <1>5, <1>6, <1>7 DEF Step

\* Snapshots change hands in two steps only.
LEMMA StepStores ==
    ASSUME TypeOK, NEW r \in Run, Step(r), NEW t \in Target
    PROVE  store'[t] = store[t] \/ (pc[r] = "save" /\ store'[t] = Snap(r))
<1>1. ASSUME NEW f \in Offered, NEW s \in Scan, ScanTarget(r, f, s)
      PROVE  store'[t] = store[t]
  BY <1>1 DEF ScanTarget
<1>2. CASE SaveSnapshot(r)
  BY <1>2 DEF SaveSnapshot, TypeOK
<1>3. CASE EmitFindings(r) \/ EmitDrift(r) \/ Report(r) \/ EvaluatePolicy(r)
  BY <1>3 DEF EmitFindings, EmitDrift, Report, EvaluatePolicy
<1>4. CASE LoadBaseline(r) \/ SaveEvidence(r) \/ LoadPolicy(r) \/ FailOn(r)
             \/ FailOnNew(r) \/ Kill(r)
  BY <1>4 DEF LoadBaseline, SaveEvidence, LoadPolicy, FailOn, FailOnNew, Kill
<1> QED
  BY <1>1, <1>2, <1>3, <1>4 DEF Step

LEMMA StepLoads ==
    ASSUME TypeOK, NEW r \in Run, Step(r)
    PROVE  \/ base'[r] = base[r]
           \/ /\ pc[r] = "baseline" /\ flags[r].baseline \in Target
              /\ base'[r] = store[flags[r].baseline]
<1>1. ASSUME NEW f \in Offered, NEW s \in Scan, ScanTarget(r, f, s)
      PROVE  base'[r] = base[r]
  BY <1>1 DEF ScanTarget
<1>2. CASE LoadBaseline(r)
  <2>1. flags[r].baseline \in Target \cup {None}
    BY <1>2, FlagTypes DEF LoadBaseline, CommandLine
  <2> QED
    BY <1>2, <2>1 DEF LoadBaseline, TypeOK
<1>3. CASE EmitFindings(r) \/ EmitDrift(r) \/ Report(r) \/ EvaluatePolicy(r)
  BY <1>3 DEF EmitFindings, EmitDrift, Report, EvaluatePolicy
<1>4. CASE SaveSnapshot(r) \/ SaveEvidence(r) \/ LoadPolicy(r) \/ FailOn(r)
             \/ FailOnNew(r) \/ Kill(r)
  BY <1>4 DEF SaveSnapshot, SaveEvidence, LoadPolicy, FailOn, FailOnNew, Kill
<1> QED
  BY <1>1, <1>2, <1>3, <1>4 DEF Step

-----------------------------------------------------------------------------
(* Preservation, part by part.                                             *)

LEMMA SameEvents ==
    ASSUME NEW r \in Run, flags'[r] = flags[r], findings'[r] = findings[r],
           added'[r] = added[r]
    PROVE  /\ FindingEvents(r)' = FindingEvents(r)
           /\ DriftEvents(r)' = DriftEvents(r)
           /\ ViolationEvents(r)' = ViolationEvents(r)
BY DEF FindingEvents, DriftEvents, ViolationEvents, Violations

\* A step other than the first and the Load keeps Audited if it pays what it owes.
LEMMA PaysWhatItOwes ==
    ASSUME TypeOK, NEW r \in Run, Audited(r), exit[r] \notin Decided,
           flags'[r] = flags[r], findings'[r] = findings[r], added'[r] = added[r],
           log \subseteq log', trail \subseteq trail',
           pc'[r] \in AfterFindings \/ exit'[r] \in Decided =>
               pc[r] \in AfterFindings \/ FindingEvents(r) \subseteq log',
           pc'[r] \in AfterDrift \/ exit'[r] \in Decided =>
               pc[r] \in AfterDrift \/ DriftEvents(r) \subseteq log',
           pc'[r] \in AfterEvidence \/ exit'[r] \in Decided =>
               pc[r] \in AfterEvidence \/ (flags[r].evidence => r \in trail'),
           exit'[r] = "3" => ViolationEvents(r) \subseteq log'
    PROVE  Audited(r)'
BY SameEvents DEF Audited

LEMMA StepAudits ==
    ASSUME TypeOK, NEW r \in Run, RunInv(r), Audited(r), Step(r)
    PROVE  Audited(r)'
<1>1. log \subseteq log' /\ trail \subseteq trail'
  BY StepAppends
<1>2. exit[r] \notin Decided \/ pc[r] = "done"
  BY DEF RunInv, GatesPassed, Decided
<1> USE DEF TypeOK, Goto, Exit, Broken, input, AfterFindings, AfterDrift,
            AfterEvidence, Decided, Steps
<1>3. ASSUME NEW f \in Flags, NEW s \in Scan, ScanTarget(r, f, s)
      PROVE  Audited(r)'
  <2>1. pc'[r] \notin AfterFindings /\ exit'[r] \notin Decided
    BY <1>2, <1>3 DEF ScanTarget, RunInv, GatesPassed
  <2> QED
    BY <2>1 DEF Audited
<1>4. CASE LoadBaseline(r)
  <2>1. pc'[r] \notin AfterDrift /\ exit'[r] \notin Decided
    BY <1>2, <1>4 DEF LoadBaseline, MissingBaseline
  <2>2. FindingEvents(r)' = FindingEvents(r)
    BY <1>4 DEF LoadBaseline, FindingEvents
  <2>3. FindingEvents(r) \subseteq log
    BY <1>4 DEF LoadBaseline, Audited
  <2> QED
    BY <1>1, <2>1, <2>2, <2>3 DEF Audited
<1>5. CASE EmitFindings(r)
  BY <1>1, <1>2, <1>5, PaysWhatItOwes DEF EmitFindings, Emit, EmitBreaks
<1>6. CASE SaveSnapshot(r)
  <2>1. /\ pc[r] = "save" /\ exit[r] \notin Decided
        /\ log' = log /\ trail' = trail /\ added' = added
        /\ flags' = flags /\ findings' = findings
    BY <1>2, <1>6 DEF SaveSnapshot
  <2>2. pc'[r] \in {"baseline", "done"} /\ exit'[r] \notin Decided
    <3>1. CASE Goto(r, "baseline")
      BY <2>1, <3>1
    <3>2. CASE Broken(r)
      BY <3>2
    <3> QED
      BY <1>6, <3>1, <3>2 DEF SaveSnapshot
  <2> QED
    BY <2>1, <2>2, PaysWhatItOwes
<1>7. CASE EmitDrift(r)
  BY <1>1, <1>2, <1>7, PaysWhatItOwes DEF EmitDrift, Emit, EmitBreaks
<1>8. CASE Report(r)
  BY <1>1, <1>2, <1>8, PaysWhatItOwes DEF Report, EmitBreaks
<1>9. CASE SaveEvidence(r)
  BY <1>1, <1>2, <1>9, PaysWhatItOwes DEF SaveEvidence
<1>10. CASE LoadPolicy(r)
  BY <1>1, <1>2, <1>10, PaysWhatItOwes DEF LoadPolicy
<1>11. CASE EvaluatePolicy(r)
  BY <1>1, <1>2, <1>11, PaysWhatItOwes DEF EvaluatePolicy, Emit, EmitBreaks
<1>12. CASE FailOn(r) \/ FailOnNew(r)
  BY <1>1, <1>2, <1>12, PaysWhatItOwes DEF FailOn, FailOnNew
<1>13. CASE Kill(r)
  BY <1>1, <1>2, <1>13, PaysWhatItOwes DEF Kill
<1> QED
  BY <1>3, <1>4, <1>5, <1>6, <1>7, <1>8, <1>9, <1>10, <1>11, <1>12, <1>13,
     OfferedFlags DEF Step

\* What has been counted stays counted.
LEMMA StaysCounted ==
    ASSUME TypeOK, NEW r \in Run, Step(r), NEW q \in Run, Counted(q)
    PROVE  /\ Counted(q)' /\ findings'[q] = findings[q]
           /\ KeysOf(findings[q])' = KeysOf(findings[q])
           /\ Build(findings[q])' = Build(findings[q])
BY StepKeeps DEF Counted, Production

LEMMA StepCounts ==
    ASSUME TypeOK, NEW r \in Run, RunInv(r), CountedOnTheWay(r), Step(r)
    PROVE  CountedOnTheWay(r)'
<1>1. ASSUME NEW f \in Flags, NEW s \in Scan, ScanTarget(r, f, s)
      PROVE  CountedOnTheWay(r)'
  <2>1. CASE Goto(r, "emitFindings")
    BY <1>1, <2>1 DEF ScanTarget, CountedOnTheWay, Counted, Production, TypeOK,
                      Goto, Exit, Broken
  <2>2. CASE Broken(r)
    BY <1>1, <2>2 DEF ScanTarget, CountedOnTheWay, TypeOK, Broken, Exit, Decided, Steps
  <2> QED
    BY <1>1, <2>1, <2>2 DEF ScanTarget
<1>2. CASE pc[r] \in Steps
  BY <1>2, StaysCounted DEF CountedOnTheWay
<1>3. pc[r] \in Steps \/ \E f \in Offered, s \in Scan : ScanTarget(r, f, s)
  BY DEF Step, Steps, EmitFindings, SaveSnapshot, LoadBaseline, EmitDrift, Report,
         SaveEvidence, LoadPolicy, EvaluatePolicy, FailOn, FailOnNew, Kill
<1> QED
  BY <1>1, <1>2, <1>3, OfferedFlags

\* A snapshot goes on showing what it showed.
LEMMA GoesOnShowing ==
    ASSUME TypeOK, NEW r \in Run, Step(r), NEW q \in Run, NEW s, Shows(s, q)
    PROVE  s # None /\ s.by = q => Counted(q)' /\ s.graph = Build(findings[q])'
BY StaysCounted DEF Shows

LEMMA StepStoresRight ==
    ASSUME TypeOK, NEW r \in Run, CountedOnTheWay(r), Step(r),
           NEW q \in Run, StoredRight(q)
    PROVE  StoredRight(q)'
<1> SUFFICES ASSUME NEW t \in Target PROVE Shows(store[t], q)'
  BY DEF StoredRight
<1>1. CASE store'[t] = store[t]
  BY <1>1, GoesOnShowing DEF StoredRight, Shows
<1>2. CASE pc[r] = "save" /\ store'[t] = Snap(r)
  <2>1. Counted(r) /\ Snap(r).graph = Build(findings[r]) /\ Snap(r).by = r
    BY <1>2 DEF CountedOnTheWay, Steps, Snap
  <2>2. Counted(r)' /\ Build(findings[r])' = Build(findings[r])
    BY <2>1, StaysCounted
  <2> QED
    BY <1>2, <2>1, <2>2 DEF Shows
<1> QED
  BY <1>1, <1>2, StepStores

LEMMA StepLoadsRight ==
    ASSUME TypeOK, NEW r \in Run, Step(r),
           NEW q \in Run, StoredRight(q), LoadedRight(q)
    PROVE  LoadedRight(q)'
<1> SUFFICES ASSUME NEW p \in Run PROVE Shows(base[p], q)'
  BY DEF LoadedRight
<1>1. \E s : base'[p] = s /\ Shows(s, q)
  BY StepLoads, StepKeeps DEF LoadedRight, StoredRight
<1> QED
  BY <1>1, GoesOnShowing DEF Shows

LEMMA EventsShowFindings ==
    ASSUME NEW r \in Run, AddedIsFresh(r),
           NEW e \in FindingEvents(r) \cup DriftEvents(r) \cup SigningEvents(r)
                       \cup ViolationEvents(r)
    PROVE  e.run = r /\ (e.type # "evidence_signed" => e.what \in KeysOf(findings[r]))
<1>1. KeysOf(Tagged(findings[r])) \subseteq KeysOf(findings[r])
  BY DEF KeysOf, Tagged
<1>2. ASSUME NEW type, NEW whats, e \in Events(r, type, whats)
      PROVE  e.run = r /\ e.type = type /\ e.what \in whats
  BY <1>2 DEF Events
<1> QED
  BY <1>1, <1>2 DEF FindingEvents, DriftEvents, SigningEvents, ViolationEvents

LEMMA StepLogsRight ==
    ASSUME TypeOK, NEW r \in Run, RunInv(r), CountedOnTheWay(r), Step(r),
           NEW q \in Run, LoggedRight(q)
    PROVE  LoggedRight(q)'
<1> SUFFICES ASSUME NEW e \in log', e.run = q
             PROVE  Counted(q)' /\ (e.type # "evidence_signed"
                                      => e.what \in KeysOf(findings[q])')
  BY DEF LoggedRight
<1>1. CASE e \in log
  BY <1>1, StaysCounted DEF LoggedRight
<1>2. CASE e \notin log
  <2>1. /\ pc[r] \in Steps /\ e.run = r
        /\ e.type # "evidence_signed" => e.what \in KeysOf(findings[r])
    BY <1>2, StepLogs, EventsShowFindings DEF RunInv
  <2>2. Counted(r)
    BY <2>1 DEF CountedOnTheWay
  <2> QED
    BY <2>1, <2>2, StaysCounted
<1> QED
  BY <1>1, <1>2

LEMMA NextWholeInv == WholeInv /\ [Next]_vars => WholeInv'
<1> SUFFICES ASSUME WholeInv, [Next]_vars, NEW q \in Run PROVE SharedInv(q)'
  BY NextIInv DEF WholeInv
<1>1. ASSUME NEW r \in Run, Step(r) PROVE SharedInv(q)'
  <2>1. TypeOK /\ RunInv(r) /\ SharedInv(r) /\ SharedInv(q)
    BY DEF WholeInv, IInv
  <2>2. StoredRight(q)' /\ LoadedRight(q)' /\ LoggedRight(q)'
    BY <1>1, <2>1, StepStoresRight, StepLoadsRight, StepLogsRight DEF SharedInv
  <2>3. CASE q = r
    BY <1>1, <2>1, <2>2, <2>3, StepAudits, StepCounts DEF SharedInv
  <2>4. CASE q # r
    <3>1. /\ flags'[q] = flags[q] /\ scan'[q] = scan[q] /\ findings'[q] = findings[q]
          /\ pc'[q] = pc[q] /\ exit'[q] = exit[q] /\ added'[q] = added[q]
      BY <1>1, <2>1, <2>4, StepKeeps
    <3>2. log \subseteq log' /\ trail \subseteq trail'
      BY <1>1, StepAppends
    <3>3. Audited(q)'
      BY <2>1, <3>1, <3>2, SameEvents DEF SharedInv, Audited
    <3>4. CountedOnTheWay(q)'
      BY <2>1, <3>1 DEF SharedInv, CountedOnTheWay, Counted, Production
    <3> QED
      BY <2>2, <3>3, <3>4 DEF SharedInv
  <2> QED
    BY <2>3, <2>4
<1>2. CASE UNCHANGED vars
  <2>1. SharedInv(q)
    BY DEF WholeInv
  <2>2. Audited(q)' /\ CountedOnTheWay(q)'
    BY <1>2, <2>1, SameEvents DEF vars, SharedInv, Audited, CountedOnTheWay, Counted,
                                  Production
  <2>3. /\ Counted(q)' <=> Counted(q)
        /\ Build(findings[q])' = Build(findings[q])
        /\ KeysOf(findings[q])' = KeysOf(findings[q])
    BY <1>2 DEF vars, Counted, Production
  <2>4. store' = store /\ base' = base /\ log' = log
    BY <1>2 DEF vars
  <2>5. StoredRight(q)'
    BY <2>1, <2>3, <2>4 DEF SharedInv, StoredRight, Shows
  <2>6. LoadedRight(q)'
    BY <2>1, <2>3, <2>4 DEF SharedInv, LoadedRight, Shows
  <2>7. LoggedRight(q)'
    BY <2>1, <2>3, <2>4 DEF SharedInv, LoggedRight
  <2> QED
    BY <2>2, <2>5, <2>6, <2>7 DEF SharedInv
<1> QED
  BY <1>1, <1>2 DEF Next

THEOREM WholeInvariance == Spec => []WholeInv
BY InitWholeInv, NextWholeInv, PTL DEF Spec

\* Every event and the evidence record of a run are written before an exit code
\* is decided on, which os.Exit would not wait for (exporter, main.go).
THEOREM AuditIsComplete == Spec => []AuditBeforeExit
<1>1. WholeInv => AuditBeforeExit
  BY DEF WholeInv, SharedInv, Audited, AuditBeforeExit
<1> QED
  BY <1>1, WholeInvariance, PTL

\* Without --include-tests nothing of test code gets into a snapshot or into
\* the event log (PartitionTests, store.Save, exporter).
THEOREM TestsAreKeptOut == Spec => []TestsStayOut
<1>1. ASSUME WholeInv PROVE TestsStayOut
  <2> SUFFICES ASSUME NEW r \in Run, ~flags[r].tests
               PROVE  /\ \A t \in Target : store[t] # None /\ store[t].by = r
                            => DOMAIN store[t].graph = KeysOf(scan[r].prod)
                      /\ \A e \in log : e.run = r /\ e.type # "evidence_signed"
                            => e.what \in KeysOf(scan[r].prod)
    BY DEF TestsStayOut
  <2>1. TypeOK /\ SharedInv(r)
    BY <1>1 DEF WholeInv, IInv
  <2>2. Counted(r) => findings[r] = scan[r].prod
    BY DEF Counted, Production
  <2>3. DOMAIN Build(findings[r]) = KeysOf(findings[r])
    BY DEF Build
  <2> QED
    BY <2>1, <2>2, <2>3 DEF SharedInv, StoredRight, LoggedRight, Shows
<1> QED
  BY <1>1, WholeInvariance, PTL

\* What passes --fail-on-new has no gating risk that the run whose snapshot it
\* was compared with had not found (store.Diff, the last gate of main.go).
THEOREM NothingNewPasses == Spec => []NoNewRiskPasses
<1>1. ASSUME WholeInv PROVE NoNewRiskPasses
  <2> SUFFICES ASSUME NEW r \in Run, NEW q \in Run,
                      exit[r] = "0", flags[r].failOnNew # Off,
                      base[r] # None, base[r].by = q,
                      NEW f \in scan[r].prod, Gates(f.class, f.sev, flags[r].failOnNew)
               PROVE  \E g \in findings[q] : KeyOf(g) = KeyOf(f)
    BY DEF NoNewRiskPasses
  <2>1. RunInv(r) /\ SharedInv(r) /\ SharedInv(q)
    BY <1>1 DEF WholeInv, IInv
  <2>2. f \in findings[r]
    BY <2>1 DEF SharedInv, CountedOnTheWay, Decided, Counted, Production
  <2>3. ~FreshSevere(r)
    BY <2>1 DEF RunInv, DecidedRight, Decided, Verdict
  <2>4. KeyOf(f) \in DOMAIN base[r].graph
    BY <2>2, <2>3 DEF FreshSevere, Fresh
  <2>5. base[r].graph = Build(findings[q])
    BY <2>1 DEF SharedInv, LoadedRight, Shows
  <2>6. KeyOf(f) \in KeysOf(findings[q])
    BY <2>4, <2>5 DEF Build
  <2> QED
    BY <2>6 DEF KeysOf
<1> QED
  BY <1>1, WholeInvariance, PTL

=============================================================================
