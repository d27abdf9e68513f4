------------------------------ MODULE QryxRun ------------------------------
(***************************************************************************)
(* cmd/qryx: what one scanning run does with its findings, from the test   *)
(* partition to the exit code, and what several such runs do to the        *)
(* snapshots, the event log and the evidence trail they share.             *)
(*                                                                         *)
(* The steps are in the order of run() in main.go.  Every step that does   *)
(* I/O may fail, which ends the run with exit code 1, and a run may be     *)
(* killed between any two steps.  A snapshot target is the single cell of  *)
(* SnapshotStore, here the one that keeps the last snapshot written; Save  *)
(* and Load are one step each because JSONStore implements that cell.      *)
(*                                                                         *)
(* Events and the trail are sets: what matters is which were written by    *)
(* the time a run ended.  Two findings of one key carry an agent_id each   *)
(* in an occurrence of its own (GraphBuild has the general case).          *)
(***************************************************************************)
EXTENDS AssetGraph, FiniteSets

CONSTANTS
    Run,        \* the runs
    Outside,    \* whoever wrote a snapshot before any of them
    Target,     \* the snapshot targets --save and --baseline may name
    None,       \* no such flag; nothing there
    Scan,       \* what a scan may find
    Flags,      \* the command lines
    Beside,     \* bound: of these, the ones that runs beside others are given
    Unreadable  \* a --policy that does not load

\* Findings in production code and in test code (Location.IsTest).
ScanResult == [prod : SUBSET Finding, tests : SUBSET Finding]

\* A threshold flag: not given, one of the four severities parseSeverity
\* knows, or any other text.
Off     == 0
Invalid == 6
Threshold == {Off} \cup 2 .. 5 \cup {Invalid}

\* A policy: the assets its algorithm and key size rules forbid, the classes
\* its class rules forbid, and maxSeverity (5, critical, exceeds nothing).
Policy == [assets : SUBSET Asset, classes : SUBSET Class, max : Severity]

CommandLine ==
    [save : Target \cup {None}, baseline : Target \cup {None},
     policy : Policy \cup {None, Unreadable}, policyNew : BOOLEAN,
     failOn : Threshold, failOnNew : Threshold,
     allow : BOOLEAN, tests : BOOLEAN, events : BOOLEAN, evidence : BOOLEAN,
     format : {"human", "machine", "evidence", "unknown"}]

ASSUME ScanAssumption   == Scan \subseteq ScanResult
ASSUME FlagsAssumption  == Flags \subseteq CommandLine /\ Beside \subseteq Flags
ASSUME OutsideAssumption == Outside \notin Run
ASSUME PolicyAssumption == {None, Unreadable} \cap Policy = {}

VARIABLES
    pc,        \* the next step of each run
    flags,     \* its command line
    scan,      \* what its scan found
    findings,  \* res.Findings: what the run counts
    base,      \* the baseline it loaded, or None
    added,     \* delta.Added, by key
    exit,      \* how it ended, "" while it has not
    store,     \* what each snapshot target holds, or None
    log,       \* the agent events written
    trail      \* the runs that have an evidence record

vars == <<pc, flags, scan, findings, base, added, exit, store, log, trail>>

Steps == {"emitFindings", "save", "baseline", "drift", "report", "evidence",
          "policy", "violations", "failOn", "failOnNew"}

\* The most severe risk of a key: graph.Build (see GraphBuild).
SeverityOf(S, k) ==
    CHOOSE s \in Severity :
        /\ \E f \in S : KeyOf(f) = k /\ f.sev = s
        /\ \A f \in S : KeyOf(f) = k => f.sev <= s

KeysOf(S) == {KeyOf(f) : f \in S}

Build(S) == [k \in KeysOf(S) |-> SeverityOf(S, k)]

Graph    == UNION {[K -> Severity] : K \in SUBSET Key}
Snapshot == [graph : Graph, by : Run \cup {Outside}]

ASSUME NoneAssumption ==
    None \notin Snapshot /\ None \notin Flags /\ None \notin Scan

Event == [run : Run,
          type : {"crypto_finding", "crypto_drift", "policy_violation",
                  "evidence_signed"},
          what : Key \cup Agent]

TypeOK ==
    /\ pc \in [Run -> {"start", "done"} \cup Steps]
    /\ flags \in [Run -> Flags \cup {None}]
    /\ scan \in [Run -> Scan \cup {None}]
    /\ findings \in [Run -> SUBSET Finding]
    /\ base \in [Run -> Snapshot \cup {None}]
    /\ added \in [Run -> SUBSET Key]
    /\ exit \in [Run -> {"", "0", "1", "2", "3", "killed"}]
    /\ store \in [Target -> Snapshot \cup {None}]
    /\ log \in SUBSET Event
    /\ trail \in SUBSET Run
    /\ \A r \in Run : pc[r] # "start" => flags[r] # None /\ scan[r] # None

Init ==
    /\ pc = [r \in Run |-> "start"]
    /\ flags = [r \in Run |-> None]
    /\ scan = [r \in Run |-> None]
    /\ findings = [r \in Run |-> {}]
    /\ base = [r \in Run |-> None]
    /\ added = [r \in Run |-> {}]
    /\ exit = [r \in Run |-> ""]
    /\ store \in [Target -> {[graph |-> Build(s.prod), by |-> Outside] : s \in Scan}
                              \cup {None}]
    /\ log = {}
    /\ trail = {}

-----------------------------------------------------------------------------

input == <<flags, scan, findings>>

Goto(r, l) ==
    /\ pc' = [pc EXCEPT ![r] = l]
    /\ UNCHANGED exit

\* The run ends with this exit code.
Exit(r, code) ==
    /\ pc' = [pc EXCEPT ![r] = "done"]
    /\ exit' = [exit EXCEPT ![r] = code]

\* An I/O error, or a signal while it was under way.
Broken(r) == \E code \in {"1", "killed"} : Exit(r, code)

-----------------------------------------------------------------------------
(* The agent events.  Only findings with a passport's agent_id, and nodes   *)
(* with one among their occurrences, have a subject to emit for.            *)

Events(r, type, whats) == [run : {r}, type : {type}, what : whats]

Tagged(S) == {f \in S : f.agent # NoAgent}

\* The exporter writes one event after the other and stops at an error.
Emit(due) == log' = log \cup due

EmitBreaks(r, due) ==
    /\ \E some \in SUBSET due \ {due} : log' = log \cup some
    /\ Broken(r)

-----------------------------------------------------------------------------
(* The steps, in their order.                                               *)

\* Mutant: test code stays in the inventory.
ProductionUnpartitioned(f, s) == s.prod \cup s.tests

\* PartitionTests, unless --include-tests.
Production(f, s) == IF f.tests THEN s.prod \cup s.tests ELSE s.prod

\* What a run is started with: beside another one only what Beside allows both.
Offered ==
    LET started == {q \in Run : pc[q] # "start"}
    IN IF started = {} THEN Flags
       ELSE {f \in Beside : \A q \in started : flags[q] \in Beside}

ScanTarget(r, f, s) ==
    /\ pc[r] = "start"
    /\ flags' = [flags EXCEPT ![r] = f]
    /\ scan' = [scan EXCEPT ![r] = s]
    /\ \/ /\ Goto(r, "emitFindings")
          /\ findings' = [findings EXCEPT ![r] = Production(f, s)]
       \/ Broken(r) /\ UNCHANGED findings
    /\ UNCHANGED <<base, added, store, log, trail>>

FindingEvents(r) ==
    Events(r, "crypto_finding",
           IF flags[r].events THEN KeysOf(Tagged(findings[r])) ELSE {})

EmitFindings(r) ==
    /\ pc[r] = "emitFindings"
    /\ \/ Emit(FindingEvents(r)) /\ Goto(r, "save")
       \/ EmitBreaks(r, FindingEvents(r))
       \/ flags[r].events /\ Broken(r) /\ UNCHANGED log   \* exporter.Open
    /\ UNCHANGED <<base, added, store, trail>>
    /\ UNCHANGED input

Snap(r) == [graph |-> Build(findings[r]), by |-> r]

\* A Save that fails may have taken effect (a Postgres COMMIT whose answer
\* was lost).
SaveSnapshot(r) ==
    /\ pc[r] = "save"
    /\ LET t   == flags[r].save
           put == store' = [store EXCEPT ![t] = Snap(r)]
       IN \/ t = None /\ UNCHANGED store /\ Goto(r, "baseline")
          \/ t # None /\ put /\ Goto(r, "baseline")
          \/ t # None /\ (put \/ UNCHANGED store) /\ Broken(r)
    /\ UNCHANGED <<base, added, log, trail>>
    /\ UNCHANGED input

\* driftGate: the flags whose verdict is read out of the comparison.
DriftGated(f) == f.failOnNew # Off \/ (f.policy # None /\ f.policyNew)

\* Mutant: an asset already known under another risk class is not new.
DriftByAsset(b, cur) ==
    {k \in DOMAIN cur : \A x \in DOMAIN b : x[1] # k[1]}

Drift(b, cur) == Added(b, cur)

\* Mutant: a missing baseline is skipped whatever depends on it.
SkipMissingBaseline(r) == Goto(r, "drift")

MissingBaseline(r) ==
    IF DriftGated(flags[r]) /\ ~flags[r].allow
      THEN Exit(r, "1")
      ELSE Goto(r, "drift")

LoadBaseline(r) ==
    /\ pc[r] = "baseline"
    /\ LET t == flags[r].baseline
       IN \/ t = None /\ Goto(r, "drift") /\ UNCHANGED <<base, added>>
          \/ /\ t # None /\ store[t] = None
             /\ MissingBaseline(r)
             /\ UNCHANGED <<base, added>>
          \/ /\ t # None /\ store[t] # None
             /\ base' = [base EXCEPT ![r] = store[t]]
             /\ added' = [added EXCEPT ![r] =
                            Drift(store[t].graph, Build(findings[r]))]
             /\ Goto(r, "drift")
          \/ t # None /\ Broken(r) /\ UNCHANGED <<base, added>>
    /\ UNCHANGED <<store, log, trail>>
    /\ UNCHANGED input

\* Mutant: an event type the exporter does not define.
DriftEventsMistyped(r) ==
    Events(r, "drift", IF flags[r].events THEN added[r] ELSE {})

DriftEvents(r) ==
    Events(r, "crypto_drift",
           IF flags[r].events THEN added[r] \cap KeysOf(Tagged(findings[r]))
                              ELSE {})

EmitDrift(r) ==
    /\ pc[r] = "drift"
    /\ \/ Emit(DriftEvents(r)) /\ Goto(r, "report")
       \/ EmitBreaks(r, DriftEvents(r))
    /\ UNCHANGED <<base, added, store, trail>>
    /\ UNCHANGED input

SigningEvents(r) ==
    Events(r, "evidence_signed",
           IF flags[r].events /\ flags[r].format = "evidence"
             THEN {f.agent : f \in Tagged(findings[r])} ELSE {})

\* The report goes to stdout.  Only a signed --format evidence has events of
\* its own, one per agent; report.Human reports no error.
Report(r) ==
    /\ pc[r] = "report"
    /\ \/ /\ flags[r].format # "unknown"
          /\ \/ Emit(SigningEvents(r)) /\ Goto(r, "evidence")
             \/ EmitBreaks(r, SigningEvents(r))
       \/ /\ \/ flags[r].format = "unknown" /\ Exit(r, "1")
             \/ flags[r].format \in {"machine", "evidence"} /\ Broken(r)
          /\ UNCHANGED log
    /\ UNCHANGED <<base, added, store, trail>>
    /\ UNCHANGED input

\* A failed Append may have written its record.
SaveEvidence(r) ==
    /\ pc[r] = "evidence"
    /\ \/ ~flags[r].evidence /\ UNCHANGED trail /\ Goto(r, "policy")
       \/ /\ flags[r].evidence
          /\ \/ trail' = trail \cup {r} /\ (Goto(r, "policy") \/ Broken(r))
             \/ UNCHANGED trail /\ Broken(r)
    /\ UNCHANGED <<base, added, store, log>>
    /\ UNCHANGED input

\* policy.Load, and the one combination of flags that is refused here.
LoadPolicy(r) ==
    /\ pc[r] = "policy"
    /\ LET f == flags[r]
       IN \/ f.policy = None /\ Goto(r, "failOn")
          \/ f.policy = Unreadable /\ Exit(r, "1")
          \/ /\ f.policy \in Policy
             /\ IF f.policyNew /\ f.baseline = None
                  THEN Exit(r, "1")
                  ELSE Goto(r, "violations")
    /\ UNCHANGED <<base, added, store, log, trail>>
    /\ UNCHANGED input

\* policy.Evaluate for one node.
Breaches(p, k, s) ==
    \/ k[1] \in p.assets
    \/ k[2] \in p.classes
    \/ k[2] # RiskNone /\ s > p.max

Violations(r) ==
    {k \in IF flags[r].policyNew THEN added[r] ELSE KeysOf(findings[r]) :
        Breaches(flags[r].policy, k, SeverityOf(findings[r], k))}

ViolationEvents(r) ==
    Events(r, "policy_violation",
           IF flags[r].events
             THEN Violations(r) \cap KeysOf(Tagged(findings[r])) ELSE {})

\* Mutant: os.Exit before the events are written.
EvaluatePolicyExitFirst(r) ==
    /\ pc[r] = "violations"
    /\ IF Violations(r) = {} THEN Goto(r, "failOn") ELSE Exit(r, "3")
    /\ UNCHANGED <<base, added, store, log, trail>>
    /\ UNCHANGED input

EvaluatePolicy(r) ==
    /\ pc[r] = "violations"
    /\ \/ /\ Emit(ViolationEvents(r))
          /\ IF Violations(r) = {} THEN Goto(r, "failOn") ELSE Exit(r, "3")
       \/ EmitBreaks(r, ViolationEvents(r))
    /\ UNCHANGED <<base, added, store, trail>>
    /\ UNCHANGED input

\* Mutant: --fail-on stops above its threshold, not at it.
FailOnAbove(r) ==
    /\ pc[r] = "failOn"
    /\ LET t == flags[r].failOn
       IN \/ t = Invalid /\ Exit(r, "1")
          \/ /\ t # Invalid
             /\ IF t # Off /\ \E f \in findings[r] : Gates(f.class, f.sev, t + 1)
                  THEN Exit(r, "2")
                  ELSE Goto(r, "failOnNew")
    /\ UNCHANGED <<base, added, store, log, trail>>
    /\ UNCHANGED input

FailOn(r) ==
    /\ pc[r] = "failOn"
    /\ LET t == flags[r].failOn
       IN \/ t = Invalid /\ Exit(r, "1")
          \/ /\ t # Invalid
             /\ IF t # Off /\ \E f \in findings[r] : Gates(f.class, f.sev, t)
                  THEN Exit(r, "2")
                  ELSE Goto(r, "failOnNew")
    /\ UNCHANGED <<base, added, store, log, trail>>
    /\ UNCHANGED input

FailOnNew(r) ==
    /\ pc[r] = "failOnNew"
    /\ LET t == flags[r].failOnNew
       IN \/ t = Invalid /\ Exit(r, "1")
          \/ /\ t # Invalid
             /\ IF t # Off /\ \E k \in added[r] :
                                 Gates(k[2], SeverityOf(findings[r], k), t)
                  THEN Exit(r, "2")
                  ELSE Exit(r, "0")
    /\ UNCHANGED <<base, added, store, log, trail>>
    /\ UNCHANGED input

\* A signal between two steps.
Kill(r) ==
    /\ pc[r] \in Steps
    /\ Exit(r, "killed")
    /\ UNCHANGED <<base, added, store, log, trail>>
    /\ UNCHANGED input

Step(r) ==
    \/ \E f \in Offered, s \in Scan : ScanTarget(r, f, s)
    \/ EmitFindings(r) \/ SaveSnapshot(r) \/ LoadBaseline(r) \/ EmitDrift(r)
    \/ Report(r) \/ SaveEvidence(r) \/ LoadPolicy(r) \/ EvaluatePolicy(r)
    \/ FailOn(r) \/ FailOnNew(r)
    \/ Kill(r)

Next == \E r \in Run : Step(r)

Spec == Init /\ [][Next]_vars

-----------------------------------------------------------------------------
(* What an exit code promises, in terms of the findings themselves.        *)

Decided == {"0", "2", "3"}

\* The findings of a run whose asset is not in the baseline it loaded; without
\* a loaded baseline nothing is new.
Fresh(r) ==
    {f \in findings[r] : base[r] # None /\ KeyOf(f) \notin DOMAIN base[r].graph}

PolicyBroken(r) ==
    LET p == flags[r].policy
    IN /\ p # None
       /\ \E f \in IF flags[r].policyNew THEN Fresh(r) ELSE findings[r] :
             Breaches(p, KeyOf(f), f.sev)

AnySevere(r) ==
    /\ flags[r].failOn # Off
    /\ \E f \in findings[r] : Gates(f.class, f.sev, flags[r].failOn)

FreshSevere(r) ==
    /\ flags[r].failOnNew # Off
    /\ \E f \in Fresh(r) : Gates(f.class, f.sev, flags[r].failOnNew)

Verdict(r) ==
    IF PolicyBroken(r) THEN "3"
    ELSE IF AnySevere(r) \/ FreshSevere(r) THEN "2"
    ELSE "0"

\* Exit code 3 says a finding broke the policy, 2 that none did and one is at or
\* above a threshold, 0 that neither: deduplication into nodes, the drift and
\* the order of the gates lose no finding and invent none.
ExitIsVerdict == \A r \in Run : exit[r] \in Decided => exit[r] = Verdict(r)

\* "A missing --baseline is an error" whenever a gate reads its verdict out of
\* the comparison: with a drift gate, a --baseline and no
\* --allow-missing-baseline, no verdict is reached without having compared.
GateNeverBlind ==
    \A r \in Run :
        /\ exit[r] \in Decided
        /\ DriftGated(flags[r]) /\ ~flags[r].allow /\ flags[r].baseline # None
        => base[r] # None

\* Whatever code a run decides on, its audit is complete by then: the events of
\* every finding, of every new asset and of every violation, and the evidence
\* record, none of which os.Exit would wait for.
AuditBeforeExit ==
    \A r \in Run : exit[r] \in Decided =>
        /\ FindingEvents(r) \subseteq log
        /\ DriftEvents(r) \subseteq log
        /\ exit[r] = "3" => ViolationEvents(r) \subseteq log
        /\ flags[r].evidence => r \in trail

\* An asset seen only in test code reaches neither a snapshot nor an event of
\* a run without --include-tests.
TestsStayOut ==
    \A r \in Run : (flags[r] # None /\ ~flags[r].tests) =>
        /\ \A t \in Target : (store[t] # None /\ store[t].by = r)
              => DOMAIN store[t].graph = KeysOf(scan[r].prod)
        /\ \A e \in log : (e.run = r /\ e.type # "evidence_signed")
              => e.what \in KeysOf(scan[r].prod)

\* The drift gate across two runs: what passes --fail-on-new holds no gating
\* risk that the run which saved the baseline had not found already.
NoNewRiskPasses ==
    \A r, q \in Run :
        /\ exit[r] = "0" /\ flags[r].failOnNew # Off
        /\ base[r] # None /\ base[r].by = q
        => \A f \in scan[r].prod :
              Gates(f.class, f.sev, flags[r].failOnNew)
                  => \E g \in findings[q] : KeyOf(g) = KeyOf(f)

=============================================================================
