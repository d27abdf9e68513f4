# TLA+ models of qryx

qryx scans a target (a source tree, TLS endpoints, binaries, container images,
cloud key stores, agent infrastructure), grades the cryptography it finds, folds
it into an asset graph, and reports, gates, records and fixes it. This directory
holds TLA+ models of the parts of qryx that keep state, share it between
processes, or decide a verdict; the TLC runs that check them; and TLAPS proofs of
the results that matter most. Every definition that models code is listed under
`map` in `PROJECT.json` with the lines it was translated from; the things in the
code that are hard to test are listed under `hazards` with the properties that
watch them.

Contents: [1 Inventory](#1-inventory) ·
[2 Modules](#2-modules-and-the-code) ·
[3 Runs](#3-runs-and-what-they-show) ·
[4 Bounds, deadlock, fairness](#4-bounds-deadlock-fairness) ·
[5 Proofs](#5-proofs) ·
[6 Disagreements](#6-where-the-code-and-its-documentation-disagree) ·
[7 Not modelled](#7-what-is-not-modelled) ·
[8 Plan](#8-plan)

## 1. Inventory

### How one run flows

```
 target ──> Scanner.Scan / connectors ──> []Finding ──> PartitionTests
                 (walker, detectors)          │ risk.Apply       │
                                              v                  v
                 exporter (event log) <── findings ──> graph.Build ──> nodes
                                                          │
      store.Save / Load (snapshot) <── Snap ──────────────┤
                                    Diff ──> drift        │
                                                          v
              policy.Evaluate, --fail-on, --fail-on-new, reports, trail.Append
                                                          │
                                                          v
                                                      exit code
```

Within one process everything is sequential; `run()` in `cmd/qryx/main.go` is one
long function whose order of steps *is* the protocol. Concurrency is between
processes: CI jobs that share a snapshot target, an evidence trail or an event
log, and a user who works in the repository that `fix --open-pr` changes. The
failures are those of the file system, of a PostgreSQL server, a cloud API or a
TLS endpoint at the other end of a network, of `git` and `gh`, and the death of
the process.

### The parts

| part | state it keeps | operations | hard because of | correct when |
|---|---|---|---|---|
| asset graph (`internal/graph`) | node map, seen occurrences, order | `Build`, `AssetKey` | order of findings, equal severities, tags merged over one another | one node per (asset, risk class), the first most severe risk, every occurrence once |
| snapshot store (`internal/store`) | a JSON file, or three tables | `Save`, `Load`, `Diff` | crashes, failing system calls, lost answers, racing runs, three queries outside a transaction | a Load sees one whole snapshot, and never an older one after a newer one |
| evidence trail (`store/evidence.go`, `postgres.go`, `report/trend.go`) | an append-only log | `Append`, `History`, the trend gate | torn lines, racing appends, records that overtake one another | nothing appended is lost or reordered, the gate compares true neighbours or fails |
| scanning run (`cmd/qryx/main.go`) | findings, baseline, drift, exit code | `run` | order of side effects and gates, `os.Exit` past every defer, missing baselines | the exit code is the verdict the findings deserve and the audit is on disk by then |
| exporter (`internal/exporter`) and agent connector (`internal/agentstack`) | an event log of chained lines | `New`, `Emit*`, `Close`; passports and event streams | a write cut short, a log resumed after it, two writers, lines removed, copied, rewritten or chained anew | every event due is written, once, before the run decides; an honest log is never called broken, a verified one has no gap above an event that stands as it was written |
| risk classifier (`internal/risk`) | none | `NormalizeAlgorithm`, `Classify`, `Apply` | prefixes and tables over names | no risk is lost when findings share a node |
| compliance reports (`internal/report`, `agility`, `policy`) | none | audit and score, migration plan, NCSC milestones, `Evaluate` | five tables in five packages grade the same assets by name | they agree with one another and with the findings |
| tree walker (`internal/scan`) | counters of a Result, counts kept by detectors | `Scan`, `rustTestLines`, `PartitionTests` | a tree that changes under the walk, a Scanner used twice, brace counting | a scan that reports no gap has seen everything; test code is what Rust says |
| pull request (`internal/remediate`) | the user's repository and its origin | `Plan`, `OpenPR` | seven commands, each of which may fail, nothing undone, repeated runs | nothing the user wrote is lost, a pull request shows the fixes it lists |
| evidence document and signature (`report/evidence.go`, `attest`) | a file in other people's hands | build, sign, verify | digests recomputed by others, signatures and labels pasted in, keys of four kinds, JSON that does not come back as it was written | whoever a verdict names signed what the file shows; an untouched document verifies |
| image scanner (`internal/imagescan`), binary scanner (`internal/binscan`) | a temporary directory, a byte budget | extract the layers, scan the directory | names that meet once they are cleaned, the budget across layers, torn tars, failing writes | a later layer hides an earlier one; nothing is left out in silence; the budget holds |
| cloud inventories (`internal/cloud`) | page tokens, iterators, the list of what was skipped | list, describe, read tags | pages while the account changes, any call refused | what was there all the time is in the inventory or on the list; the listing ends |
| TLS probe (`internal/probe`), certificate helper (`internal/x509util`) | the findings so far | dial each endpoint, grade | endpoints that do not answer, machines that answer differently | an answering endpoint shows all that is wrong with it, another is named |
| source detectors, renderers | none | match, print | text | — |

### Who calls whom, and what they share

* `run` calls every part in a fixed order. Findings are filtered once
  (`PartitionTests`) and everything after reads the filtered list.
* The command decides which one source the findings come from (`scan` and
  `fix`, `image`, `aws`, `azure`, `gcp`, `tls`, `agents`).
* Two runs meet in the **snapshot target** (one saves, another loads its
  baseline), in the **evidence trail** (both append, a `trend` reads) and in
  the **event log**. None of the three is locked.
* `fix --open-pr` and the user meet in the **working tree, index and branches**;
  nothing tells one what the other did in between two commands.
* `Scanner` and its detectors share counters: a detector counts over its
  lifetime, the Scanner takes a difference per scan.
* The **image scanner** runs the tree walker and the binary scanner over the
  directory it has filled: their skip rules and caps become its own.
* An **evidence document** leaves the process that wrote it; `verify-evidence`
  knows it only by what the file says and by the key it is told to expect.
* The reports and the policy share nothing but the nodes: their agreement is
  an agreement of tables.

## 2. Modules and the code

| module | models | state and actions |
|---|---|---|
| `AssetGraph` | data of `model/asset.go`, `graph.key`, `store.Diff`, the gate predicate of `main.go` | none; findings, keys, `Added`, `Gates` |
| `GraphBuild` | `graph.Build` | the list, the loop index, node map, seen set, order, result. `AddFinding` is one turn of the loop, `SortOut` the stable sort that ends it |
| `SnapshotStore` | what the `Store` interface promises: one cell | `Save`/`Commit`, `Load`/`Observe`/`Answer`, `Abandon`. `KeepNewest` tells the backends apart |
| `JSONStore` | `store/store.go` | the file, each process' temporary file. One action per system call: `CreateTemp`, `Write`, `FinishWrite`, `Close`, `Rename`, `Open`, `Read`, each of which may fail, and `Kill` at any point |
| `PostgresStore` | the snapshot half of `store/postgres.go` over `schema.sql` | committed rows, each client's transaction, the id sequence, the clock. One action per statement at READ COMMITTED |
| `Stores` | `openStore` in `main.go` | the backend a target names; then `JSONStore` or `PostgresStore` |
| `TrailData`, `EvidenceTrail` | `EvidenceRecord`, `trend --fail-on-regression`; what the `Trail` interface promises: one log | an append takes effect at one instant, a trend sees one instant. `ByTime` tells the backends apart |
| `JSONLTrail` | `store/evidence.go` | the bytes of the file as a sequence of symbols (first half of an object, second half, newline), written in pieces with other processes' pieces in between |
| `PostgresTrail` | the evidence half of `store/postgres.go` | committed rows in commit order, ids, times read before the connection is made |
| `Trails` | `openTrail` in `main.go` | the backend a target names; then `JSONLTrail` or `PostgresTrail` |
| `Targets` | what `--save`, `--baseline`, `--save-evidence` and `trend` are given | `Stores` and `Trails` side by side, of which `Kinds` says which are in use |
| `QryxRun` | `run()` in `cmd/qryx/main.go`, with `exporter`, `policy.Evaluate` and the two gates | per run: command line, findings, baseline, drift, exit code; shared: snapshot targets, event log, trail. One action per step of `run()`, in its order |
| `RiskRules` | `risk`, the status table of `report/cnsa.go`, `agility`, the builtin policy `cnsa`, the NCSC subset | none: tables and switches |
| `ComplianceReport` | `risk.Apply`, node folding, `buildEntries`, the score, the migration plan, `Evaluate`, `buildNCSC` | findings, nodes, and the four reports, which are asked for in any order |
| `RustTestLines` | `rustTestLines`, `stripRustNoise` in `scan/testpath.go`; beside it, what Rust itself says | none: lines are sequences of tokens |
| `Walker` | `Scanner.Scan` in `scan/walker.go` | the tree (each entry `ok`, `gone`, `locked` or `large`), the listings, the cursor, the Result, the detector's count. Looking at a file (`VisitFile`) and reading it (`Read`, `ReadFails`) are two steps |
| `ImageScan` | `imagescan/image.go`, `binscan`'s `Scan`, the walker's rules as they apply to the extracted tree | the temporary directory, bytes written, files too large, findings. One action per tarball, layer and file, each write of which may fail, then the scan of the directory |
| `CloudInventory` | `cloud/aws`, `cloud/azure`, `cloud/gcp` | the account, the page and the token or the position of the iterators, findings, the list of what was skipped. One action per call of the API, each of which may be refused; `Change` is other people's |
| `TLSProbe` | `runTLS`, `probe.Endpoint`, `x509util`, `risk.Apply` over its findings | the endpoint dialled next, what was observed, who did not answer |
| `Sources` | the command switch of `run()` | the command; then `Walker`, `ImageScan`, `CloudInventory` or `TLSProbe` |
| `EventLog` | `exporter.New`, `Emit*`, `Close`; `agentstack`'s passports and verdict on a stream; the chained writer and the chain check they use | the lines of the file, each run's writer (last hash, what it has still to write), what is done to the file between runs |
| `EvidenceDocument` | `BuildEvidence`, `SignEvidence`, `VerifyEvidence` in `report/evidence.go`, `attest`, `verify-evidence` in `main.go` | the file, the verdict, history of what was printed and signed. `Edit`s of the file are others' |
| `OpenPR` | `remediate.Plan`, `pr.go`, `gitcli.go` | worktree, index, branches, origin, HEAD, pull requests, and the run's progress. One action per git or gh command, plus what the user does between runs |
| `MC*` | — | values of the constants for TLC, nothing else |
| `*Proofs` | — | theorems about the module they are named after |

How they compose. `JSONStore` and `PostgresStore` each contain an
`INSTANCE SnapshotStore WITH ...`: the refinement that `CellSpec` names. `Stores`
puts the two behind one target (`TableCell` is `CellSpec` of the tables there),
`Trails` does the same for the trails (`TableTrail`), and `Sources` for the
sources of findings, of which each run has one. `Targets` has the stores and the
trails next to each other; they share nothing, so TLC looks at one at a time
(`Kinds`), and the theorem `TargetsAreApart` says that this is enough.
`QryxRun` in turn takes one step for a whole Save and one for a whole Load: what
the refinement allows it to. `JSONLTrail` and `PostgresTrail` refine
`EvidenceTrail` in the same way (`TrailSpec`). `QryxRun` and `GraphBuild` both
extend `AssetGraph`; `QryxRun.Build` is the set-level result that
`GraphBuild.BuildFoldsPrefix` shows of the loop. `Walker` extends
`RustTestLines`, `ComplianceReport` extends `RiskRules`.

Abstractions worth knowing:

* A finding of `AssetGraph` is (asset, class, severity, occurrence, agent): the
  tags other than `agent_id` are read by nobody. A finding of `ComplianceReport`
  carries what the tables look at instead (type, algorithm, size, primitive,
  source).
* A file's contents in `OpenPR` are the set of edits it has; `"fix"` is the
  raised key size and `"torn"` a write that was cut short.
* A line of `EventLog` is the n-th event ever written, and its hash is n. Rewritten,
  it is revision `rev` of that event, with a hash of its own and any `prev`: that
  of another line, none at all (`NoHash`, which makes it a head), or one that is no
  hash (`Misshapen`). A line cut short, or two run together, is no event. The chained writer is a library's
  (`agent-stack-go`): it is modelled from its calls and from the tests of the
  packages that use it, and marked external in `map`.
* A digest in `EvidenceDocument` stands for the text it was taken of, a
  signature for its key and that text.
* A layer of `ImageScan` is a sequence of files with a path, a size in units of
  the caps, and what is in them.
* A killed process is replaced by a new one under the same name.
* The time a record is given is a tick of a clock that all processes share.
* A definition whose comment begins with `Mutant:` is not part of any
  specification. It states a plausible bug, which shows that the property it
  belongs to would notice.

## 3. Runs and what they show

States are the distinct states TLC visits.

| run | properties | shows | states |
|---|---|---|---|
| `graph_build` | `TypeOK`, `BuildFoldsPrefix`, `GateAgreement` | The loop computes the fold it documents after every prefix; a gate that walks findings and one that walks nodes agree at every threshold | 27 thousand |
| `stores` | `TypeOK`, `TargetWhole`, `LoadSeesWhole`, `CellSpec`, `BaselineNeverOlder`, `TableCell` | With every system call failing, short writes and kills, the file is never torn, and is one cell. Three queries assemble one committed scan although saves commit between them, the baseline never goes back in time, and the tables are one cell, even when the answer to COMMIT is lost | 725 thousand |
| `qryx_run` | `TypeOK`, `ExitIsVerdict`, `GateNeverBlind`, `AuditBeforeExit`, `TestsStayOut`, `NoNewRiskPasses` | A run under all gate flags, under all it writes, and beside another one: its exit code is the verdict of its findings, no drift gate decides without a comparison, events and evidence are written by then, test code reaches no shared state, and what passes the drift gate has no gating risk that the run before it did not have | 358 thousand |
| `trails` | `HistoryGrows`, `NoLockNeeded`, `TrailSpec`, `TableTrail` | Whatever is torn, what one trend saw is the beginning of what every later one sees, or that one fails; whole-line writes need no lock; the file is an append-only log. Inserts overtake one another and answers are lost: the table is a log ordered by time | 956 thousand |
| `open_pr` | `NothingLost`, `OldBranchesStay`, `PRShowsFixes` | Failed and repeated runs, with the user at work between them, lose nothing, move no earlier branch, and open no pull request without the fixes it lists | 281 thousand |
| `compliance` | `NoBadFindingHidden`, `FullScoreIsEarned`, `PlanMatchesAudit`, `PolicyMatchesAudit`, `MilestonesMatchAudit` | Deduplication hides no finding's risk, 100 percent is earned, and the audit, the plan, the policy and the milestones agree on what has to be done | 345 thousand |
| `sources` | `AllTypesOK`, `CleanMeansExamined`, `TestsStamped`, `ImageAccounted`, `BudgetKept`, `Accounted`, `TargetsAccounted`, `ScanEnds` | What a walk, an image, a cloud account or a list of endpoints holds is in the result or accounted for as not examined, whatever changes, fails or is refused on the way; test regions are where Rust puts them; the extraction stays in its budget; every scan ends | 884 thousand |
| `event_log` | `HonestNeverBroken`, `VerifiedHasNoGap`, `ToldOnce` | One run after the other, killed, cut short or over a rotated log: the reader never calls their log broken. Runs at the same time, lines removed, copied, rewritten, made heads or chained anew: what verifies has no gap in what a run wrote above an event of it that stands as it was written. A run that got through told each agent of each finding, and of a signature once | 13.9 million |
| `evidence` | `NamesTheSigner`, `HonestVerifies` | A document edited twice on its way, digest recomputed, signature, label or key exchanged: a verdict names only who signed what the file shows, exit code 0 in CI only then, and a document nobody touched verifies if its strings are UTF-8 | 945 thousand |
| `compliance_hash` | `NeverCountedAsCompliant`: violated | see section 6 | – |
| `walker_rust` | `ProductionStillCounts`: violated | see section 6 | – |
| `evidence_utf8` | `VerifierRecomputes`: violated | see section 6 | – |

`TypeOK` of `JSONLTrail`, `PostgresStore`, `OpenPR`, `ComplianceReport`,
`EventLog` and `EvidenceDocument` holds in these runs too; it is not listed as a
property of a run.

`mutants` in `PROJECT.json` names, for each property, a change of the model that
a plausible bug in that code would be and that makes the run fail.

## 4. Bounds, deadlock, fairness

Why the bounds are enough to be interesting:

* **GraphBuild**: every list of up to 4 of 8 findings. Three findings of one key
  (raise, tie, repeat) and one of another exercise every branch of the loop; the
  eight contain a place reported twice, one asset under two classes, one key at
  two severities, two agents whose passports share a key, and two keys the sort
  cannot tell apart. The theorems have no bound.
* **Stores**: 2 processes; 2 snapshots (JSON), 2 scans of up to 2 assets
  (PostgreSQL, `MaxScans` bounds the sequence and the clock: no Save begins once
  it is used up). The races are save/save and save/load; a third process adds no
  new pair, and the theorems hold for any number, of either backend.
* **Trails**: 2 processes, 3 records (`MaxStamp`, `MaxRecords`), 2 scores; in the
  table 3 records have 2 times between them (`MaxTime`), so that two are taken
  at the same time. A torn line needs one record before it and one after it to
  do harm.
* **QryxRun**: the first run takes all combinations of the gate flags with an
  invalid and an absent value of each (`GateFlags`), all combinations of what a
  run writes (`AuditFlags`), or one of five command lines of two runs on one
  target (`PairFlags`). A second run joins, during the first or after it, only when
  both have one of these five (`Beside`): every interleaving of two runs is there
  for them, every flag for a run alone. The four scans put one asset in production
  and one in test code or both, with severities on both sides of the
  thresholds.
* **OpenPR**: 2 files to fix and 1 beside them, 2 user edits, 3 branches: a run
  can stop between two writes, and be followed by two more on other branches.
* **ComplianceReport**: every scan of up to 3 of 24 findings, at least one for
  each row that the tables tell apart; what reports hide or disagree on takes
  two findings of one key and one of another.
* **Walker** (in `sources`): 9 entries with one of each kind, 2 scans
  (`MaxScans`), 1 change to the tree between any two steps (`MaxChanges`), and
  the tidy ones among all Rust files of up to three lines and of those of six
  lines around a test module.
* **ImageScan**: caps of 3 units a file and 5 in all (`MaxFileBytes`,
  `MaxTotalBytes`), 2 for the code scanner (`MaxSourceBytes`); one tarball of up
  to two layers, or two tarballs, with up to two files out of eight in a layer:
  names meet after cleaning, a file stands where a directory has to go, a file
  exceeds each cap, a tar is torn, a layer is opaque. The budget runs out in a
  second layer.
* **CloudInventory**: pages of up to 2 entries (`PageSize`), cut anywhere, more
  than one page of every listing, one resource (of 16) created or removed between any two calls;
  every call may be refused, in every combination. Two is the smallest page on
  which an entry can go away while its neighbour is still to be handled.
* **TLSProbe**: 3 endpoints of a command, with a repeated one (`MaxTargets`).
* **EventLog**: 3 runs, 4 events (`MaxEvents`), 2 faults (`MaxFaults`: a failed or
  cut-off write, a kill, a rotation, a line removed, copied or rewritten). A gap
  needs an event before it, one in it and one after it from one run, and a second
  run to lend it a hash; hiding it takes one fault that removes a line and one that
  makes its successor a head or chains it anew; an honest chain is resumed twice.
* **EvidenceDocument**: 2 documents (`MaxRuns`), 2 edits (`MaxEdits`), clocks 0 and
  1 (`MaxTime`); an Ed25519 key, two ML-DSA keys of different sizes, and one of a
  kind qryx does not support. A forgery takes an edit of
  the content and one of the signature; the second document is what a signature
  is taken from.

Symmetry is used where processes, assets, files or branches are
interchangeable, with invariants and step properties only.

`CHECK_DEADLOCK FALSE` stands where the system may really stop: a run that has
exited, `Build` that has returned, a source that is exhausted, a file that nobody
edits any more, an exhausted clock or sequence in the trails and the event log
(`MaxStamp`, `MaxRecords`, `MaxEvents`). In `OpenPR` the repository can come to
rest with nothing left to fix. The two stores are checked for deadlock.

Fairness is assumed in one place. `SourcesSpec` has weak fairness of `Work`: the
source of this command takes its next step if it can. That is what one goroutine
that loops does, once every read and every call comes back, with an answer or an
error: `StartFails`, refused calls and mute endpoints are such answers, `os` and
`tar` reads end at the end of the file, and a TLS dial has a deadline
(`--timeout`, 5 seconds unless given; `tls.go:31`). The cloud calls run under
`context.Background()`, without a deadline: that they return is the SDKs' promise
and not qryx's. Nothing is assumed of other
people: they may change the tree or the account at any time, or never. Under it
`ScanEnds` says that no page loop, iterator or walk goes round in circles; a
token that is not handed on, or an iterator that is not advanced after an error,
does.

No liveness is claimed of the rest. Nothing there waits for another process,
retries, or runs in the background: what could be said ("a run that started
ends") is the termination of straight-line code, and a run that is killed does
not come back.

## 5. Proofs

TLAPS checks these for every value of the constants that meets the named
assumptions.

| module | theorem | property | says |
|---|---|---|---|
| `GraphBuildProofs` | `TypeCorrect`, `BuildIsCorrect`, `GatesAgree` | `TypeOK`, `BuildFoldsPrefix`, `GateAgreement` | the loop is right for every list of findings of any length |
| `StoresProofs` | `TypeCorrect`, `TargetIsWhole`, `LoadIsWhole`, `FileIsCell` | `TypeOK`, `TargetWhole`, `LoadSeesWhole`, `CellSpec` | for any number of processes and snapshots nothing is ever torn, and the file implements the cell |
| | `TheBaselineNeverAges`, `TablesAreCell` | `BaselineNeverOlder`, `TableCell` | three queries outside a transaction, and a COMMIT whose answer is lost, implement the cell that hands out the snapshot taken last |
| | `TargetsAreApart` | | snapshot targets and trails side by side behave like each of them alone |
| | `HistoriesGrow`, `AppendsNeedNoLock`, `FileIsLog` | `HistoryGrows`, `NoLockNeeded`, `TrailSpec` | for any number of processes and records, lines written in pieces without a lock make a log in the order of the appends; without short writes it is always readable |
| | `TableIsLog` | `TableTrail` | inserts that overtake one another, and whose answers are lost, make a log in the order the records were taken in |
| `QryxRunProofs` | `TypeCorrect`, `ExitCodeIsRight`, `GateSees` | `TypeOK`, `ExitIsVerdict`, `GateNeverBlind` | for any number of runs, scans, targets and command lines |
| | `AuditIsComplete`, `TestsAreKeptOut`, `NothingNewPasses` | `AuditBeforeExit`, `TestsStayOut`, `NoNewRiskPasses` | what a run leaves for others: the finding, drift and violation events and the record it owes are there (the events of a signature are `ToldOnce`'s), test code is not in them, and a later run that passes the drift gate has no gating risk that this one had not |
| `ComplianceReportProofs` | `NothingHidden`, `PlanAgrees`, `PolicyAgreesWithAudit` | `NoBadFindingHidden`, `PlanMatchesAudit`, `PolicyMatchesAudit` | for scans of any length over whatever detectors write |
| | `AFullScoreIsEarned`, `MilestonesAgree` | `FullScoreIsEarned`, `MilestonesMatchAudit` | and what the reports count is what the nodes are |
| `EventLogProofs` | `AVerifiedLogHasNoGap`, `AnHonestLogIsNeverBroken` | `VerifiedHasNoGap`, `HonestNeverBroken` | for any number of runs and events, and anything that is cut off, rotated, removed, copied, rewritten or chained anew |
| | `EveryoneIsToldOnce` | `ToldOnce` | for any findings, and any number of runs that write at the same time and fail anywhere, a run that gets through has told of everything once |
| `EvidenceDocumentProofs` | `TypeCorrect`, `TheSignerIsNamed`, `TheHonestVerify` | `TypeOK`, `NamesTheSigner`, `HonestVerifies` | for any keys, documents, edits and clocks |
| `OpenPRProofs` | `TypeCorrect`, `OldBranchesAreKept`, `NothingIsLost`, `PullRequestsShowTheFixes` | `TypeOK`, `OldBranchesStay`, `NothingLost`, `PRShowsFixes` | for any files, branches and edits, and any number of runs that stop anywhere |
| `SourcesProofs` | `EveryTargetIsAccountedFor`, `EveryImageIsAccountedFor`, `TheBudgetIsKept`, `NoGapMeansExamined`, `EveryResourceIsAccountedFor` | `TargetsAccounted`, `ImageAccounted`, `BudgetKept`, `CleanMeansExamined`, `Accounted` | for any endpoints, tarballs, trees and accounts |
| | `TestsAreStamped` | `TestsStamped` | for any tree of Rust files of any length that are tidy (`Tidy`): counting braces line by line finds exactly the items Rust compiles for tests only |
| | `AllTypesAreRight` | `AllTypesOK` | for all of them at once: no entry of the tree is counted twice, and pages and iterators stand at resources of the account |

A source, a backend or a file that is not the one in use stays where it begins:
a theorem about a composed module is about its parts one by one.

The arguments:

* **GraphBuild.** `BuildFoldsPrefix` speaks of nodes and of the prefix; the loop
  decides by `seen` and `order`. `IInv == TypeOK /\ Bookkeeping /\
  BuildFoldsPrefix` adds that `seen` holds exactly the occurrences the nodes
  carry and that `order` lists the nodes. `GateAgreement` follows from
  `BuildFoldsPrefix` alone: a node's risk is the risk of one of its findings and
  none of them is more severe.
* **JSONStore.** `TargetWhole` is not inductive: the rename is safe only because
  the temporary file is complete when it happens (`TmpComplete`). `FileIsCell`
  maps `create .. rename` to "saving", `open` and `read` to "loading" and
  "observed"; `Rename` is the abstract `Commit`, `Open` the abstract `Observe`,
  every other step is a stutter or an answer.
* **PostgresStore.** What makes three queries one observation is that a
  committed row never changes and that an id is never given out twice.
  `TablesInv` says it while transactions are open: a transaction's row is whole
  by the time it commits (`TxGrows`), open transactions and committed rows have
  distinct ids (`TxApart`), a Load that has its scan id holds a committed row
  whose assets it has or will read (`Reading`), and if there is any row there is
  a latest one (`LatestIsThere`). `Latest` is then the abstract `Observe`, the
  commit is `Commit` whether its answer arrives or not, and by `KeepNewest` a row
  that is not the latest leaves the cell as it was.
* **JSONLTrail.** A record is in the log from the write that completes its object,
  which may be one of several of its line, with other processes' pieces in
  between. `FileInv`: the records under way are distinct from one another and
  from what others wrote (`Distinct`), what is left of a line completes its object
  exactly if it is not in the file yet (`OnTheWay`), what a trend has read or
  returned is the beginning of the file or of its records (`ReadBefore`,
  `ListedBefore`), and without short writes the file consists of whole lines
  (`WholeLines`). `Records` is a recursive function over the file; the lemmas
  `RecordsGrow`, `RecordsStay` and `RecordsAdd` say what it makes of a longer
  file, each from a least counterexample. The write that completes the object is
  the abstract `Commit`, the return of the last write `Acknowledge`, `Read` is
  `Observe`.
* **PostgresTrail.** `TableInv`: no id is given out twice, to a committed row or to
  one under way (`IdsApart`). So `Before` orders the rows totally and the
  listing is the only ordered one (`OneOrder`); a committed row comes to stand
  between those before and those behind it and moves no other (`PlaceOf`,
  `OrderWith`), which is the abstract `Place`.
* **QryxRun.** A run reads the shared store once and nothing of another run, so
  the invariant is a conjunction of per-run parts: what `base` and `added` are at
  each `pc`, and which gates have been passed without stopping. The exit code is
  then computed from the nodes while `Verdict` is stated over findings; the lemma
  `SeverityOfIsMax` bridges the two. `WholeInv` adds what a run leaves behind: a
  snapshot in a target or in a baseline that carries a run's name shows the
  findings that run counted (`StoredRight`, `LoadedRight`), its events are those
  of its findings (`LoggedRight`), and past each step that writes, what it writes
  is there (`Audited`).
* **ComplianceReport.** `IInv == Scanned /\ Collected /\ Written`: every finding
  read so far is graded, has a node of its key, a node shows a detected asset
  with its key, and a report says what the nodes say. Since the class is part of
  the key, a node's class is that of each of its findings; since the normalized
  name and the size are, so is every answer of the tables that leads to a bad
  status. For what is counted, `CountInv` adds the other direction: a node shows
  the asset of one of its findings (`Sourced`), only what Shor's algorithm breaks
  is classed quantum-vulnerable (`Quantum`), and there are finitely many nodes, of
  which score and milestones are cardinalities (`Counted`).
* **EventLog.** `VerifiedHasNoGap` compares a file that others have been at with
  what was written. `GapInv`: every event in the file was written (`Known`); the
  `prev` of an event that stands as it was written is the id of the one its run
  wrote before it, if there is one (`Linked`); a run that still writes remembers its
  last event (`Remembers`). Of a rewritten line nothing is known but that its hash
  is not that of an event as written. Let a file verify, and take the topmost line
  from which on, down to the event j that stands as written, the run's events all
  stand: if the line i is not reached, that line is chained to an earlier event of
  the run, the line above it has that hash, so it is that event as it was written,
  and lies further up. Where lines stand, and how often, is not used: a file in
  which lines were copied about need not be in order. `HonestNeverBroken` takes
  the same invariant with the order of writing, which holds until somebody touches
  the file (`InOrder`), and, as long as nobody did and nobody else wrote
  (`HonestInv`): no line is rewritten (`Unedited`), a chained
  event that stands below another is linked to it (`Unbroken`), no two events have
  one predecessor (`Unforked`), and an open run goes on from the last event in the
  file (`GoesOn`). `ToldOnce` counts events, and what it counts is spread over the
  history of all runs. Both counts are numberings: of the places in `Findings`
  that an `Emit` call writes an event for (`Writes`, by the loop), and of what a
  run has written by what it had to tell (`Did`). `TellInv`: an open run has
  written the first k things of `Tells` and has the others in `todo`, one that is
  done has written all. The four calls write events of four types, so that where
  one type stands (`PlacesOf`) is a question to one call.
* **EvidenceDocument.** Signatures and digests stand for the text they were made
  of, so the question is which text. `SignedRight`: a signature is of a key
  that can sign, and one of a user of qryx is in a document qryx printed;
  `SignatureIsSomebodys`: the one in the file was made by somebody, whatever it
  was pasted into; `PrintedRight`: what qryx prints has the digest of its text and
  the signature of its digest; `VerdictRight`: a verdict that stands is the one
  the file that is there gets. `RoundTrip` is the lemma on
  encoding: an unescaped text comes back as it was written.
* **OpenPR.** `IInv` follows what the user wrote from the worktree through the
  commit: `StartsClean` (the files to patch had nothing uncommitted, and hold what
  was committed until they are written), `FixOnTheWay` (where a fix is, by the
  step the run is at), `SecondCopy` (what is staged is on disk or in a branch as
  well, and what the current branch has and the disk has not is in another one),
  `OnOwnBranch` and `RemoteFollows`.
* **Sources.** For each source, what was taken in so far is accounted for so far.
  `ProbeInv`: the findings of each turn behind the current one are those of its
  handshake, graded or not yet. `ImageInv`: while no file was too large, each
  file of the directory is the topmost of the extracted ones with its path
  (`Laid`), and each tarball behind
  the current one has its findings or its notice (`Reported`); that `safeJoin`
  gives a path to whatever it lets through is all that is needed of it.
  `BudgetInv`: the sizes of the files there add up to at most `written`, to which a
  file that is written over is added once more. The sum is the library's fold over
  a set, which takes its elements in an order of its own; that this order does not
  matter is proved first (`SumsAgree`, `SumsWithout`), from a smallest set for
  which it would.
  `WalkInv`: a directory behind the cursor has all its children listed or a gap
  was counted; what was listed is looked at, in a gap, or still ahead.
  `TestsAreStamped` is about the loop of `rustTestLines`. `Right` says, after each
  line, what its variables tell of the items whose attribute has come (`Tracks`): in
  a region the brace depth is that of the outermost item that goes on and no other
  is deeper; armed, every such item has had no brace yet; otherwise none goes on.
  `AfterIs` turns the library's fold over a file into a step per line.
  `CloudInv`: a resource that was there all the time is settled (in the inventory
  or on the list), or it is still ahead: on the page, behind the marker or the
  next token, a certificate while keys are listed (`InListing`), or after the
  position of the iterators in the order of ring, key and version
  (`InIterators`). A removal in the middle of a page moves no marker, since the
  marker is a name and not a count.

Assumptions. `RiskNone` is a class and `NoAgent` no agent; `Input` consists of
findings; `Rank` is a total map to numbers; `None` (in `EvidenceDocument` the
string `"none"`, in `QryxRun` also `Outside`) is none of the values it stands
beside; there is at least one scan in the bound `MaxScans`. For the reports,
`Detected`: no detector writes MD4, RC2 or Blowfish, none writes an AES size other
than 256 (or none), and none asserts a class `quantum-vulnerable`, which is for
`risk` to find. For the probe: an RSA key of a certificate has a size. For
images: there is a tarball to scan, and only what is a layer holds files. For the
accounts: names are numbers from 1, only certificates and vault keys expire, and
only a vault key is disabled. TLC evaluates each of them on the instances. `NothingIsLost` and
`PullRequestsShowTheFixes` are about runs for which git knows the files by the
names it is asked about (`SameNames`); section 6 says when it does not.
`TestsAreStamped` is about files for which braces can decide (`Tidy`): none is a
character literal, `#[cfg(test)]` stands before an item with a block and
`#![cfg(test)]` in the outermost one. Section 6 shows another.

Induction over the lines of a log, the symbols of a file and the entries of a tree
is by a least (or greatest) counterexample, with the library's theorem on
well-founded relations.

Only model-checked:

* `ScanEnds`: liveness under fairness is out of the prover's reach. Every other
  property of a passing run is stated by a theorem.

No property speaks of the order in which `Build` returns the nodes: the model has
the sort, the reports that print it are not modelled.

## 6. Where the code and its documentation disagree

Shown by a run:

1. **SHA-384 is SHA3** (`compliance_hash`). `NormalizeAlgorithm` maps every name
   that begins with `SHA-3` to `SHA3` (`risk/rules.go:65`) and `SHA-384` does;
   its own case two lines below is never reached. The two share a node, which
   shows the first found: SHA-384 first, and a SHA3 finding is counted as
   compliant; SHA3 first, and SHA-384 is not assessed. `README.md:725-726` says
   an algorithm without a rule is "never counted as compliant".
2. **`#[cfg(test)]` reaches over its item** (`walker_rust`). After `#[cfg(test)]
   mod tests;`, or on a `use`, the attribute waits for the next line with an
   opening brace (`scan/testpath.go:135`), and the production function there is
   set aside as test code. The one file of the run is such an item and a function
   with a key in it. `README.md:195-198` says the production code around a
   test module "still counts".
3. **An escaped byte is not the byte** (`evidence_utf8`). A file name that is no
   valid UTF-8 is written as the escape `\ufffd`, parsed as U+FFFD, and written
   as that character when the verifier recomputes the digest
   (`report/evidence.go:226`): a signed document nobody touched is reported as
   modified. `report/evidence.go:220-222` says a verifier can recompute the
   digest by blanking the field. For documents without such a name
   `HonestVerifies` holds.

Met while modelling, and part of the models' behaviour, but not the subject of a
run:

* A brace in a character literal counts as a brace (`testpath.go:123`): a `'{'`
  inside a test module keeps its region open over the production code behind it,
  where the comment of `stripRustNoise` (`testpath.go:145-150`) says that what it
  misses fails "toward under-detection". A `#![cfg(test)]` inside a nested module
  marks everything to the end of the file.
* An insecure cipher suite is due immediately in the audit, and `--policy cnsa`
  passes it (`policy.go:97`; `README.md:720` says it enforces the same standard).
  `PolicyMatchesAudit` states the agreement with this exception.
* With a scan root other than the current directory, git does not know the names
  it is asked about: it reports a clean tree, and `OpenPR` writes over
  uncommitted changes (`gitcli.go:15`; `pr.go:37` says it checks first). The
  `Resolve` constant of `OpenPR` stands for this; the run takes the identity.
* `git commit` takes everything staged, the user's own changes included
  (`gitcli.go:42`; `README.md:781-783`).
* After a failed push a repeated run finds nothing to fix and never opens the
  pull request.
* `qryx scan build`: a root whose name is among the skipped ones is skipped
  whole, and no gap is reported (`walker.go:84`).
* A file that grows between `Info` and `ReadFile` is read past the cap
  (`walker.go:13`, `:113`).
* The digest recorded in a trail is of a document rebuilt for the record
  (`evidence.go:113`), in a later second it may be: it is then not the digest of
  the document that was printed (`README.md:869-870` compares the two).
* A failing event log ends the run with its error (`main.go:248-250`), where
  `README.md:679` and `exporter.go:7` call the exporter fail-open.
* Two runs that write one event log at the same time make it read as one without
  a chain, or, if both found it empty, as broken. `HonestNeverBroken` is stated
  for one run after the other.
* `README.md:662-664` says that any event without a `prev_hash` makes a stream a
  `misconfig` finding, and `agentstack.go:13-16` that the first pass asks for one in
  every event. The code takes such an event for a head, the start of a chain,
  wherever it stands (`agentstack.go:270-276`, `:320`, `:386-389`): a log that
  starts again in the middle is verified as SHA-256 with several heads, and it is
  flagged only when no event at all is chained. `HonestNeverBroken` follows the
  code.
* It follows that whoever takes lines out of a log and blanks the `prev_hash` of the
  event below, or computes it anew, where no event of the file is chained to that
  one, has a log that verifies: of four chained events, remove the third, blank the
  fourth, and the verdict is SHA-256 with two heads, in a finding that calls the
  stream tamper-evident (`agentstack.go:394`). `VerifiedHasNoGap` is what does hold: nothing is missing above an
  event of the run that stands as it was written.
* An event log with a single event verifies as one without a chain; a line longer
  than one MiB ends `parseEvents` there without a word; a passport or stream that
  cannot be read is named on stderr only.
* The cloud connectors leave keys of a kind they do not know out in silence, AWS
  also one that is described without metadata (`aws.go:96`), and Azure takes a key
  without material for an EC key (`azure.go:75`); GCP takes `EXTERNAL_SYMMETRIC_ENCRYPTION` for AES-256 although
  `gcp.go:145-146` says external keys are not tracked, and gives
  `RSA_SIGN_RAW_PKCS1_2048` no size. `Accounted` excepts what is not tracked.
* A layer in a compression qryx does not know is passed over without a notice, and
  so is what the code scanner could not read or parse in the extracted tree
  (`image.go:36-37` says an image that was only partly examined is never presented
  as one with nothing in it). A file that a whiteout deletes is scanned all the
  same.
* When no endpoint answers, `qryx tls` has an empty result, and every gate passes
  (`main.go:699`). `TargetsAccounted` says that each is named on stderr.
* Two agents whose passports share a key: the node keeps the last `agent_id`, and
  drift and violation events miss the other (`graph.go:129`; `exporter.go:131`).
* `--fail-on-new` without `--baseline` passes (`main.go:275`; `:72` calls a
  missing baseline an error), and `--save` and `--baseline` on one target compare
  the run with itself (`main.go:254`; `:269`). `GateNeverBlind` is stated for
  runs that name a baseline and says only that one was loaded.
* `Load` returns the latest scan of any root (`postgres.go:107`): two projects
  that share a database gate against each other's baseline.
* `History` of the PostgreSQL trail is in the order of `created_at`, so a record
  that arrives late is inserted between ones a trend has compared already
  (`postgres.go:151-162`). `TableTrail` says what does hold.

## 7. What is not modelled

* **Source detectors**: pattern matching and table lookups over bytes, without
  state between files other than the count of files `goast` cannot parse, which
  `Walker` has. A model would be a copy of the tables; their results are the
  inputs of the models. The same goes for the symbol and string tables of the
  binary scanner, of which `ImageScan` has the scan of a directory.
* **Report renderers**: layout of values that are computed elsewhere; with them
  the order of the migration plan and of the nodes, coverage by source in the NCSC
  report, and the dashboard.
* **Flag parsing and `version`**; `fix --write` and the dry run of `fix`.
* **The rewriting rules** of the remediation planner: text work. `OpenPR` has a
  patch as "the file it read plus the fix".
* **Path rules of `IsTestPath`**: a flag of each file of the walk.
* **How the agent connector finds its files**: `EventLog` begins with the passports
  and the stream it has read. Lines longer than the reader's buffer are left out,
  and so is an error of `VerifyChain` itself (`agentstack.go:350-359`).
* **JSON that qryx does not write**: what a file of `EvidenceDocument` shows is what
  the verifier parses. Unknown, repeated and differently capitalised fields, which
  `json.Unmarshal` drops or merges, are not in the model; nor is the curve of an
  ECDSA key, of which the verifier takes any (`attest.go:157`).
* **Roots in the PostgreSQL store**: the model has one.
* **Build, release and CI files.**

## 8. Plan

Done: all the models that were planned, and the proofs of section 5. The order
was by what can go wrong for someone who relies on qryx as a gate: first what
decides the exit code, then what is shared between runs, then what is written
into a user's repository, then what the reports claim, then where the findings
come from and what becomes of the documents.

Models that could still be added: roots in `PostgresStore`, so that the latest
scan of any root can be stated; `fix --write` and the dry run beside `OpenPR`.

What the proofs leave: `ScanEnds`, which a prover for liveness could take from
the measure of each source (entries, files and turns still ahead).
