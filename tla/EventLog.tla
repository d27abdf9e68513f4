------------------------------- MODULE EventLog -------------------------------
(***************************************************************************)
(* The agent-event log: the runs of qryx that append to it (--events,      *)
(* package exporter), what happens to the file between them, and the       *)
(* reader that judges it (`qryx agents`, package agentstack).              *)
(*                                                                         *)
(* Every event carries the hash of the event before it.  The n-th event    *)
(* ever written stands for itself, and its hash is n: two events never     *)
(* have the same one.  A line is such an event, as written (rev is 0) or   *)
(* as the rev-th touch of the file has left it, with a hash of its own; or *)
(* something that is no event: a write that was cut off, or two lines run  *)
(* into one.                                                               *)
(*                                                                         *)
(* ChainedWriter and VerifyChain are a library's (agent-stack-go), and are *)
(* modelled from the calls and the tests of the packages that use them.    *)
(* Lines longer than the reader's buffer are left out.                     *)
(***************************************************************************)
EXTENDS Integers, Sequences, FiniteSets, SequencesExt

CONSTANTS
    Run,        \* processes that write to the log
    Agent,      \* the subjects: what a passport has for an id
    NoAgent,    \* what a finding has that is about none
    Scanned,    \* the files of the scan, in order: [id, method]
    Forbidden,  \* the algorithms the policy does not allow
    Asked,      \* what a run may be asked for besides its findings
    MaxEvents,  \* how many events are written in all
    MaxFaults   \* how often a write fails, or the file is touched

Method == {"mtls-cert", "spiffe-svid", "enclave-key", "oidc", "none", "stream"}

ASSUME EventLogAssumption ==
    /\ NoAgent \notin Agent /\ MaxEvents \in Nat /\ MaxFaults \in Nat
    /\ Asked \subseteq SUBSET {"drift", "sign", "policy"}
    /\ Scanned \in Seq([id : Agent \cup {NoAgent}, method : Method])

NoHash == 0

\* A prev_hash that does not begin with "sha256:".
Misshapen == -1

-----------------------------------------------------------------------------
(* What a run has to tell.                                                 *)

\* passportFindings: two methods declare the same asset.  A log that is scanned
\* ("stream") is about nobody.
Algorithm(m) == CASE m \in {"mtls-cert", "spiffe-svid"} -> "X509"
                  [] m = "none" -> "no-attestation"
                  [] m \notin {"mtls-cert", "spiffe-svid", "none"} -> m

findingTags(p) == IF p.method = "stream" THEN NoAgent ELSE p.id

Findings == [i \in DOMAIN Scanned |->
                [agent |-> findingTags(Scanned[i]), alg |-> Algorithm(Scanned[i].method)]]

\* Build: a node for an asset, and of the tags of its findings the last one stays,
\* be it the empty one of a passport without an id.  A log has an asset of its own.
Nodes ==
    LET algs == {Findings[i].alg : i \in DOMAIN Findings}
        last(a) == CHOOSE i \in DOMAIN Findings :
                      /\ Findings[i].alg = a
                      /\ \A j \in DOMAIN Findings : Findings[j].alg = a => j <= i
    IN SetToSeq({Findings[last(a)] : a \in algs})

\* The loop over things: an event for each of those at the places in I.
Emit(type, things, I) ==
    LET E[n \in 0 .. Len(things)] ==
            IF n = 0 THEN <<>>
            ELSE IF n \in I
                   THEN Append(E[n - 1], [type |-> type, agent |-> things[n].agent])
                   ELSE E[n - 1]
    IN E[Len(things)]

\* agentIDFromTags: where something is about an agent.
WithAgent(things) == {i \in DOMAIN things : things[i].agent # NoAgent}

EmitFindings == Emit("crypto_finding", Findings, WithAgent(Findings))

EmitDrift(added) == Emit("crypto_drift", added, WithAgent(added))

EmitViolations(nodes) ==
    Emit("policy_violation", nodes, {i \in WithAgent(nodes) : nodes[i].alg \in Forbidden})

\* Mutant: an event for every finding.
EmitSignedEach(findings) == Emit("evidence_signed", findings, WithAgent(findings))

\* One event for every agent, where it is met first.
EmitEvidenceSigned(findings) ==
    LET isFirst(i) == \A j \in 1 .. (i - 1) : findings[j].agent # findings[i].agent
    IN Emit("evidence_signed", findings, {i \in WithAgent(findings) : isFirst(i)})

\* The four calls of the command, in its order.  With a baseline every node is
\* new or none is.
Tells(opts) ==
    EmitFindings
    \o (IF "drift" \in opts THEN EmitDrift(Nodes) ELSE <<>>)
    \o (IF "sign" \in opts THEN EmitEvidenceSigned(Findings) ELSE <<>>)
    \o (IF "policy" \in opts THEN EmitViolations(Nodes) ELSE <<>>)

-----------------------------------------------------------------------------

Garbage == [id |-> NoHash, prev |-> NoHash, rev |-> 0]

IsEvent(line) == line # Garbage

VARIABLES
    log,      \* the lines of the file: [id, prev, rev]
    cut,      \* the last line has no end yet
    wrote,    \* history: every event written, [run, type, agent]
    state,    \* of a run: idle, open, done, failed
    opts,     \* what it has been asked for
    todo,     \* of a run: the events it has still to write
    hash,     \* of a writer: the hash of the last event it knows of
    alone,    \* history: no two runs had the log open together
    touched,  \* history: somebody has been at the lines
    faults

vars == <<log, cut, wrote, state, opts, todo, hash, alone, touched, faults>>

Init ==
    /\ log = <<>> /\ cut = FALSE /\ wrote = <<>>
    /\ state = [r \in Run |-> "idle"]
    /\ opts = [r \in Run |-> {}]
    /\ todo = [r \in Run |-> <<>>]
    /\ hash = [r \in Run |-> NoHash]
    /\ alone = TRUE /\ touched = FALSE /\ faults = 0

\* The hash of a rewritten line is not the hash it was written with.
Hash(line) == IF line.rev = 0 THEN line.id ELSE Misshapen - line.rev

\* "" of an empty file and of one whose last line is no event.
TailHash(lines) ==
    IF lines # <<>> /\ IsEvent(Last(lines)) THEN Hash(Last(lines)) ELSE NoHash

\* Open, and the rest of the command up to its first event.  Whether the writer
\* ends a line that was cut off before it goes on is the library's.
Open(r, asked) ==
    /\ state[r] = "idle"
    /\ state' = [state EXCEPT ![r] = "open"]
    /\ opts' = [opts EXCEPT ![r] = asked]
    /\ todo' = [todo EXCEPT ![r] = Tells(asked)]
    /\ hash' = [hash EXCEPT ![r] = TailHash(log)]
    /\ alone' = (alone /\ \A q \in Run : state[q] # "open")
    /\ cut' \in IF cut THEN BOOLEAN ELSE {FALSE}
    /\ UNCHANGED <<log, wrote, touched, faults>>

Line(r) == [id |-> Len(wrote) + 1, prev |-> hash[r], rev |-> 0]

\* A line put behind one that has no end runs into it.
Put(line) == IF cut THEN Append(Front(log), Garbage) ELSE Append(log, line)

Told(r) == [run |-> r, type |-> Head(todo[r]).type, agent |-> Head(todo[r]).agent]

Write(r) ==
    /\ state[r] = "open" /\ todo[r] # <<>> /\ Len(wrote) < MaxEvents
    /\ log' = Put(Line(r)) /\ cut' = FALSE
    /\ wrote' = Append(wrote, Told(r))
    /\ hash' = [hash EXCEPT ![r] = Line(r).id]
    /\ todo' = [todo EXCEPT ![r] = Tail(@)]
    /\ UNCHANGED <<state, opts, alone, touched, faults>>

\* The write fails, or the process is killed in it: nothing of the line is in
\* the file, or a part, or all but its end.  The error ends the run.
WriteFails(r) ==
    /\ state[r] = "open" /\ todo[r] # <<>> /\ faults < MaxFaults
    /\ faults' = faults + 1
    /\ \/ UNCHANGED <<log, cut, wrote>>
       \/ /\ log' = Put(Garbage) /\ cut' = TRUE /\ UNCHANGED wrote
       \/ /\ Len(wrote) < MaxEvents
          /\ log' = Put(Line(r)) /\ cut' = TRUE /\ wrote' = Append(wrote, Told(r))
    /\ state' = [state EXCEPT ![r] = "failed"]
    /\ todo' = [todo EXCEPT ![r] = <<>>]
    /\ hash' = [hash EXCEPT ![r] = NoHash]
    /\ UNCHANGED <<opts, alone, touched>>

\* The run ends between two events: a gate, an error somewhere else, a kill.
Stop(r) ==
    /\ state[r] = "open"
    /\ state' = [state EXCEPT ![r] = IF todo[r] = <<>> THEN "done" ELSE "failed"]
    /\ todo' = [todo EXCEPT ![r] = <<>>]
    /\ hash' = [hash EXCEPT ![r] = NoHash]
    /\ UNCHANGED <<log, cut, wrote, opts, alone, touched, faults>>

\* The file is rotated: copied away and emptied, under a writer's hands or not.
Rotate ==
    /\ log # <<>> /\ faults < MaxFaults
    /\ log' = <<>> /\ cut' = FALSE
    /\ faults' = faults + 1
    /\ UNCHANGED <<wrote, state, opts, todo, hash, alone, touched>>

\* What a line may be made into: an event that says something else and is chained
\* to any line, to none, or to what is no hash; or no event.
Forged(line) ==
    {Garbage} \cup
    [id : {line.id}, rev : {faults + 1},
     prev : {line.prev, NoHash, Misshapen} \cup {Hash(log[k]) : k \in DOMAIN log}]

\* Somebody takes a line out, puts a copy of it somewhere, or rewrites it.
Touch ==
    /\ faults < MaxFaults
    /\ faults' = faults + 1 /\ touched' = TRUE
    /\ \E i \in DOMAIN log :
          \/ log' = RemoveAt(log, i)
          \/ \E k \in DOMAIN log : log' = InsertAt(log, k, log[i])
          \/ /\ IsEvent(log[i])
             /\ \E line \in Forged(log[i]) : log' = [log EXCEPT ![i] = line]
    /\ cut' \in IF cut /\ log' # <<>> THEN BOOLEAN ELSE {FALSE}
    /\ UNCHANGED <<wrote, state, opts, todo, hash, alone>>

Next ==
    \/ \E r \in Run :
          \/ \E asked \in Asked : Open(r, asked)
          \/ Write(r) \/ WriteFails(r) \/ Stop(r)
    \/ Rotate
    \/ Touch

Spec == Init /\ [][Next]_vars

-----------------------------------------------------------------------------
(* The reader.                                                             *)

\* parseEvents skips what is no event.
parseEvents(lines) == {i \in DOMAIN lines : IsEvent(lines[i])}

Links(lines) == {i \in parseEvents(lines) : lines[i].prev \notin {NoHash, Misshapen}}

\* Mutant: a log that starts again in the middle does not count as chained.
LooksChainedThroughout(lines) ==
    /\ \A i \in parseEvents(lines) :
          i \in Links(lines) <=> \E j \in parseEvents(lines) : j < i
    /\ \A i, j \in Links(lines) : lines[i].prev = lines[j].prev => i = j

\* The cheap pass: some event is chained, no two to the same one, and what is no
\* chain link has no prev_hash at all.
LooksChained(lines) ==
    /\ Links(lines) # {}
    /\ \A i \in parseEvents(lines) : lines[i].prev # Misshapen
    /\ \A i, j \in Links(lines) : lines[i].prev = lines[j].prev => i = j

\* VerifyChain.  An event without a hash starts a chain, wherever it is; the
\* first line may go on from another file; and behind a line that is no event
\* nothing can be said.
Breaks(lines) ==
    {i \in 2 .. Len(lines) : /\ IsEvent(lines[i]) /\ IsEvent(lines[i - 1])
                             /\ lines[i].prev # NoHash
                             /\ lines[i].prev # Hash(lines[i - 1])}

Malformed(lines) == {i \in DOMAIN lines : ~IsEvent(lines[i])}

Algorithms == {"nothing", "no-hash-chain", "hash-chain-broken", "hash-chain-unverifiable", "SHA-256"}

\* Mutant: the cheap pass is enough.
StructureOnly(lines) ==
    CASE parseEvents(lines) = {} -> "nothing"
      [] parseEvents(lines) # {} ->
           IF ~LooksChained(lines) THEN "no-hash-chain"
           ELSE IF Malformed(lines) # {} THEN "hash-chain-unverifiable"
           ELSE "SHA-256"

\* scanFile of a log, and eventStreamFindings.
eventStreamFindings(lines) ==
    CASE parseEvents(lines) = {} -> "nothing"
      [] parseEvents(lines) # {} ->
           IF ~LooksChained(lines) THEN "no-hash-chain"
           ELSE IF Breaks(lines) # {} THEN "hash-chain-broken"
           ELSE IF Malformed(lines) # {} THEN "hash-chain-unverifiable"
           ELSE "SHA-256"

-----------------------------------------------------------------------------

TypeOK ==
    /\ \A i \in DOMAIN log : log[i] = Garbage \/ (log[i].id \in DOMAIN wrote /\ log[i].prev \in Int)
    /\ cut => log # <<>>
    /\ state \in [Run -> {"idle", "open", "done", "failed"}]
    /\ opts \in [Run -> Asked \cup {{}}]
    /\ \A r \in Run : todo[r] # <<>> => state[r] = "open"
    /\ faults \in 0 .. MaxFaults
    /\ eventStreamFindings(log) \in Algorithms

\* Nobody is accused of forging a log that nobody forged: as long as no two runs
\* had it open together and nobody touched a line, a log is never "broken",
\* whatever was cut off, killed, restarted or rotated; it is "not chained" only
\* when no event in it is, and "unverifiable" only when a line was cut off.
\* src/README.md:662-664 and agentstack.go:13-16 ask for a prev_hash in every event
\* and call one without it a misconfig; the code takes such an event for the head
\* of a new chain, wherever it is (agentstack.go:270-276, 320, 386-389), and so
\* does this property: a log that starts again verifies, with several heads.
HonestNeverBroken ==
    alone /\ ~touched =>
        CASE eventStreamFindings(log) = "hash-chain-broken" -> FALSE
          [] eventStreamFindings(log) = "no-hash-chain" ->
               \A i \in DOMAIN log : log[i].prev = NoHash
          [] eventStreamFindings(log) = "hash-chain-unverifiable" -> Malformed(log) # {}
          [] OTHER -> TRUE

AsWritten(line) == IsEvent(line) /\ line.rev = 0

\* "Tamper-evident", as far as a chain without a signature reaches: in a log that
\* verifies, an event that stands as it was written vouches for what its run wrote
\* before it.  From any line of that run above it on, nothing is missing or
\* changed, whatever was removed, copied, rewritten or chained anew, and however
\* many runs wrote at the same time.  It says nothing of what stands below the last
\* such event: lines taken out before one that was rewritten as a head verify.
VerifiedHasNoGap ==
    eventStreamFindings(log) = "SHA-256" =>
        \A i, j \in DOMAIN log :
            LET his == {n \in DOMAIN wrote : wrote[n].run = wrote[log[j].id].run}
            IN i < j /\ AsWritten(log[j]) /\ log[i].id \in his =>
                  \A n \in his : log[i].id <= n /\ n <= log[j].id =>
                      \E k \in i .. j : AsWritten(log[k]) /\ log[k].id = n

\* A run that got through told of every finding that has a subject, and of a
\* signature once for every agent it covers.
ToldOnce ==
    \A r \in Run : state[r] = "done" =>
        LET told(type, a) == {n \in DOMAIN wrote : wrote[n] = [run |-> r, type |-> type, agent |-> a]}
            has(a) == {i \in DOMAIN Scanned : Scanned[i].method # "stream" /\ Scanned[i].id = a}
        IN \A a \in Agent :
              /\ Cardinality(told("crypto_finding", a)) = Cardinality(has(a))
              /\ Cardinality(told("evidence_signed", a)) =
                    IF "sign" \in opts[r] /\ has(a) # {} THEN 1 ELSE 0

=============================================================================
