------------------------------- MODULE TLSProbe -------------------------------
(***************************************************************************)
(* `qryx tls`: runTLS dials one endpoint after the other, goes on when one *)
(* does not answer, and has the rest graded by risk.Apply at the end.      *)
(*                                                                         *)
(* An endpoint may stand for several machines, so a dial gets one of its   *)
(* answers: the negotiated version, whether the cipher suite is one the    *)
(* standard library calls insecure, and the leaf certificate ("" for a     *)
(* kind of key that x509util does not know).                               *)
(***************************************************************************)
EXTENDS RiskRules, FiniteSets

CONSTANTS
    Endpoints, \* the endpoints a command may name
    Answer,    \* Answer[t]: the handshakes endpoint t may come to
    MaxTargets

\* crypto/x509 takes no RSA key without a modulus.
Handshake ==
    {h \in [version : {"1.0", "1.1", "1.2", "1.3"}, insecure : BOOLEAN,
            algo : {"RSA", "ECDSA", "Ed25519", ""}, size : Nat, expired : BOOLEAN] :
       h.algo = "RSA" => h.size > 0}

ConstantsOK ==
    /\ \A t \in Endpoints : Answer[t] \subseteq Handshake
    /\ MaxTargets \in Nat

VARIABLES
    targets,   \* the arguments of the command
    turn,      \* the next one to dial
    answers,   \* history: what was negotiated at each
    observed,  \* res.Findings: [turn, type, algo, size, class]
    mute,      \* the turns whose dial failed, on stderr
    walked,    \* res.FilesWalked
    graded     \* whether risk.Apply has run

pvars == <<targets, turn, answers, observed, mute, walked, graded>>

Init ==
    /\ targets \in UNION {[1 .. n -> Endpoints] : n \in 1 .. MaxTargets}
    /\ turn = 1 /\ answers = <<>> /\ observed = {} /\ mute = {}
    /\ walked = 0 /\ graded = FALSE

-----------------------------------------------------------------------------

Observed(type, algo, size, class) ==
    [turn |-> turn, type |-> type, algo |-> algo, size |-> size, class |-> class]

versionFinding(h) ==
    Observed("protocol", "TLS", 0, IF h.version \in {"1.0", "1.1"} THEN "misconfig" ELSE "")

cipherFinding(h) == {Observed("protocol", "TLS", 0, "weak") : x \in {y \in {1} : h.insecure}}

\* Mutant: an expired certificate has the one finding.
certFindingsOne(h) ==
    {Observed("certificate", h.algo, h.size, c) : c \in
        {x \in {"", "expired"} : IF h.expired THEN x = "expired" ELSE x = "" /\ h.algo # ""}}

\* The key, for risk.Apply to grade, and the expiry, graded here.
certFindings(h) ==
    {Observed("certificate", h.algo, h.size, c) : c \in
        {x \in {"", "expired"} : IF x = "" THEN h.algo # "" ELSE h.expired}}

\* probe.Endpoint for the next target: no answer in time, or a handshake.
Dial ==
    /\ turn <= Len(targets)
    /\ \/ /\ mute' = mute \cup {turn}
          /\ answers' = Append(answers, {})
          /\ UNCHANGED <<observed, walked>>
       \/ \E h \in Answer[targets[turn]] :
             /\ observed' = observed \cup {versionFinding(h)} \cup cipherFinding(h)
                                     \cup certFindings(h)
             /\ walked' = walked + 1
             /\ answers' = Append(answers, {h})
             /\ UNCHANGED mute
    /\ turn' = turn + 1
    /\ UNCHANGED <<targets, graded>>

\* risk.Apply: only a finding without a class is classified.
Graded(f) ==
    IF f.class # "" THEN f
    ELSE [f EXCEPT !.class =
            Classify([type |-> f.type, algo |-> f.algo, size |-> f.size, prim |-> ""]).class]

Apply ==
    /\ turn > Len(targets) /\ ~graded
    /\ observed' = {Graded(f) : f \in observed}
    /\ graded' = TRUE
    /\ UNCHANGED <<targets, turn, answers, mute, walked>>

Scan == Dial \/ Apply

Spec == Init /\ [][Scan]_pvars /\ WF_pvars(Scan)

-----------------------------------------------------------------------------

TypeOK ==
    /\ turn \in 1 .. Len(targets) + 1
    /\ Len(answers) = turn - 1
    /\ mute \subseteq 1 .. turn - 1
    /\ walked \in 0 .. turn - 1
    /\ \A f \in observed : f.turn \in 1 .. turn - 1 /\ (graded => f.class # "")

\* The classes that a turn has findings of, and the one its key belongs to.
ClassesAt(t, type) == {f.class : f \in {x \in observed : x.turn = t /\ x.type = type}}

KeyClass(h) == IF h.algo = "RSA" /\ h.size < 2048 THEN "weak" ELSE "quantum-vulnerable"

\* Whichever of its machines answers, an endpoint is in the result with all
\* that is wrong with it, each on its own: a certificate that has expired keeps
\* the grade of its key.  One that did not answer is on stderr and not counted.
TargetsAccounted ==
    graded =>
        /\ walked + Cardinality(mute) = Len(targets)
        /\ \A t \in DOMAIN targets \ mute : \A h \in answers[t] :
              /\ h.version \in {"1.0", "1.1"} <=> "misconfig" \in ClassesAt(t, "protocol")
              /\ h.insecure <=> "weak" \in ClassesAt(t, "protocol")
              /\ h.expired <=> "expired" \in ClassesAt(t, "certificate")
              /\ h.algo # "" => KeyClass(h) \in ClassesAt(t, "certificate")

=============================================================================
