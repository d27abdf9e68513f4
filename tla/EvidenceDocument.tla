-------------------------- MODULE EvidenceDocument --------------------------
(***************************************************************************)
(* The evidence document of a scan, from `qryx scan --format evidence`     *)
(* through the hands it passes to `qryx verify-evidence`.                  *)
(*                                                                         *)
(* The content of a document is what the scan saw and the second it was    *)
(* put together in.  encoding/json gives a text for it that is the same    *)
(* whenever it is asked, writes a string that is no valid UTF-8 with an    *)
(* escape, and reads that escape as the character it stands for.  A digest *)
(* stands for the text it was taken of, a key for its fingerprint, and a   *)
(* signature is of the key that made it.                                   *)
(***************************************************************************)
EXTENDS Naturals, FiniteSets

CONSTANTS
    Key,       \* the private keys there are
    Alg,       \* Alg[k]: what kind of key it is
    Signers,   \* the keys that sign with qryx and nothing else
    Seen,      \* what a scan may have seen
    Invalid,   \* of these, what is named by bytes that are no valid UTF-8
    Replaced,  \* what an escaped text is read as
    MaxRuns, MaxEdits, MaxTime

Supported == {"ed25519", "ecdsa-p256", "ml-dsa-44", "ml-dsa-65"}

ASSUME KeyAssumption ==
    Alg \in [Key -> Supported \cup {"rsa"}] /\ Signers \subseteq Key /\ "none" \notin Key
ASSUME SeenAssumption == Invalid \subseteq Seen /\ Replaced \in Seen \ Invalid
ASSUME BoundsAssumption == MaxRuns \in Nat /\ MaxEdits \in Nat /\ MaxTime \in Nat

None == "none"

Content == [saw : Seen, at : 0 .. MaxTime]

-----------------------------------------------------------------------------
(* encoding/json and evidenceDigest.                                       *)

Marshal(c) == IF c.saw \in Invalid
                THEN [saw |-> Replaced, escaped |-> TRUE, at |-> c.at]
                ELSE [saw |-> c.saw, escaped |-> FALSE, at |-> c.at]

Unmarshal(t) == [saw |-> t.saw, at |-> t.at]

Texts == {Marshal(c) : c \in Content}

\* The digest and the signature are blanked before the text is taken.
evidenceDigest(c) == Marshal(c)

VARIABLES
    now,      \* the clock, in seconds
    doc,      \* the file, at most one: [text, digest, sig]
    verdict,  \* what verify-evidence says of the file
    printed,  \* history: the documents qryx printed
    signed,   \* history: <<key, what it signed>>
    runs, edits

vars == <<now, doc, verdict, printed, signed, runs, edits>>

NoSig == [alg |-> None, value |-> <<>>, key |-> None]

NoVerdict == [says |-> None, key |-> None, pin |-> None, ci |-> FALSE]

Init ==
    /\ now = 0
    /\ doc = {} /\ verdict = NoVerdict
    /\ printed = {} /\ signed = {}
    /\ runs = 0 /\ edits = 0

-----------------------------------------------------------------------------

Tick ==
    /\ now < MaxTime /\ now' = now + 1
    /\ verdict' = NoVerdict
    /\ UNCHANGED <<doc, printed, signed, runs, edits>>

Sign(k, payload) == [alg |-> Alg[k], value |-> <<k, payload>>, key |-> k]

\* What sign-evidence accepts: no key at all, or one of a kind it knows.
LoadSigner(k) == k # None => Alg[k] \in Supported

\* Evidence: buildEvidence, and a signature over the digest.  LoadSigner
\* refuses a key of another kind before anything is printed.
PrintEvidence(saw, k) ==
    /\ runs < MaxRuns
    /\ LoadSigner(k)
    /\ LET c == [saw |-> saw, at |-> now]
           d == evidenceDigest(c)
           e == [text |-> Marshal(c), digest |-> d,
                 sig |-> IF k = None THEN NoSig ELSE Sign(k, d)]
       IN /\ doc' = {e}
          /\ printed' = printed \cup {e}
          /\ signed' = IF k = None THEN signed ELSE signed \cup {<<k, d>>}
    /\ runs' = runs + 1
    /\ verdict' = NoVerdict
    /\ UNCHANGED <<now, edits>>

\* Somebody rewrites the file: other content, with the digest that was there or
\* the right one, or no signature, or one taken from another document, or one
\* under another label or key.
Edit ==
    /\ edits < MaxEdits
    /\ edits' = edits + 1
    /\ \E d \in doc :
          \/ \E t \in Texts : \E g \in {d.digest, evidenceDigest(Unmarshal(t))} :
                doc' = {[d EXCEPT !.text = t, !.digest = g]}
          \/ \E s \in {NoSig} \cup {Sign(g[1], g[2]) : g \in signed} :
                doc' = {[d EXCEPT !.sig = s]}
          \/ /\ d.sig # NoSig
             /\ \E a \in Supported : doc' = {[d EXCEPT !.sig.alg = a]}
          \/ /\ d.sig # NoSig
             /\ \E k \in Key : doc' = {[d EXCEPT !.sig.key = k]}
    /\ doc' # doc /\ verdict' = NoVerdict
    /\ UNCHANGED <<now, printed, signed, runs>>

\* Anybody with a key of their own signs the digest that is in the file.
SignOther(k) ==
    /\ edits < MaxEdits /\ k \notin Signers /\ Alg[k] \in Supported
    /\ edits' = edits + 1
    /\ \E d \in doc :
          /\ doc' = {[d EXCEPT !.sig = Sign(k, d.digest)]}
          /\ signed' = signed \cup {<<k, d.digest>>}
    /\ verdict' = NoVerdict
    /\ UNCHANGED <<now, printed, runs>>

-----------------------------------------------------------------------------
(* verify-evidence.                                                        *)

MLDSA == {"ml-dsa-44", "ml-dsa-65"}

\* Mutant: the sizes of ML-DSA are told apart by the label, as for the others,
\* but the label a key gets is always that of the larger one.
VerifiesLargeOnly(payload, sig) ==
    /\ (IF Alg[sig.key] \in MLDSA THEN "ml-dsa-65" ELSE Alg[sig.key]) = sig.alg
    /\ sig.value = <<sig.key, payload>>

\* attest.Verify: the label has to fit the kind of the key, where the sizes of
\* ML-DSA count as one kind, and the value has to be that key's over the payload.
Verifies(payload, sig) ==
    /\ Alg[sig.key] = sig.alg \/ {Alg[sig.key], sig.alg} \subseteq MLDSA
    /\ sig.value = <<sig.key, payload>>

Says(says, k) == [says |-> says, key |-> k]

\* Mutant: the pin is looked at first.
VerifyPinFirst(d, pin) ==
    CASE d.sig = NoSig -> Says("not signed", None)
      [] d.sig # NoSig /\ pin \notin {None, d.sig.key} -> Says("signed by another", d.sig.key)
      [] d.sig # NoSig /\ pin \in {None, d.sig.key} ->
           IF d.digest # evidenceDigest(Unmarshal(d.text)) THEN Says("modified", None)
           ELSE IF ~Verifies(d.digest, d.sig) THEN Says("bad signature", None)
           ELSE IF pin = None THEN Says("not verified", d.sig.key)
           ELSE Says("VERIFIED", pin)

\* VerifyEvidence and what the command makes of it, in the order of the checks:
\* "who signed it" is asked last.
VerifyEvidence(d, pin) ==
    CASE d.sig = NoSig -> Says("not signed", None)
      [] d.sig # NoSig /\ d.digest # evidenceDigest(Unmarshal(d.text)) -> Says("modified", None)
      [] d.sig # NoSig /\ d.digest = evidenceDigest(Unmarshal(d.text)) ->
           IF ~Verifies(d.digest, d.sig) THEN Says("bad signature", None)
           ELSE IF pin = None THEN Says("not verified", d.sig.key)
           ELSE IF pin = d.sig.key THEN Says("VERIFIED", pin)
           ELSE Says("signed by another", d.sig.key)

verifyEvidence(pin, ci) ==
    /\ verdict = NoVerdict
    /\ \E d \in doc :
          LET v == IF ci /\ pin = None THEN Says("refused", None) ELSE VerifyEvidence(d, pin)
          IN verdict' = [says |-> v.says, key |-> v.key, pin |-> pin, ci |-> ci]
    /\ UNCHANGED <<now, doc, printed, signed, runs, edits>>

Next ==
    \/ Tick
    \/ \E saw \in Seen, k \in Key \cup {None} : PrintEvidence(saw, k)
    \/ Edit
    \/ \E k \in Key : SignOther(k)
    \/ \E pin \in Key \cup {None}, ci \in BOOLEAN : verifyEvidence(pin, ci)

Spec == Init /\ [][Next]_vars

-----------------------------------------------------------------------------

Signature == [alg : Supported, value : Key \X Texts, key : Key]

Document == [text : Texts, digest : Texts, sig : Signature \cup {NoSig}]

TypeOK ==
    /\ now \in 0 .. MaxTime /\ runs \in 0 .. MaxRuns /\ edits \in 0 .. MaxEdits
    /\ doc \subseteq Document
    /\ printed \subseteq Document
    /\ signed \subseteq Key \X Texts

\* Exit code 0 of a check in CI means VERIFIED, and whoever a verdict names has
\* signed the very content that the file now shows: a pinned signer of qryx has
\* printed it.  Nobody's name is on a document that was rewritten after it was
\* signed, whatever was recomputed, pasted or relabelled.
NamesTheSigner ==
    \A d \in doc :
        LET content == evidenceDigest(Unmarshal(d.text))
        IN /\ verdict.ci => verdict.says # "not verified"
           /\ verdict.key # None => <<verdict.key, content>> \in signed
           /\ verdict.says = "VERIFIED" /\ verdict.key \in Signers =>
                 \E p \in printed : p.digest = content /\ p.sig.key = verdict.key

Accepted(d) ==
    /\ verdict.says \in {"VERIFIED", "not verified", "signed by another", "refused"}
    /\ verdict.pin = d.sig.key => verdict.says = "VERIFIED"

Untouched(d) == d \in printed /\ d.sig # NoSig

\* A signed document that nobody touched is never called modified or badly
\* signed, and with the right pin it is VERIFIED, whatever happened to other
\* documents: as long as all its strings are valid UTF-8.
HonestVerifies ==
    \A d \in doc : verdict # NoVerdict /\ Untouched(d) /\ ~d.text.escaped => Accepted(d)

\* "so a verifier can recompute it": the same of every document.
VerifierRecomputes == \A d \in doc : verdict # NoVerdict /\ Untouched(d) => Accepted(d)

=============================================================================
