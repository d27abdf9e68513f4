------------------------ MODULE EvidenceDocumentProofs ------------------------
(***************************************************************************)
(* For any keys, scans, documents and edits: whoever a verdict of           *)
(* verify-evidence names signed what the file shows, and a document that    *)
(* nobody touched is accepted.                                              *)
(***************************************************************************)
EXTENDS EvidenceDocument, TLAPS

\* Reading an unescaped text back and writing it again gives the same text.
LEMMA RoundTrip ==
    ASSUME NEW t \in Texts, ~t.escaped
    PROVE  evidenceDigest(Unmarshal(t)) = t
<1>1. PICK c \in Content : t = Marshal(c)
  BY DEF Texts
<1>2. c.saw \notin Invalid /\ t = [saw |-> c.saw, escaped |-> FALSE, at |-> c.at]
  BY <1>1 DEF Marshal
<1> QED
  BY <1>2 DEF evidenceDigest, Unmarshal, Marshal

LEMMA TextTypes ==
    /\ \A c \in Content : Marshal(c) \in Texts /\ evidenceDigest(c) \in Texts
    /\ \A t \in Texts : Unmarshal(t) \in Content
<1>1. \A c \in Content : Marshal(c) \in Texts /\ evidenceDigest(c) \in Texts
  BY DEF Texts, evidenceDigest
<1>2. ASSUME NEW t \in Texts PROVE Unmarshal(t) \in Content
  <2>1. PICK c \in Content : t = Marshal(c)
    BY DEF Texts
  <2>2. t.saw \in Seen /\ t.at \in 0 .. MaxTime
    BY <2>1, SeenAssumption DEF Marshal, Content
  <2> QED
    BY <2>2 DEF Unmarshal, Content
<1> QED
  BY <1>1, <1>2

-----------------------------------------------------------------------------
(* verify-evidence, one document and one pin.                              *)

\* The verdict of a call, before the pin and the mode are noted beside it.
Judged(d, pin, ci) ==
    IF ci /\ pin = None THEN Says("refused", None) ELSE VerifyEvidence(d, pin)

\* A name in a verdict is the name on the signature, which is over the digest,
\* which is the digest of what the document shows.
LEMMA NamedMeansSigned ==
    ASSUME NEW d, NEW pin, NEW ci \in BOOLEAN, Judged(d, pin, ci).key # None
    PROVE  /\ d.sig # NoSig /\ d.digest = evidenceDigest(Unmarshal(d.text))
           /\ d.sig.value = <<d.sig.key, d.digest>>
           /\ Judged(d, pin, ci).key = d.sig.key
BY DEF Judged, VerifyEvidence, Verifies, Says

\* CI never ends in a verdict about nobody in particular.
LEMMA CIWantsAPin ==
    ASSUME NEW d, NEW pin, Judged(d, pin, TRUE).says = "not verified"
    PROVE  FALSE
BY DEF Judged, VerifyEvidence, Says

\* A document whose digest and signature are right is accepted, and verified
\* for whoever pins its signer.
LEMMA RightIsAccepted ==
    ASSUME NEW d, NEW pin, NEW ci \in BOOLEAN,
           d.sig # NoSig, d.sig.key # None,
           d.digest = evidenceDigest(Unmarshal(d.text)), Verifies(d.digest, d.sig)
    PROVE  /\ Judged(d, pin, ci).says \in
                 {"VERIFIED", "not verified", "signed by another", "refused"}
           /\ pin = d.sig.key => Judged(d, pin, ci).says = "VERIFIED"
BY DEF Judged, VerifyEvidence, Says

-----------------------------------------------------------------------------
(* The inductive invariant.                                                *)

\* One file.
OneFile == \A d, e \in doc : d = e

\* A signature in the file was made by somebody, whatever its label and key say.
SignatureIsSomebodys == \A d \in doc : d.sig # NoSig => d.sig.value \in signed

\* Signatures are of keys that can sign, and the users of qryx only sign what
\* they print.
SignedRight ==
    \A g \in signed :
        /\ g = <<g[1], g[2]>> /\ Alg[g[1]] \in Supported
        /\ g[1] \in Signers => \E p \in printed : p.digest = g[2] /\ p.sig.key = g[1]

\* What qryx prints has the digest of its text and the signature of its digest.
PrintedRight ==
    \A p \in printed :
        /\ p.text = p.digest
        /\ p.sig # NoSig => \E k \in Key : p.sig = Sign(k, p.digest)

\* A verdict that stands is about the file that is there.
VerdictRight ==
    verdict # NoVerdict =>
        \E pin \in Key \cup {None}, ci \in BOOLEAN : \A d \in doc :
            verdict = [says |-> Judged(d, pin, ci).says, key |-> Judged(d, pin, ci).key,
                       pin |-> pin, ci |-> ci]

IInv == /\ TypeOK /\ OneFile /\ SignatureIsSomebodys /\ SignedRight
        /\ PrintedRight /\ VerdictRight

LEMMA InitIInv == Init => IInv
BY BoundsAssumption DEF Init, IInv, TypeOK, OneFile, SignatureIsSomebodys, SignedRight,
       PrintedRight, VerdictRight

\* A signature that qryx or anybody else makes.
LEMMA SignType ==
    ASSUME NEW k \in Key, Alg[k] \in Supported, NEW t \in Texts
    PROVE  /\ Sign(k, t) \in Signature /\ Sign(k, t) # NoSig
           /\ Sign(k, t).value = <<k, t>> /\ Sign(k, t).key = k
BY KeyAssumption DEF Sign, Signature, NoSig, None

LEMMA PrintInv ==
    ASSUME IInv, NEW saw \in Seen, NEW k \in Key \cup {None}, PrintEvidence(saw, k)
    PROVE  IInv'
<1> DEFINE c == [saw |-> saw, at |-> now]
           d == evidenceDigest(c)
           e == [text |-> Marshal(c), digest |-> d,
                 sig |-> IF k = None THEN NoSig ELSE Sign(k, d)]
<1>1. c \in Content /\ d \in Texts /\ Marshal(c) = d
  BY TextTypes DEF IInv, TypeOK, Content, evidenceDigest
<1>2. k # None => k \in Key /\ Alg[k] \in Supported
  BY DEF PrintEvidence, LoadSigner
<1>3. e \in Document
  BY <1>1, <1>2, SignType DEF Document
<1>4. /\ doc' = {e} /\ printed' = printed \cup {e} /\ verdict' = NoVerdict
      /\ signed' = IF k = None THEN signed ELSE signed \cup {<<k, d>>}
      /\ runs' = runs + 1 /\ runs < MaxRuns /\ UNCHANGED <<now, edits>>
  BY DEF PrintEvidence
<1>0. /\ e.digest = d /\ e.text = Marshal(c)
      /\ e.sig = IF k = None THEN NoSig ELSE Sign(k, d)
  OBVIOUS
<1> HIDE DEF c, d, e
<1>5. TypeOK'
  BY <1>1, <1>2, <1>3, <1>4, BoundsAssumption DEF IInv, TypeOK
<1>6. OneFile' /\ VerdictRight'
  BY <1>4 DEF OneFile, VerdictRight
<1>7. SignatureIsSomebodys'
  BY <1>0, <1>1, <1>2, <1>4, SignType DEF SignatureIsSomebodys
<1>8. SignedRight'
  <2> SUFFICES ASSUME NEW g \in signed'
               PROVE  /\ g = <<g[1], g[2]>> /\ Alg[g[1]] \in Supported
                      /\ g[1] \in Signers =>
                            \E p \in printed' : p.digest = g[2] /\ p.sig.key = g[1]
    BY DEF SignedRight
  <2>1. CASE g \in signed
    BY <1>4, <2>1 DEF IInv, SignedRight
  <2>2. CASE k # None /\ g = <<k, d>>
    <3>1. e \in printed' /\ e.digest = g[2] /\ e.sig.key = g[1]
      BY <1>0, <1>1, <1>2, <1>4, <2>2, SignType
    <3> QED
      BY <1>2, <2>2, <3>1
  <2> QED
    BY <1>4, <2>1, <2>2
<1>9. PrintedRight'
  BY <1>0, <1>1, <1>2, <1>4 DEF IInv, PrintedRight
<1> QED
  BY <1>5, <1>6, <1>7, <1>8, <1>9 DEF IInv

\* Whatever is put in the place of the file: if it is a document with a
\* signature that somebody made, the rest does not change.
LEMMA Rewritten ==
    ASSUME IInv, NEW e \in Document, doc' = {e}, e.sig # NoSig => e.sig.value \in signed',
           verdict' = NoVerdict, edits < MaxEdits, edits' = edits + 1,
           UNCHANGED <<now, printed, runs>>,
           \/ signed' = signed
           \/ \E k \in Key \ Signers, t \in Texts :
                 Alg[k] \in Supported /\ signed' = signed \cup {<<k, t>>}
    PROVE  IInv'
<1>1. TypeOK'
  BY BoundsAssumption DEF IInv, TypeOK
<1>2. OneFile' /\ VerdictRight' /\ SignatureIsSomebodys'
  BY DEF OneFile, VerdictRight, SignatureIsSomebodys
<1>3. SignedRight'
  BY DEF IInv, SignedRight
<1>4. PrintedRight'
  BY DEF IInv, PrintedRight
<1> QED
  BY <1>1, <1>2, <1>3, <1>4 DEF IInv

LEMMA EditInv ==
    ASSUME IInv, Edit
    PROVE  IInv'
<1>1. PICK d \in doc :
          \/ \E t \in Texts : \E g \in {d.digest, evidenceDigest(Unmarshal(t))} :
                doc' = {[d EXCEPT !.text = t, !.digest = g]}
          \/ \E s \in {NoSig} \cup {Sign(g[1], g[2]) : g \in signed} :
                doc' = {[d EXCEPT !.sig = s]}
          \/ /\ d.sig # NoSig
             /\ \E a \in Supported : doc' = {[d EXCEPT !.sig.alg = a]}
          \/ /\ d.sig # NoSig
             /\ \E k \in Key : doc' = {[d EXCEPT !.sig.key = k]}
  BY DEF Edit
<1>2. /\ edits < MaxEdits /\ edits' = edits + 1 /\ verdict' = NoVerdict
      /\ UNCHANGED <<now, printed, runs>> /\ signed' = signed
  BY DEF Edit
<1>3. d \in Document /\ (d.sig # NoSig => d.sig \in Signature /\ d.sig.value \in signed)
  BY DEF IInv, TypeOK, Document, SignatureIsSomebodys
<1>4. ASSUME NEW t \in Texts, NEW g \in {d.digest, evidenceDigest(Unmarshal(t))},
             doc' = {[d EXCEPT !.text = t, !.digest = g]}
      PROVE  IInv'
  <2>1. g \in Texts
    BY <1>3, <1>4, TextTypes DEF Document
  <2> DEFINE e == [d EXCEPT !.text = t, !.digest = g]
  <2>2. e \in Document /\ e.sig = d.sig /\ doc' = {e}
    BY <1>3, <1>4, <2>1 DEF Document
  <2> HIDE DEF e
  <2> QED
    BY <1>2, <1>3, <2>2, Rewritten
<1>5. ASSUME NEW s \in {NoSig} \cup {Sign(g[1], g[2]) : g \in signed},
             doc' = {[d EXCEPT !.sig = s]}
      PROVE  IInv'
  <2>1. s # NoSig => s \in Signature /\ s.value \in signed
    <3> SUFFICES ASSUME NEW g \in signed, s = Sign(g[1], g[2])
                 PROVE  s \in Signature /\ s.value \in signed
      OBVIOUS
    <3>1. g[1] \in Key /\ g[2] \in Texts /\ g = <<g[1], g[2]>> /\ Alg[g[1]] \in Supported
      BY DEF IInv, TypeOK, SignedRight
    <3> QED
      BY <3>1, SignType
  <2> DEFINE e == [d EXCEPT !.sig = s]
  <2>2. e \in Document /\ e.sig = s /\ doc' = {e}
    BY <1>3, <1>5, <2>1 DEF Document
  <2> HIDE DEF e
  <2> QED
    BY <1>2, <2>1, <2>2, Rewritten
<1>6. ASSUME NEW a \in Supported, d.sig # NoSig, doc' = {[d EXCEPT !.sig.alg = a]}
      PROVE  IInv'
  <2> DEFINE e == [d EXCEPT !.sig.alg = a]
  <2>1. e \in Document /\ e.sig.value = d.sig.value /\ doc' = {e}
    BY <1>3, <1>6 DEF Document, Signature
  <2> HIDE DEF e
  <2> QED
    BY <1>2, <1>3, <1>6, <2>1, Rewritten
<1>7. ASSUME NEW k \in Key, d.sig # NoSig, doc' = {[d EXCEPT !.sig.key = k]}
      PROVE  IInv'
  <2> DEFINE e == [d EXCEPT !.sig.key = k]
  <2>1. e \in Document /\ e.sig.value = d.sig.value /\ doc' = {e}
    BY <1>3, <1>7 DEF Document, Signature
  <2> HIDE DEF e
  <2> QED
    BY <1>2, <1>3, <1>7, <2>1, Rewritten
<1> QED
  BY <1>1, <1>4, <1>5, <1>6, <1>7

LEMMA SignOtherInv ==
    ASSUME IInv, NEW k \in Key, SignOther(k)
    PROVE  IInv'
<1>1. PICK d \in doc : /\ doc' = {[d EXCEPT !.sig = Sign(k, d.digest)]}
                       /\ signed' = signed \cup {<<k, d.digest>>}
  BY DEF SignOther
<1>2. d \in Document /\ d.digest \in Texts /\ Alg[k] \in Supported /\ k \notin Signers
  BY DEF IInv, TypeOK, Document, SignOther
<1>3. /\ [d EXCEPT !.sig = Sign(k, d.digest)] \in Document
      /\ [d EXCEPT !.sig = Sign(k, d.digest)].sig.value = <<k, d.digest>>
  BY <1>2, SignType DEF Document
<1> QED
  BY <1>1, <1>2, <1>3, Rewritten DEF SignOther

LEMMA VerifyInv ==
    ASSUME IInv, NEW pin \in Key \cup {None}, NEW ci \in BOOLEAN, verifyEvidence(pin, ci)
    PROVE  IInv'
<1>1. PICK d \in doc :
          verdict' = [says |-> Judged(d, pin, ci).says, key |-> Judged(d, pin, ci).key,
                      pin |-> pin, ci |-> ci]
  BY DEF verifyEvidence, Judged
<1>2. UNCHANGED <<now, doc, printed, signed, runs, edits>>
  BY DEF verifyEvidence
<1>3. VerdictRight'
  BY <1>1, <1>2 DEF IInv, OneFile, VerdictRight
<1> QED
  BY <1>2, <1>3 DEF IInv, TypeOK, OneFile, SignatureIsSomebodys, SignedRight, PrintedRight

LEMMA NextIInv == IInv /\ [Next]_vars => IInv'
<1> SUFFICES ASSUME IInv, [Next]_vars PROVE IInv'
  OBVIOUS
<1>1. CASE Tick
  <2>1. /\ now' \in 0 .. MaxTime /\ verdict' = NoVerdict
        /\ UNCHANGED <<doc, printed, signed, runs, edits>>
    BY <1>1, BoundsAssumption DEF Tick, IInv, TypeOK
  <2> QED
    BY <2>1 DEF IInv, TypeOK, OneFile, SignatureIsSomebodys, SignedRight, PrintedRight,
                VerdictRight
<1>2. CASE UNCHANGED vars
  BY <1>2 DEF vars, IInv, TypeOK, OneFile, SignatureIsSomebodys, SignedRight, PrintedRight,
              VerdictRight
<1> QED
  BY <1>1, <1>2, PrintInv, EditInv, SignOtherInv, VerifyInv DEF Next

THEOREM Invariance == Spec => []IInv
BY InitIInv, NextIInv, PTL DEF Spec

-----------------------------------------------------------------------------

\* A file, a verdict and the history keep their types (report/evidence.go).
THEOREM TypeCorrect == Spec => []TypeOK
BY Invariance, PTL DEF IInv

\* Whatever was recomputed, pasted, stripped or relabelled on the way: the one a
\* verdict names has signed the content that the file shows (VerifyEvidence,
\* attest.Verify, verify-evidence in main.go).
THEOREM TheSignerIsNamed == Spec => []NamesTheSigner
<1>1. ASSUME IInv, NEW d \in doc
      PROVE  /\ verdict.ci => verdict.says # "not verified"
             /\ verdict.key # None =>
                   <<verdict.key, evidenceDigest(Unmarshal(d.text))>> \in signed
             /\ verdict.says = "VERIFIED" /\ verdict.key \in Signers =>
                   \E p \in printed : /\ p.digest = evidenceDigest(Unmarshal(d.text))
                                      /\ p.sig.key = verdict.key
  <2> SUFFICES ASSUME verdict # NoVerdict
               PROVE  /\ verdict.ci => verdict.says # "not verified"
                      /\ verdict.key # None =>
                            <<verdict.key, evidenceDigest(Unmarshal(d.text))>> \in signed
                      /\ verdict.key \in Signers => verdict.key # None
    <3>1. ASSUME <<verdict.key, evidenceDigest(Unmarshal(d.text))>> \in signed,
                 verdict.key \in Signers
          PROVE  \E p \in printed : /\ p.digest = evidenceDigest(Unmarshal(d.text))
                                    /\ p.sig.key = verdict.key
      BY <1>1, <3>1 DEF IInv, SignedRight
    <3>2. verdict = NoVerdict => verdict.says # "VERIFIED" /\ verdict.key = None /\ ~verdict.ci
      BY DEF NoVerdict, None
    <3> QED
      BY <3>1, <3>2
  <2>1. PICK pin \in Key \cup {None}, ci \in BOOLEAN :
            verdict = [says |-> Judged(d, pin, ci).says, key |-> Judged(d, pin, ci).key,
                       pin |-> pin, ci |-> ci]
    BY <1>1 DEF IInv, VerdictRight
  <2>2. verdict.ci => verdict.says # "not verified"
    BY <2>1, CIWantsAPin
  <2>3. verdict.key # None =>
            <<verdict.key, evidenceDigest(Unmarshal(d.text))>> \in signed
    BY <1>1, <2>1, NamedMeansSigned DEF IInv, SignatureIsSomebodys
  <2>4. verdict.key \in Signers => verdict.key # None
    BY KeyAssumption DEF None
  <2> QED
    BY <2>2, <2>3, <2>4
<1>2. IInv => NamesTheSigner
  BY <1>1 DEF NamesTheSigner
<1> QED
  BY <1>2, Invariance, PTL

\* An untouched signed document without an escape is never called modified or
\* badly signed, and is VERIFIED for the right pin (evidenceDigest, VerifyEvidence).
THEOREM TheHonestVerify == Spec => []HonestVerifies
<1>1. ASSUME IInv PROVE HonestVerifies
  <2> SUFFICES ASSUME NEW d \in doc, verdict # NoVerdict, Untouched(d), ~d.text.escaped
               PROVE  Accepted(d)
    BY DEF HonestVerifies
  <2>1. PICK pin \in Key \cup {None}, ci \in BOOLEAN :
            verdict = [says |-> Judged(d, pin, ci).says, key |-> Judged(d, pin, ci).key,
                       pin |-> pin, ci |-> ci]
    BY <1>1 DEF IInv, VerdictRight
  <2>2. PICK k \in Key : d.sig = Sign(k, d.digest)
    BY <1>1 DEF IInv, PrintedRight, Untouched
  <2>3. d.digest = evidenceDigest(Unmarshal(d.text))
    BY <1>1, RoundTrip DEF IInv, TypeOK, Document, PrintedRight, Untouched
  <2>4. Verifies(d.digest, d.sig) /\ d.sig.key # None
    BY <2>2, KeyAssumption DEF Verifies, Sign, None
  <2> QED
    BY <2>1, <2>3, <2>4, RightIsAccepted DEF Untouched, Accepted
<1> QED
  BY <1>1, Invariance, PTL

=============================================================================
