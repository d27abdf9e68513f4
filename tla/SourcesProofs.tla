---------------------------- MODULE SourcesProofs ----------------------------
(***************************************************************************)
(* For any tree, tarballs, account and endpoints: what each source of      *)
(* findings owes its command.  A source the command does not use stays     *)
(* where it begins, so every theorem is about all of them.                 *)
(***************************************************************************)
EXTENDS Sources, FiniteSetTheorems, WellFoundedInduction, TLAPS

-----------------------------------------------------------------------------
(* Sums over finite sets.                                                  *)

LEMMA Least ==
    ASSUME NEW T, T \subseteq Nat, T # {} PROVE \E x \in T : \A y \in T : x <= y
<1>1. PICK x \in T : \A y \in T : ~(<<y, x>> \in OpToRel(<, Nat))
  BY NatLessThanWellFounded, WFMin
<1>2. \A y \in T : ~(y < x)
  BY <1>1 DEF OpToRel
<1> QED
  BY <1>2

Chosen(s) == CHOOSE x \in s : TRUE

\* e sums f over each of the sets in D.
SumsTo(e, f, D) ==
    e = [s \in D |-> IF s = {} THEN 0 ELSE f[Chosen(s)] + e[s \ {Chosen(s)}]]

LEMMA Smaller ==
    ASSUME NEW s, IsFiniteSet(s), NEW x \in s
    PROVE  /\ IsFiniteSet(s \ {x}) /\ Cardinality(s) \in Nat /\ Cardinality(s \ {x}) \in Nat
           /\ Cardinality(s \ {x}) = Cardinality(s) - 1
BY FS_RemoveElement, FS_CardinalityType

LEMMA Smallest ==
    ASSUME NEW S, IsFiniteSet(S), NEW X, X \subseteq SUBSET S, X # {}
    PROVE  \E t \in X : /\ IsFiniteSet(t)
                        /\ \A x \in t : t \ {x} \notin X
<1> DEFINE N == {Cardinality(t) : t \in X}
<1>1. \A t \in X : IsFiniteSet(t) /\ Cardinality(t) \in Nat
  BY FS_Subset, FS_CardinalityType
<1>2. PICK n \in N : \A y \in N : n <= y
  <2>1. N \subseteq Nat /\ N # {}
    BY <1>1
  <2> HIDE DEF N
  <2> QED
    BY <2>1, Least
<1>3. PICK t \in X : n = Cardinality(t)
  OBVIOUS
<1>4. ASSUME NEW x \in t, t \ {x} \in X PROVE FALSE
  <2>1. Cardinality(t \ {x}) = Cardinality(t) - 1 /\ Cardinality(t) \in Nat
    BY <1>1, Smaller
  <2>2. Cardinality(t) <= Cardinality(t \ {x})
    BY <1>2, <1>3, <1>4
  <2> QED
    BY <2>1, <2>2
<1> QED
  BY <1>1, <1>4

LEMMA SumsExist ==
    ASSUME NEW S, IsFiniteSet(S), NEW f
    PROVE  \E e : SumsTo(e, f, SUBSET S)
<1> DEFINE UpTo(n) == {t \in SUBSET S : Cardinality(t) <= n}
           Bad == {n \in Nat : \A e : ~SumsTo(e, f, UpTo(n))}
<1>1. ASSUME NEW s \in SUBSET S
      PROVE  /\ IsFiniteSet(s) /\ Cardinality(s) \in Nat
             /\ s # {} => /\ Chosen(s) \in s /\ s \ {Chosen(s)} \in SUBSET S
                          /\ Cardinality(s \ {Chosen(s)}) = Cardinality(s) - 1
             /\ Cardinality(s) = 0 => s = {}
  <2>1. IsFiniteSet(s)
    BY FS_Subset
  <2>2. s # {} => Chosen(s) \in s
    BY DEF Chosen
  <2> QED
    BY <2>1, <2>2, Smaller, FS_CardinalityType, FS_EmptySet
<1>2. ASSUME Bad # {} PROVE FALSE
  <2>1. PICK m \in Bad : \A y \in Bad : m <= y
    <3>1. Bad \subseteq Nat
      OBVIOUS
    <3> HIDE DEF Bad
    <3> QED
      BY <1>2, <3>1, Least
  <2>2. m \in Nat /\ \A e : ~SumsTo(e, f, UpTo(m))
    OBVIOUS
  <2>3. CASE m = 0
    <3> DEFINE e == [s \in UpTo(0) |-> 0]
    <3>1. \A s \in UpTo(0) : s = {}
      <4>1. ASSUME NEW s \in SUBSET S, Cardinality(s) <= 0 PROVE s = {}
        <5>1. Cardinality(s) \in Nat /\ (Cardinality(s) = 0 => s = {})
          BY <1>1
        <5> QED
          BY <4>1, <5>1
      <4> QED
        BY <4>1
    <3>2. SumsTo(e, f, UpTo(0))
      BY <3>1 DEF SumsTo
    <3> QED
      BY <2>2, <2>3, <3>2
  <2>4. CASE m # 0
    <3>1. m - 1 \in Nat /\ m - 1 \notin Bad
      <4> HIDE DEF Bad
      <4> QED
        BY <2>1, <2>2, <2>4
    <3>2. PICK g : SumsTo(g, f, UpTo(m - 1))
      BY <3>1
    <3> DEFINE body(s) == IF s = {} THEN 0 ELSE f[Chosen(s)] + g[s \ {Chosen(s)}]
               e == [s \in UpTo(m) |-> body(s)]
    <3>3. \A s \in UpTo(m - 1) : s \in UpTo(m) /\ g[s] = body(s)
      <4>1. ASSUME NEW s \in UpTo(m - 1) PROVE s \in UpTo(m)
        <5>1. s \in SUBSET S /\ Cardinality(s) <= m - 1 /\ Cardinality(s) \in Nat
          BY <1>1
        <5> QED
          BY <2>2, <5>1
      <4>2. ASSUME NEW s \in UpTo(m - 1) PROVE g[s] = body(s)
        BY <3>2 DEF SumsTo
      <4> QED
        BY <4>1, <4>2
    <3>4. \A s \in UpTo(m) : s # {} => s \ {Chosen(s)} \in UpTo(m - 1)
      BY <1>1, <2>2, <3>1
    <3>5. \A s \in UpTo(m - 1) : e[s] = g[s]
      <4> HIDE DEF UpTo, body
      <4> QED
        BY <3>3
    <3>6. \A s \in UpTo(m) : s # {} => g[s \ {Chosen(s)}] = e[s \ {Chosen(s)}]
      <4> HIDE DEF UpTo, e
      <4> QED
        BY <3>4, <3>5
    <3>7. SumsTo(e, f, UpTo(m))
      <4>1. e = [s \in UpTo(m) |-> e[s]] /\ \A s \in UpTo(m) : e[s] = body(s)
        <5> HIDE DEF UpTo, body
        <5> QED
          OBVIOUS
      <4> HIDE DEF e, UpTo
      <4> QED
        BY <3>6, <4>1 DEF SumsTo
    <3> QED
      BY <2>2, <3>7
  <2> QED
    BY <2>3, <2>4
<1>3. PICK n \in Nat : n = Cardinality(S)
  BY FS_CardinalityType
<1>4. PICK e : SumsTo(e, f, UpTo(n))
  BY <1>2
<1>5. UpTo(n) = SUBSET S
  BY <1>3, FS_Subset
<1> HIDE DEF UpTo
<1> QED
  BY <1>4, <1>5

\* The sums of f over the subsets of S.
Sums(f, S) == CHOOSE e : SumsTo(e, f, SUBSET S)

\* What a sum over a set is, one element at a time.
LEMMA SumsIs ==
    ASSUME NEW S, IsFiniteSet(S), NEW f, NEW t \in SUBSET S
    PROVE  /\ t = {} => Sums(f, S)[t] = 0
           /\ t # {} => Chosen(t) \in t /\ Sums(f, S)[t] = f[Chosen(t)] + Sums(f, S)[t \ {Chosen(t)}]
<1> DEFINE e == Sums(f, S)
<1>1. SumsTo(e, f, SUBSET S)
  BY SumsExist DEF Sums
<1> HIDE DEF e
<1>2. \A s \in SUBSET S : e[s] = IF s = {} THEN 0 ELSE f[Chosen(s)] + e[s \ {Chosen(s)}]
  BY <1>1 DEF SumsTo
<1> QED
  BY <1>2 DEF Chosen, e

LEMMA SumsAre ==
    ASSUME NEW S, IsFiniteSet(S), NEW f
    PROVE  \A s \in SUBSET S :
             /\ s = {} => Sums(f, S)[s] = 0
             /\ s # {} => Chosen(s) \in s /\ Sums(f, S)[s] = f[Chosen(s)] + Sums(f, S)[s \ {Chosen(s)}]
  BY SumsIs

LEMMA SumsTyped ==
    ASSUME NEW S, IsFiniteSet(S), NEW f, \A x \in S : f[x] \in Nat, NEW t \in SUBSET S
    PROVE  Sums(f, S)[t] \in Nat
<1> DEFINE e == Sums(f, S)
           X == {s \in SUBSET S : e[s] \notin Nat}
<1>1. \A s \in SUBSET S : /\ s = {} => e[s] = 0
                          /\ s # {} => Chosen(s) \in s /\ e[s] = f[Chosen(s)] + e[s \ {Chosen(s)}]
  BY SumsAre
<1>2. ASSUME X # {} PROVE FALSE
  <2>1. PICK s \in X : \A x \in s : s \ {x} \notin X
    BY <1>2, Smallest
  <2>2. s \in SUBSET S /\ e[s] \notin Nat
    OBVIOUS
  <2> HIDE DEF X
  <2>3. /\ s = {} => e[s] = 0
        /\ s # {} => Chosen(s) \in s /\ e[s] = f[Chosen(s)] + e[s \ {Chosen(s)}]
    <3> HIDE DEF e
    <3> QED
      BY <1>1, <2>2
  <2> HIDE DEF e
  <2>5. s # {}
    <3>1. 0 \in Nat
      OBVIOUS
    <3> QED
      BY <2>2, <2>3, <3>1
  <2>4. e[s \ {Chosen(s)}] \in Nat
    BY <2>1, <2>2, <2>3, <2>5 DEF X
  <2> QED
    BY <2>2, <2>3, <2>4, <2>5
<1> QED
  BY <1>2

\* Where two functions agree, so do their sums.
LEMMA SumsAgree ==
    ASSUME NEW S, IsFiniteSet(S), NEW f, NEW R, IsFiniteSet(R), NEW g,
           NEW t \in SUBSET S, t \in SUBSET R, \A x \in t : f[x] = g[x]
    PROVE  Sums(f, S)[t] = Sums(g, R)[t]
<1> DEFINE e == Sums(f, S)
           d == Sums(g, R)
           X == {s \in SUBSET t : e[s] # d[s]}
<1>2. ASSUME X # {} PROVE FALSE
  <2>0. IsFiniteSet(t)
    BY FS_Subset
  <2>1. PICK s \in X : \A x \in s : s \ {x} \notin X
    BY <1>2, <2>0, Smallest
  <2>2. s \in SUBSET S /\ s \in SUBSET R /\ s \in SUBSET t /\ e[s] # d[s]
    OBVIOUS
  <2> HIDE DEF X
  <2>3. /\ s = {} => e[s] = 0
        /\ s # {} => Chosen(s) \in s /\ e[s] = f[Chosen(s)] + e[s \ {Chosen(s)}]
    BY <2>2, SumsIs
  <2>4. /\ s = {} => d[s] = 0
        /\ s # {} => Chosen(s) \in s /\ d[s] = g[Chosen(s)] + d[s \ {Chosen(s)}]
    <3>1. s \in SUBSET R
      BY <2>2
    <3> HIDE DEF e
    <3> QED
      BY <3>1, SumsIs
  <2> HIDE DEF e, d
  <2>5. s # {}
    BY <2>2, <2>3, <2>4
  <2>6. e[s \ {Chosen(s)}] = d[s \ {Chosen(s)}] /\ f[Chosen(s)] = g[Chosen(s)]
    BY <2>1, <2>2, <2>3, <2>5 DEF X
  <2> QED
    BY <2>2, <2>3, <2>4, <2>5, <2>6
<1> QED
  BY <1>2

\* No element is special.
LEMMA SumsWithout ==
    ASSUME NEW S, IsFiniteSet(S), NEW f, \A x \in S : f[x] \in Nat, NEW t \in SUBSET S, NEW y \in t
    PROVE  Sums(f, S)[t] = f[y] + Sums(f, S)[t \ {y}]
<1> DEFINE e == Sums(f, S)
           X == {s \in SUBSET S : \E x \in s : e[s] # f[x] + e[s \ {x}]}
<1>1. \A s \in SUBSET S : /\ s = {} => e[s] = 0
                          /\ s # {} => Chosen(s) \in s /\ e[s] = f[Chosen(s)] + e[s \ {Chosen(s)}]
  BY SumsAre
<1>2. ASSUME X # {} PROVE FALSE
  <2>1. PICK s \in X : \A x \in s : s \ {x} \notin X
    BY <1>2, Smallest
  <2>2. s \in SUBSET S
    OBVIOUS
  <2>3. PICK x \in s : e[s] # f[x] + e[s \ {x}]
    OBVIOUS
  <2> HIDE DEF X
  <2>4. PICK a \in s : e[s] = f[a] + e[s \ {a}]
    <3>1. /\ s = {} => e[s] = 0
          /\ s # {} => Chosen(s) \in s /\ e[s] = f[Chosen(s)] + e[s \ {Chosen(s)}]
      <4> HIDE DEF e
      <4> QED
        BY <1>1, <2>2
    <3> HIDE DEF e
    <3> QED
      BY <2>3, <3>1
  <2> DEFINE r == s \ {a, x}
  <2>5. /\ x # a /\ x \in s \ {a} /\ a \in s \ {x}
        /\ (s \ {a}) \ {x} = r /\ (s \ {x}) \ {a} = r /\ r \in SUBSET S
        /\ s \ {a} \in SUBSET S /\ s \ {x} \in SUBSET S
    BY <2>2, <2>3, <2>4
  <2>6. s \ {a} \notin X /\ s \ {x} \notin X
    BY <2>1
  <2>7. f[x] \in Nat /\ f[a] \in Nat /\ e[r] \in Nat
    BY <2>2, <2>5, SumsTyped
  <2> HIDE DEF e, r
  <2>8. e[s \ {a}] = f[x] + e[r] /\ e[s \ {x}] = f[a] + e[r]
    BY <2>5, <2>6 DEF X
  <2> QED
    BY <2>3, <2>4, <2>7, <2>8
<1> QED
  BY <1>2

LEMMA SumOf ==
    ASSUME NEW S, NEW f PROVE I!SumFunctionOnSet(f, S) = Sums(f, S)[S]
BY DEF I!SumFunctionOnSet, I!FoldFunctionOnSet, I!MapThenFoldSet, Sums, SumsTo, Chosen

\* A file is written, or written again.
LEMMA SumGrows ==
    ASSUME NEW S, IsFiniteSet(S), NEW f, \A x \in S : f[x] \in Nat, NEW y,
           NEW g, g[y] \in Nat, \A x \in S : x # y => g[x] = f[x]
    PROVE  /\ IsFiniteSet(S \cup {y})
           /\ I!SumFunctionOnSet(f, S) \in Nat /\ I!SumFunctionOnSet(g, S \cup {y}) \in Nat
           /\ I!SumFunctionOnSet(g, S \cup {y}) <= I!SumFunctionOnSet(f, S) + g[y]
<1> DEFINE R == S \cup {y}
           T == S \ {y}
           e == Sums(f, S)
           d == Sums(g, R)
<1>1. IsFiniteSet(R) /\ IsFiniteSet(T) /\ \A x \in R : g[x] \in Nat
  BY FS_AddElement, FS_Subset
<1>2. I!SumFunctionOnSet(f, S) = e[S] /\ I!SumFunctionOnSet(g, R) = d[R]
  BY SumOf
<1>3. d[R] = g[y] + d[T]
  <2>1. R \in SUBSET R /\ y \in R /\ R \ {y} = T
    OBVIOUS
  <2> HIDE DEF R, T
  <2>2. d[R] = g[y] + d[R \ {y}]
    BY <1>1, <2>1, SumsWithout
  <2> QED
    BY <2>1, <2>2
<1>4. d[T] = e[T]
  <2>1. T \in SUBSET S /\ T \in SUBSET R /\ \A x \in T : f[x] = g[x]
    OBVIOUS
  <2> HIDE DEF T, R
  <2> QED
    BY <1>1, <2>1, SumsAgree
<1>5. e[S] \in Nat /\ e[T] \in Nat /\ d[R] \in Nat
  BY <1>1, SumsTyped
<1>6. ASSUME y \in S PROVE e[S] = f[y] + e[T] /\ f[y] \in Nat
  BY <1>6, SumsWithout
<1>7. y \notin S => T = S
  OBVIOUS
<1> HIDE DEF e, d, R, T
<1>8. e[T] <= e[S]
  BY <1>5, <1>6, <1>7
<1> QED
  BY <1>1, <1>2, <1>3, <1>4, <1>5, <1>8 DEF R

-----------------------------------------------------------------------------
(* `qryx tls`.                                                             *)

LEMMA SameCardinality == \A S : P!Cardinality(S) = Cardinality(S)
  BY Zenon DEF P!Cardinality, Cardinality, P!IsFiniteSet, IsFiniteSet

\* What one handshake leaves in the result, before and after risk.Apply.
Classes == {"", "misconfig", "expired", "weak", "quantum-vulnerable", "none"}

ProbeFinding == [turn : Nat, type : {"protocol", "certificate"},
                 algo : {"TLS", "RSA", "ECDSA", "Ed25519", ""}, size : Nat, class : Classes]

FoundAt(t, h) ==
    {[turn |-> t, type |-> "protocol", algo |-> "TLS", size |-> 0,
      class |-> IF h.version \in {"1.0", "1.1"} THEN "misconfig" ELSE ""]}
    \cup {[turn |-> t, type |-> "protocol", algo |-> "TLS", size |-> 0, class |-> "weak"] :
             x \in {y \in {1} : h.insecure}}
    \cup {[turn |-> t, type |-> "certificate", algo |-> h.algo, size |-> h.size, class |-> c] :
             c \in {x \in {"", "expired"} : IF x = "" THEN h.algo # "" ELSE h.expired}}

ObservedAt(t) == {f \in observed : f.turn = t}

\* The turns so far are those counted and those on stderr.
ProbeTally ==
    /\ targets \in Seq(Endpoints)
    /\ turn \in 1 .. Len(targets) + 1
    /\ graded \in BOOLEAN /\ (graded => turn = Len(targets) + 1)
    /\ IsFiniteSet(mute) /\ mute \subseteq 1 .. turn - 1
    /\ walked \in Nat /\ walked + Cardinality(mute) = turn - 1

\* What a turn has in the result is what its handshake left.
Held(t, h) == IF graded THEN {P!Graded(f) : f \in FoundAt(t, h)} ELSE FoundAt(t, h)

ProbeResult ==
    /\ answers \in Seq(SUBSET P!Handshake) /\ Len(answers) = turn - 1
    /\ observed \subseteq ProbeFinding
    /\ \A f \in observed : f.turn \in 1 .. turn - 1 /\ (graded => f.class # "")
    /\ \A t \in 1 .. turn - 1 : \A h \in answers[t] : ObservedAt(t) = Held(t, h)

ProbeInv == ProbeTally /\ ProbeResult

LEMMA ProbeInitial == SourcesInit => ProbeInv
<1>1. ASSUME SourcesInit PROVE P!Init
  BY <1>1 DEF SourcesInit, NoProbe
<1>2. ASSUME P!Init PROVE ProbeInv
  <2>1. targets \in Seq(Endpoints) /\ Len(targets) \in Nat /\ Len(targets) > 0
    <3>1. PICK n \in 1 .. MaxTargets : targets \in [1 .. n -> Endpoints]
      BY <1>2 DEF P!Init
    <3> QED
      BY <3>1, SourcesAssumption DEF P!ConstantsOK
  <2>2. turn = 1 /\ answers = <<>> /\ observed = {} /\ mute = {} /\ walked = 0 /\ graded = FALSE
    BY <1>2 DEF P!Init
  <2>3. IsFiniteSet(mute) /\ Cardinality(mute) = 0
    BY <2>2, FS_EmptySet
  <2>4. ProbeTally
    <3>1. graded \in BOOLEAN /\ ~graded
      BY <2>2, Zenon
    <3> QED
      BY <2>1, <2>2, <2>3, <3>1 DEF ProbeTally
  <2>5. ProbeResult
    BY <2>2 DEF ProbeResult
  <2> QED
    BY <2>4, <2>5 DEF ProbeInv
<1> QED
  BY <1>1, <1>2

\* No other source touches the state of the probe.
LEMMA ProbeStep == [SourcesNext]_allVars => [P!Scan]_probe
  BY DEF SourcesNext, Work, Outside, allVars, probe, P!pvars

LEMMA FoundTyped ==
    ASSUME NEW t \in Nat, NEW h \in P!Handshake
    PROVE  FoundAt(t, h) \subseteq {f \in ProbeFinding : f.turn = t}
<1> SUFFICES ASSUME NEW f \in FoundAt(t, h) PROVE f \in ProbeFinding /\ f.turn = t
  OBVIOUS
<1>1. h.algo \in {"RSA", "ECDSA", "Ed25519", ""} /\ h.size \in Nat
  BY DEF P!Handshake
<1>2. CASE \E c \in Classes :
              f = [turn |-> t, type |-> "protocol", algo |-> "TLS", size |-> 0, class |-> c]
  BY <1>2 DEF ProbeFinding
<1>3. CASE \E c \in Classes :
              f = [turn |-> t, type |-> "certificate", algo |-> h.algo, size |-> h.size, class |-> c]
  <2>1. PICK c \in Classes :
          f = [turn |-> t, type |-> "certificate", algo |-> h.algo, size |-> h.size, class |-> c]
    BY <1>3
  <2>2. h.algo \in {"TLS", "RSA", "ECDSA", "Ed25519", ""} /\ c \in Classes
    BY <1>1, <2>1
  <2> QED
    BY <1>1, <2>1, <2>2 DEF ProbeFinding
<1>4. (IF h.version \in {"1.0", "1.1"} THEN "misconfig" ELSE "") \in Classes
      /\ "" \in Classes /\ "weak" \in Classes /\ "expired" \in Classes
  BY DEF Classes
<1> QED
  BY <1>2, <1>3, <1>4 DEF FoundAt

LEMMA ClassifyTyped ==
    ASSUME NEW a PROVE P!Classify(a).class \in {"weak", "quantum-vulnerable", "none"}
<1> DEFINE n == P!Normalize(a.algo)
<1> HIDE DEF n
<1>1. P!Classify(a) =
        IF n = "RSA" /\ a.size \in 1 .. 2047
          THEN [class |-> "weak", sev |-> P!Critical]
        ELSE IF n \in P!QuantumVulnerable
          THEN [class |-> "quantum-vulnerable", sev |-> P!Baseline(n)]
        ELSE IF n \in P!Weak
          THEN [class |-> "weak", sev |-> P!Baseline(n)]
        ELSE [class |-> "none", sev |-> P!NoRisk]
  BY Zenon DEF P!Classify, n
<1> QED
  BY <1>1

Short(n) == n \in 1 .. 2047

LEMMA ShortKeys ==
    ASSUME NEW n \in Nat \ {0}
    PROVE  Short(n) <=> n < 2048
  BY DEF Short

LEMMA ClassifyRSA ==
    ASSUME NEW a, P!Normalize(a.algo) = "RSA"
    PROVE  P!Classify(a).class = IF Short(a.size) THEN "weak" ELSE "quantum-vulnerable"
<1> DEFINE n == P!Normalize(a.algo)
<1> HIDE DEF n
<1>1. P!Classify(a) =
        IF n = "RSA" /\ Short(a.size)
          THEN [class |-> "weak", sev |-> P!Critical]
        ELSE IF n \in P!QuantumVulnerable
          THEN [class |-> "quantum-vulnerable", sev |-> P!Baseline(n)]
        ELSE IF n \in P!Weak
          THEN [class |-> "weak", sev |-> P!Baseline(n)]
        ELSE [class |-> "none", sev |-> P!NoRisk]
  BY Zenon DEF P!Classify, n, Short
<1>2. "RSA" \in P!QuantumVulnerable
  BY DEF P!QuantumVulnerable
<1>3. n = "RSA"
  BY DEF n
<1> QED
  BY <1>1, <1>2, <1>3

LEMMA ClassifyOf ==
    ASSUME NEW a
    PROVE  /\ a.algo = "TLS" => P!Classify(a).class = "none"
           /\ a.algo = "RSA" /\ a.size \in Nat \ {0} =>
                P!Classify(a).class = IF a.size < 2048 THEN "weak" ELSE "quantum-vulnerable"
           /\ a.algo \in {"ECDSA", "Ed25519"} => P!Classify(a).class = "quantum-vulnerable"
<1>1. ASSUME NEW n, n \in {"TLS", "RSA", "ECDSA"} PROVE P!Normalize(n) = n
  BY <1>1 DEF P!Normalize
<1>2. P!Normalize("Ed25519") = "ED25519"
  BY DEF P!Normalize
<1>3. /\ a.algo = "TLS" => P!Classify(a).class = "none"
      /\ a.algo \in {"ECDSA", "Ed25519"} => P!Classify(a).class = "quantum-vulnerable"
  BY <1>1, <1>2 DEF P!Classify, P!QuantumVulnerable, P!Weak
<1>4. a.algo = "RSA" /\ a.size \in Nat \ {0} =>
        P!Classify(a).class = IF a.size < 2048 THEN "weak" ELSE "quantum-vulnerable"
  <2>1. P!Normalize("RSA") = "RSA" /\ "RSA" \in P!QuantumVulnerable
    BY <1>1 DEF P!QuantumVulnerable
  <2>2. ASSUME a.algo = "RSA", a.size \in Nat \ {0}
        PROVE  P!Classify(a).class = IF a.size < 2048 THEN "weak" ELSE "quantum-vulnerable"
    <3>1. a.size \in Nat \ {0}
      BY <2>2
    <3>2. Short(a.size) <=> a.size < 2048
      BY <3>1, ShortKeys
    <3>3. P!Normalize(a.algo) = "RSA"
      BY <2>1, <2>2
    <3>4. P!Classify(a).class = IF Short(a.size) THEN "weak" ELSE "quantum-vulnerable"
      BY <3>3, ClassifyRSA
    <3> DEFINE small == a.size < 2048
    <3>5. Short(a.size) <=> small
      BY <3>2
    <3> HIDE DEF small
    <3>6. P!Classify(a).class = IF small THEN "weak" ELSE "quantum-vulnerable"
      BY <3>4, <3>5
    <3> QED
      BY <3>6, Zenon DEF small
  <2> QED
    BY <2>2
<1> QED
  BY <1>3, <1>4

LEMMA GradedTyped ==
    ASSUME NEW f \in ProbeFinding
    PROVE  /\ P!Graded(f) \in ProbeFinding
           /\ P!Graded(f).turn = f.turn /\ P!Graded(f).type = f.type
           /\ P!Graded(f).class # ""
           /\ f.class # "" => P!Graded(f).class = f.class
           /\ f.class = "" => P!Graded(f).class =
                P!Classify([type |-> f.type, algo |-> f.algo, size |-> f.size, prim |-> ""]).class
<1>2. CASE f.class # ""
  BY <1>2 DEF P!Graded
<1>3. CASE f.class = ""
  <2> DEFINE k == P!Classify([type |-> f.type, algo |-> f.algo, size |-> f.size, prim |-> ""]).class
  <2>1. k \in {"weak", "quantum-vulnerable", "none"}
    BY ClassifyTyped
  <2>2. P!Graded(f) = [f EXCEPT !.class = k]
    BY <1>3, Zenon DEF P!Graded
  <2> HIDE DEF k
  <2>3. P!Graded(f).class = k /\ P!Graded(f) \in ProbeFinding
        /\ P!Graded(f).turn = f.turn /\ P!Graded(f).type = f.type
    <3>1. k \in Classes
      BY <2>1 DEF Classes
    <3> QED
      BY <2>2, <3>1 DEF ProbeFinding
  <2> QED
    BY <2>1, <2>3, <1>3 DEF k
<1> QED
  BY <1>2, <1>3

LEMMA DialKeeps == ProbeInv /\ P!Dial => ProbeInv'
<1> SUFFICES ASSUME ProbeTally, ProbeResult, P!Dial PROVE ProbeTally' /\ ProbeResult'
  BY DEF ProbeInv
<1>1. turn \in 1 .. Len(targets) /\ turn' = turn + 1 /\ UNCHANGED <<targets, graded>>
      /\ Len(targets) \in Nat /\ ~graded
  BY DEF P!Dial, ProbeTally
<1> DEFINE Left(a) ==
      \/ a = {} /\ mute' = mute \cup {turn} /\ UNCHANGED <<observed, walked>>
      \/ \E h \in P!Handshake :
           /\ a = {h} /\ UNCHANGED mute /\ walked' = walked + 1
           /\ observed' = observed \cup FoundAt(turn, h)
<1>3. PICK a \in SUBSET P!Handshake : answers' = Append(answers, a) /\ Left(a)
  <2>1. CASE mute' = mute \cup {turn} /\ answers' = Append(answers, {}) /\ UNCHANGED <<observed, walked>>
    BY <2>1
  <2>2. ASSUME NEW h \in Answer[targets[turn]],
               observed' = observed \cup {P!versionFinding(h)} \cup P!cipherFinding(h)
                                    \cup P!certFindings(h),
               walked' = walked + 1, answers' = Append(answers, {h}), UNCHANGED mute
        PROVE  \E a \in SUBSET P!Handshake : answers' = Append(answers, a) /\ Left(a)
    <3>1. targets[turn] \in Endpoints
      BY <1>1 DEF ProbeTally
    <3>2. h \in P!Handshake
      BY <2>2, <3>1, SourcesAssumption DEF P!ConstantsOK
    <3>3. {P!versionFinding(h)} \cup P!cipherFinding(h) \cup P!certFindings(h) = FoundAt(turn, h)
      BY DEF P!versionFinding, P!cipherFinding, P!certFindings, P!Observed, FoundAt
    <3> HIDE DEF Left
    <3>4. Left({h})
      BY <2>2, <3>2, <3>3 DEF Left
    <3> QED
      BY <2>2, <3>2, <3>4
  <2> QED
    BY <2>1, <2>2 DEF P!Dial
<1>5. answers' \in Seq(SUBSET P!Handshake) /\ Len(answers') = turn' - 1
      /\ answers'[turn] = a /\ \A t \in 1 .. turn - 1 : answers'[t] = answers[t]
  <2>1. answers \in Seq(SUBSET P!Handshake) /\ Len(answers) = turn - 1
    BY DEF ProbeResult
  <2> QED
    BY <2>1, <1>1, <1>3
<1>6. /\ \A h \in a : observed' = observed \cup FoundAt(turn, h)
      /\ \A f \in observed' \ observed : f \in ProbeFinding /\ f.turn = turn
      /\ observed \subseteq observed'
  <2>1. turn \in Nat
    BY <1>1
  <2> QED
    BY <2>1, <1>3, FoundTyped
<1>7. observed \subseteq ProbeFinding /\ \A f \in observed : f.turn \in 1 .. turn - 1
  BY DEF ProbeResult
<1>8. \A t \in 1 .. turn' - 1 : \A h \in answers'[t] : ObservedAt(t)' = Held(t, h)'
  <2> SUFFICES ASSUME NEW t \in 1 .. turn, NEW h \in answers'[t]
               PROVE  ObservedAt(t)' = FoundAt(t, h)
    BY <1>1 DEF Held
  <2>1. CASE t = turn
    <3>1. h \in a /\ h \in P!Handshake /\ turn \in Nat
      BY <1>1, <1>5, <2>1
    <3>2. FoundAt(turn, h) \subseteq observed' /\ \A f \in FoundAt(turn, h) : f.turn = turn
      BY <3>1, <1>6, FoundTyped
    <3>3. \A f \in observed' : f.turn = turn => f \in FoundAt(turn, h)
      BY <3>1, <1>1, <1>6, <1>7
    <3> QED
      BY <2>1, <3>2, <3>3 DEF ObservedAt
  <2>2. CASE t \in 1 .. turn - 1
    <3>1. h \in answers[t] /\ ObservedAt(t) = FoundAt(t, h)
      BY <2>2, <1>1, <1>5 DEF ProbeResult, Held
    <3>2. \A f \in observed' : f.turn = t => f \in observed
      BY <2>2, <1>1, <1>6
    <3> QED
      BY <3>1, <3>2, <1>6 DEF ObservedAt
  <2> QED
    BY <1>1, <2>1, <2>2
<1>9. observed' \subseteq ProbeFinding
      /\ \A f \in observed' : f.turn \in 1 .. turn' - 1 /\ (graded' => f.class # "")
  <2> SUFFICES ASSUME NEW f \in observed' PROVE f \in ProbeFinding /\ f.turn \in 1 .. turn' - 1
    BY <1>1
  <2>1. CASE f \in observed
    BY <2>1, <1>1, <1>7
  <2>2. CASE f \notin observed
    BY <2>2, <1>1, <1>6
  <2> QED
    BY <2>1, <2>2
<1>10. ProbeTally'
  <2>1. IsFiniteSet(mute) /\ mute \subseteq 1 .. turn - 1
        /\ walked \in Nat /\ walked + Cardinality(mute) = turn - 1
    BY DEF ProbeTally
  <2>2. turn \notin mute
    BY <2>1, <1>1
  <2>3. IsFiniteSet(mute \cup {turn}) /\ Cardinality(mute \cup {turn}) = Cardinality(mute) + 1
    BY <2>1, <2>2, FS_AddElement
  <2>4. Cardinality(mute) \in Nat
    BY <2>1, FS_CardinalityType
  <2>5. \/ mute' = mute \cup {turn} /\ walked' = walked
        \/ mute' = mute /\ walked' = walked + 1
    BY <1>3
  <2>6. CASE mute' = mute \cup {turn} /\ walked' = walked
    <3>1. Cardinality(mute') = Cardinality(mute) + 1 /\ IsFiniteSet(mute')
      BY <2>6, <2>3
    <3>2. mute' \subseteq 1 .. turn' - 1
      BY <2>6, <2>1, <1>1
    <3> QED
      BY <3>1, <3>2, <2>1, <2>4, <2>6, <1>1 DEF ProbeTally
  <2>7. CASE mute' = mute /\ walked' = walked + 1
    BY <2>7, <2>1, <2>4, <1>1 DEF ProbeTally
  <2> QED
    BY <2>5, <2>6, <2>7
<1> QED
  BY <1>5, <1>8, <1>9, <1>10 DEF ProbeResult

LEMMA ApplyKeeps == ProbeInv /\ P!Apply => ProbeInv'
<1> SUFFICES ASSUME ProbeTally, ProbeResult, P!Apply PROVE ProbeTally' /\ ProbeResult'
  BY DEF ProbeInv
<1>1. /\ turn = Len(targets) + 1 /\ Len(targets) \in Nat /\ ~graded /\ graded' = TRUE
      /\ observed' = {P!Graded(f) : f \in observed}
      /\ UNCHANGED <<targets, turn, answers, mute, walked>>
  BY DEF P!Apply, ProbeTally
<1>2. ProbeTally'
  BY <1>1 DEF ProbeTally
<1>3. observed' \subseteq ProbeFinding
      /\ \A f \in observed' : f.turn \in 1 .. turn' - 1 /\ f.class # ""
  <2>1. observed \subseteq ProbeFinding /\ \A f \in observed : f.turn \in 1 .. turn - 1
    BY DEF ProbeResult
  <2>2. ASSUME NEW g \in observed PROVE P!Graded(g) \in ProbeFinding
                                     /\ P!Graded(g).turn \in 1 .. turn - 1 /\ P!Graded(g).class # ""
    BY <2>1, GradedTyped
  <2> QED
    BY <1>1, <2>2
<1>4. ASSUME NEW t \in 1 .. turn - 1, NEW h \in answers[t] PROVE ObservedAt(t)' = Held(t, h)'
  <2>1. ObservedAt(t) = FoundAt(t, h) /\ observed \subseteq ProbeFinding
    BY <1>1, <1>4 DEF ProbeResult, Held
  <2>2. Held(t, h)' = {P!Graded(f) : f \in FoundAt(t, h)}
    BY <1>1 DEF Held
  <2>3. \A f \in observed : P!Graded(f).turn = f.turn
    BY <2>1, GradedTyped
  <2>4. ObservedAt(t)' = {P!Graded(f) : f \in ObservedAt(t)}
    BY <1>1, <2>3, Zenon DEF ObservedAt
  <2> QED
    BY <2>1, <2>2, <2>4
<1> QED
  BY <1>1, <1>2, <1>3, <1>4 DEF ProbeResult

LEMMA ProbeInvariance == SourcesSpec => []ProbeInv
<1>1. ASSUME ProbeInv, [P!Scan]_probe PROVE ProbeInv'
  <2>1. CASE P!Dial
    BY <1>1, <2>1, DialKeeps
  <2>2. CASE P!Apply
    BY <1>1, <2>2, ApplyKeeps
  <2>3. CASE UNCHANGED probe
    BY <1>1, <2>3 DEF probe, ProbeInv, ProbeTally, ProbeResult, ObservedAt, Held
  <2> QED
    BY <1>1, <2>1, <2>2, <2>3 DEF P!Scan
<1> QED
  BY <1>1, ProbeInitial, ProbeStep, PTL DEF SourcesSpec

\* An endpoint that answered is in the result with all that is wrong with it,
\* and one that did not is on stderr: probe.Endpoint, the finding it builds and
\* risk.Apply lose nothing, for any endpoints and any number of arguments.
THEOREM EveryTargetIsAccountedFor == SourcesSpec => []TargetsAccounted
<1>1. ASSUME ProbeInv, graded PROVE walked + Cardinality(mute) = Len(targets)
  BY <1>1 DEF ProbeInv, ProbeTally
<1>2. ASSUME ProbeInv, graded, NEW t \in DOMAIN targets, NEW h \in answers[t]
      PROVE  /\ h.version \in {"1.0", "1.1"} <=> "misconfig" \in P!ClassesAt(t, "protocol")
             /\ h.insecure <=> "weak" \in P!ClassesAt(t, "protocol")
             /\ h.expired <=> "expired" \in P!ClassesAt(t, "certificate")
             /\ h.algo # "" => P!KeyClass(h) \in P!ClassesAt(t, "certificate")
  <2>1. t \in 1 .. turn - 1 /\ t \in Nat
    BY <1>2 DEF ProbeInv, ProbeTally
  <2>2. h \in P!Handshake
    <3>1. answers \in Seq(SUBSET P!Handshake) /\ Len(answers) = turn - 1
      BY <1>2 DEF ProbeInv, ProbeResult
    <3>2. answers[t] \in SUBSET P!Handshake
      BY <2>1, <3>1
    <3> QED
      BY <1>2, <3>2
  <2>3. ObservedAt(t) = {P!Graded(f) : f \in FoundAt(t, h)}
    BY <1>2, <2>1 DEF ProbeInv, ProbeResult, Held
  <2>4. \A f \in FoundAt(t, h) : P!Graded(f).type = f.type
    BY <2>1, <2>2, FoundTyped, GradedTyped
  <2>4a. \A f \in FoundAt(t, h) : f \in ProbeFinding
    BY <2>1, <2>2, FoundTyped
  <2>5. \A type, c : c \in P!ClassesAt(t, type) <=>
                        \E f \in FoundAt(t, h) : f.type = type /\ P!Graded(f).class = c
    BY <2>3, <2>4 DEF ObservedAt, P!ClassesAt
  <2> DEFINE v == [turn |-> t, type |-> "protocol", algo |-> "TLS", size |-> 0,
                   class |-> IF h.version \in {"1.0", "1.1"} THEN "misconfig" ELSE ""]
             w == [turn |-> t, type |-> "protocol", algo |-> "TLS", size |-> 0, class |-> "weak"]
             k == [turn |-> t, type |-> "certificate", algo |-> h.algo, size |-> h.size, class |-> ""]
             x == [turn |-> t, type |-> "certificate", algo |-> h.algo, size |-> h.size,
                   class |-> "expired"]
  <2>6. FoundAt(t, h) = {v} \cup (IF h.insecure THEN {w} ELSE {})
                            \cup (IF h.algo # "" THEN {k} ELSE {})
                            \cup (IF h.expired THEN {x} ELSE {})
    BY DEF FoundAt
  <2>7. P!Graded(w).class = "weak" /\ P!Graded(x).class = "expired"
    BY DEF P!Graded
  <2>8. P!Graded(v).class = IF h.version \in {"1.0", "1.1"} THEN "misconfig" ELSE "none"
    <3>1. v \in ProbeFinding
      <4> HIDE DEF v, w, k, x
      <4> QED
        BY <2>4a, <2>6
    <3>2. CASE h.version \in {"1.0", "1.1"}
      BY <3>2 DEF P!Graded
    <3>3. CASE h.version \notin {"1.0", "1.1"}
      <4> DEFINE a == [type |-> v.type, algo |-> v.algo, size |-> v.size, prim |-> ""]
      <4>1. v.class = "" /\ a.algo = "TLS"
        BY <3>3
      <4>2. P!Graded(v).class = P!Classify(a).class
        BY <3>1, <4>1, GradedTyped
      <4> HIDE DEF a
      <4>3. P!Classify(a).class = "none"
        BY <4>1, ClassifyOf
      <4> HIDE DEF v
      <4>4. P!Graded(v).class = "none"
        BY <4>2, <4>3
      <4> QED
        BY <3>3, <4>4
    <3> QED
      BY <3>2, <3>3
  <2>9. ASSUME h.algo # "" PROVE P!Graded(k).class = P!KeyClass(h)
    <3>1. k \in ProbeFinding
      <4> HIDE DEF v, w, k, x
      <4> QED
        BY <2>4a, <2>6, <2>9
    <3>2. h.algo \in {"RSA", "ECDSA", "Ed25519"} /\ h.size \in Nat
          /\ (h.algo = "RSA" => h.size \in Nat \ {0})
      <4>1. h.algo \in {"RSA", "ECDSA", "Ed25519", ""} /\ h.size \in Nat
            /\ (h.algo = "RSA" => h.size > 0)
        BY <2>2 DEF P!Handshake
      <4>2. h.algo \in {"RSA", "ECDSA", "Ed25519"}
        BY <2>9, <4>1
      <4>3. \A s \in Nat : s > 0 => s \in Nat \ {0}
        OBVIOUS
      <4> QED
        BY <4>1, <4>2, <4>3
    <3>3. P!Graded(k).class =
            P!Classify([type |-> k.type, algo |-> h.algo, size |-> h.size, prim |-> ""]).class
      BY <3>1, GradedTyped
    <3> DEFINE a == [type |-> k.type, algo |-> h.algo, size |-> h.size, prim |-> ""]
    <3>4. a.algo = h.algo /\ a.size = h.size
      OBVIOUS
    <3> HIDE DEF a
    <3>5. P!Graded(k).class = P!Classify(a).class
      BY <3>3 DEF a
    <3>6. P!Classify(a).class = P!KeyClass(h)
      BY <3>2, <3>4, ClassifyOf DEF P!KeyClass
    <3> QED
      BY <3>5, <3>6
  <2>10. /\ v.type = "protocol" /\ w.type = "protocol"
         /\ k.type = "certificate" /\ x.type = "certificate"
    OBVIOUS
  <2> HIDE DEF v, w, k, x
  <2>14. \A f : f \in FoundAt(t, h)
             <=> (f = v) \/ (h.insecure /\ f = w) \/ (h.algo # "" /\ f = k) \/ (h.expired /\ f = x)
    BY <2>6
  <2>11. \A c : c \in P!ClassesAt(t, "protocol") <=>
            c = P!Graded(v).class \/ (h.insecure /\ c = "weak")
    <3>1. \A f : f \in FoundAt(t, h) /\ f.type = "protocol" <=> f = v \/ (h.insecure /\ f = w)
      BY <2>14, <2>10
    <3> QED
      BY <2>5, <2>7, <3>1
  <2>12. \A c : c \in P!ClassesAt(t, "certificate") <=>
            (h.algo # "" /\ c = P!KeyClass(h)) \/ (h.expired /\ c = "expired")
    <3>1. \A f : f \in FoundAt(t, h) /\ f.type = "certificate"
                 <=> (h.algo # "" /\ f = k) \/ (h.expired /\ f = x)
      BY <2>14, <2>10
    <3>2. h.algo # "" => P!Graded(k).class = P!KeyClass(h)
      BY <2>9
    <3>3. ASSUME NEW c, c \in P!ClassesAt(t, "certificate")
          PROVE  (h.algo # "" /\ c = P!KeyClass(h)) \/ (h.expired /\ c = "expired")
      <4>1. PICK f \in FoundAt(t, h) : f.type = "certificate" /\ P!Graded(f).class = c
        BY <2>5, <3>3
      <4> QED
        BY <2>7, <3>1, <3>2, <4>1
    <3>4. ASSUME h.algo # "" PROVE P!KeyClass(h) \in P!ClassesAt(t, "certificate")
      BY <2>5, <3>1, <3>2, <3>4
    <3>5. ASSUME h.expired PROVE "expired" \in P!ClassesAt(t, "certificate")
      BY <2>5, <2>7, <3>1, <3>5
    <3> QED
      BY <3>3, <3>4, <3>5
  <2>13. h.insecure \in BOOLEAN /\ h.expired \in BOOLEAN
    BY <2>2 DEF P!Handshake
  <2>15. P!KeyClass(h) # "expired"
    BY DEF P!KeyClass
  <2>16. h.version \in {"1.0", "1.1"} <=> "misconfig" \in P!ClassesAt(t, "protocol")
    BY <2>8, <2>11
  <2>17. h.insecure <=> "weak" \in P!ClassesAt(t, "protocol")
    BY <2>8, <2>11
  <2>18. h.expired <=> "expired" \in P!ClassesAt(t, "certificate")
    BY <2>12, <2>15
  <2>19. h.algo # "" => P!KeyClass(h) \in P!ClassesAt(t, "certificate")
    BY <2>12
  <2> QED
    BY <2>16, <2>17, <2>18, <2>19
<1>3. ASSUME ProbeInv PROVE TargetsAccounted
  <2> SUFFICES ASSUME graded PROVE P!TargetsAccounted
    BY Zenon DEF TargetsAccounted, P!TargetsAccounted
  <2>1. walked + Cardinality(mute) = Len(targets)
    BY <1>1, <1>3
  <2>2. \A t \in DOMAIN targets \ mute : \A h \in answers[t] :
          /\ h.version \in {"1.0", "1.1"} <=> "misconfig" \in P!ClassesAt(t, "protocol")
          /\ h.insecure <=> "weak" \in P!ClassesAt(t, "protocol")
          /\ h.expired <=> "expired" \in P!ClassesAt(t, "certificate")
          /\ h.algo # "" => P!KeyClass(h) \in P!ClassesAt(t, "certificate")
    BY <1>2, <1>3
  <2> QED
    BY <2>1, <2>2, SameCardinality DEF P!TargetsAccounted
<1> QED
  BY <1>3, ProbeInvariance, PTL

-----------------------------------------------------------------------------
(* `qryx image`.                                                           *)

Path(i, t) == I!safeJoin(I!At(i, t).name)

\* The place of a file, and the places the extraction has passed.
Passed(t) == t[1] < outer \/ (step = "layer" /\ t[1] = outer /\ t[2] < inner)

Extracted == {t \in I!Regular(image) : Passed(t)}

Before(u, t) == u[1] < t[1] \/ (u[1] = t[1] /\ u[2] <= t[2])

\* Of the places passed, t is the last that holds its path.
OnTop(t) == \A u \in Extracted : Path(image, u) = Path(image, t) => Before(u, t)

ImageCounters ==
    /\ step \in {"open", "outer", "layer", "scan", "done"}
    /\ outer \in Nat /\ outer > 0 /\ inner \in Nat /\ inner > 0 /\ oversize \in Nat

InTheTars ==
    /\ tars \in Images /\ image \in DOMAIN tars
    /\ step = "layer" => outer \in DOMAIN tars[image]
    /\ step = "scan" => outer > Len(tars[image])
    /\ step = "done" <=> ended # ""

ImageTyped == ImageCounters /\ InTheTars

\* While no file was too large, the directory is what the layers so far make
\* when they are laid over each other.
Laid ==
    step \in {"outer", "layer", "scan"} /\ oversize = 0 =>
        /\ \A t \in Extracted : Path(image, t) \in DOMAIN files
        /\ \A p \in DOMAIN files : \E t \in Extracted :
              /\ Path(image, t) = p /\ OnTop(t)
              /\ files[p].size = I!At(image, t).size /\ files[p].holds = I!At(image, t).holds

Owed(i) ==
    {I!Hit(i, Path(i, t), I!At(i, t).holds) : t \in
        {u \in I!Regular(i) : /\ I!Uppermost(i, u)
                              /\ I!Seen(Path(i, u), I!At(i, u).size, I!At(i, u).holds)}}

\* The tarballs that are behind the scan.
Finished  == ended = "ok"
Behind(i) == i < image \/ Finished

\* Each of them has its notice or what it owes, and the others have nothing yet.
Reported ==
    ended # "failed" =>
        /\ \A h \in hits : h.image \in DOMAIN tars /\ Behind(h.image)
        /\ \A i \in notices : i \in DOMAIN tars /\ Behind(i)
        /\ \A i \in DOMAIN tars : Behind(i) /\ i \notin notices => {h \in hits : h.image = i} = Owed(i)

ImageInv == ImageTyped /\ Laid /\ Reported

LEMMA TarsTyped ==
    ASSUME NEW x \in Images
    PROVE  /\ x \in Seq(Seq(I!OuterEntry)) /\ Len(x) \in Nat /\ Len(x) > 0
           /\ \A i \in DOMAIN x : x[i] \in Seq(I!OuterEntry) /\ Len(x[i]) \in Nat
           /\ \A i \in DOMAIN x : \A k \in DOMAIN x[i] :
                /\ x[i][k] \in I!OuterEntry /\ Len(x[i][k].files) \in Nat
                /\ x[i][k].files \in Seq(I!ImageFile)
                /\ x[i][k].kind # "layer" => DOMAIN x[i][k].files = {}
<1>1. x \in Seq(Seq(I!OuterEntry)) /\ x # <<>>
  BY SourcesAssumption DEF I!ConstantsOK
<1>2. \A i \in DOMAIN x : x[i] \in Seq(I!OuterEntry)
  BY <1>1
<1>3. ASSUME NEW i \in DOMAIN x, NEW k \in DOMAIN x[i]
      PROVE  /\ x[i][k] \in I!OuterEntry /\ Len(x[i][k].files) \in Nat
             /\ x[i][k].files \in Seq(I!ImageFile)
             /\ x[i][k].kind # "layer" => DOMAIN x[i][k].files = {}
  <2>1. x[i][k] \in I!OuterEntry
    BY <1>2, <1>3
  <2>2. x[i][k].files \in Seq(I!ImageFile)
        /\ (x[i][k].kind # "layer" => x[i][k].files = <<>>)
    BY <2>1 DEF I!OuterEntry
  <2> QED
    BY <2>1, <2>2
<1> QED
  BY <1>1, <1>2, <1>3

\* The place of a file in a tarball.
LEMMA PlaceOf ==
    ASSUME ImageTyped, NEW i \in DOMAIN tars, NEW t
    PROVE  t \in I!Regular(i) <=>
             \E k \in DOMAIN tars[i] : \E j \in DOMAIN tars[i][k].files :
                t = <<k, j>> /\ tars[i][k].files[j].kind = "file"
  BY DEF I!Regular, I!Places, I!At

LEMMA PlaceTyped ==
    ASSUME ImageTyped, NEW i \in DOMAIN tars, NEW t \in I!Regular(i)
    PROVE  /\ t = <<t[1], t[2]>>
           /\ t[1] \in 1 .. Len(tars[i]) /\ t[2] \in 1 .. Len(tars[i][t[1]].files)
           /\ tars[i][t[1]].kind = "layer" /\ I!At(i, t).kind = "file"
<1>1. tars \in Images
  BY DEF ImageTyped, InTheTars
<1>2. PICK k \in DOMAIN tars[i] : \E j \in DOMAIN tars[i][k].files :
        t = <<k, j>> /\ tars[i][k].files[j].kind = "file"
  BY PlaceOf
<1>3. PICK j \in DOMAIN tars[i][k].files : t = <<k, j>> /\ tars[i][k].files[j].kind = "file"
  BY <1>2
<1>4. tars[i][k].kind = "layer"
  BY <1>1, <1>3, TarsTyped
<1>5. DOMAIN tars[i] = 1 .. Len(tars[i]) /\ DOMAIN tars[i][k].files = 1 .. Len(tars[i][k].files)
  BY <1>1, TarsTyped
<1> QED
  BY <1>2, <1>3, <1>4, <1>5 DEF I!At

LEMMA ImageInitial == SourcesInit => ImageInv
<1> SUFFICES ASSUME SourcesInit PROVE ImageInv
  OBVIOUS
<1>1. I!Init /\ tars \in Images
  BY DEF SourcesInit, NoImage, I!Init
<1>2. 1 \in DOMAIN tars
  BY <1>1, TarsTyped
<1>3. ImageTyped
  <2>1. ImageCounters
    <3>1. step = "open" /\ outer = 1 /\ inner = 1 /\ oversize = 0
      BY <1>1 DEF I!Init
    <3> QED
      BY <3>1 DEF ImageCounters
  <2>2. InTheTars
    BY <1>1, <1>2 DEF I!Init, ImageTyped, InTheTars
  <2> QED
    BY <2>1, <2>2 DEF ImageTyped
<1>4. Laid
  BY <1>1 DEF I!Init, Laid
<1>5. \A i \in DOMAIN tars : ~Behind(i)
  <2>1. \A i \in DOMAIN tars : i \in 1 .. Len(tars) /\ Len(tars) \in Nat
    BY <1>1, TarsTyped
  <2>2. image = 1 /\ ~Finished
    BY <1>1 DEF I!Init, Finished
  <2> QED
    BY <2>1, <2>2 DEF Behind
<1>6. Reported
  BY <1>1, <1>5 DEF I!Init, Reported
<1> QED
  BY <1>3, <1>4, <1>6 DEF ImageInv

LEMMA ImageStep == [SourcesNext]_allVars => [I!Scan]_tar
  BY DEF SourcesNext, Work, Outside, allVars, tar, I!ivars

LEMMA AbortKeeps ==
    ASSUME ImageInv, I!Abort, UNCHANGED tars PROVE ImageInv'
<1>1. ImageTyped'
  <2>1. ImageCounters'
    BY DEF ImageInv, ImageTyped, I!Abort, ImageCounters
  <2>2. InTheTars'
    BY DEF ImageInv, ImageTyped, I!Abort, InTheTars
  <2> QED
    BY <2>1, <2>2 DEF ImageTyped
<1>2. Laid' /\ Reported'
  BY DEF I!Abort, Laid, Reported
<1> QED
  BY <1>1, <1>2 DEF ImageInv

\* A step that extracts nothing leaves the layers as they lie.
LEMMA LaidStays ==
    ASSUME Laid, step \in {"outer", "layer", "scan"}, Extracted' = Extracted,
           UNCHANGED <<tars, image, files, oversize>>
    PROVE  Laid'
  BY DEF Laid, OnTop, Path, I!At

LEMMA ReportedStays ==
    ASSUME Reported, UNCHANGED <<tars, image, hits, notices, ended>>
    PROVE  Reported'
  BY DEF Reported, Behind, Finished, Owed, Path, I!Regular, I!Places, I!At, I!Uppermost

LEMMA RegularStays ==
    ASSUME NEW i, UNCHANGED tars PROVE I!Regular(i)' = I!Regular(i)
  BY DEF I!Regular, I!Places, I!At

LEMMA OpenKeeps == ImageInv /\ I!Open /\ UNCHANGED tars => ImageInv'
<1> SUFFICES ASSUME ImageInv, I!Open, UNCHANGED tars PROVE ImageInv'
  OBVIOUS
<1> USE DEF ImageInv
<1>1. CASE I!Abort
  BY <1>1, AbortKeeps
<1>2. CASE step = "open" /\ step' = "outer" /\ outer' = 1 /\ files' = I!NoFiles
           /\ UNCHANGED <<image, inner, hits, notices, ended>> /\ oversize' = 0
  <2>1. ImageTyped'
    <3>1. ImageCounters'
      BY <1>2 DEF ImageTyped, ImageCounters
    <3>2. InTheTars'
      BY <1>2 DEF ImageTyped, InTheTars
    <3> QED
      BY <3>1, <3>2 DEF ImageTyped
  <2>2. Extracted' = {}
    <3> SUFFICES ASSUME NEW t \in I!Regular(image)' PROVE ~Passed(t)'
      BY DEF Extracted
    <3>1. t[1] \in 1 .. Len(tars[image])
      BY <1>2, RegularStays, PlaceTyped DEF ImageTyped, InTheTars
    <3> QED
      BY <1>2, <3>1 DEF Passed
  <2>3. DOMAIN files' = {}
    BY <1>2 DEF I!NoFiles
  <2>4. Laid'
    BY <2>2, <2>3 DEF Laid
  <2> QED
    BY <1>2, <2>1, <2>4, ReportedStays
<1> QED
  BY <1>1, <1>2 DEF I!Open

LEMMA NextEntryKeeps == ImageInv /\ I!NextEntry /\ UNCHANGED tars => ImageInv'
<1> SUFFICES ASSUME ImageInv, I!NextEntry, UNCHANGED tars PROVE ImageInv'
  OBVIOUS
<1> USE DEF ImageInv
<1>1. /\ step = "outer"
      /\ UNCHANGED <<tars, image, files, oversize, hits, notices, ended>>
      /\ tars \in Images /\ image \in DOMAIN tars /\ Len(tars[image]) \in Nat
      /\ DOMAIN tars[image] = 1 .. Len(tars[image]) /\ outer \in Nat /\ outer > 0
  <2>1. tars \in Images /\ image \in DOMAIN tars /\ outer \in Nat /\ outer > 0
    BY DEF ImageTyped, InTheTars, ImageCounters
  <2>2. tars[image] \in Seq(I!OuterEntry) /\ Len(tars[image]) \in Nat
    BY <2>1, TarsTyped
  <2> QED
    BY <2>1, <2>2 DEF I!NextEntry
<1>2. \/ /\ outer > Len(tars[image]) /\ step' = "scan" /\ UNCHANGED <<outer, inner>>
      \/ /\ outer \in DOMAIN tars[image] /\ tars[image][outer].kind # "layer"
         /\ outer' = outer + 1 /\ UNCHANGED <<step, inner>>
      \/ /\ outer \in DOMAIN tars[image]
         /\ step' = "layer" /\ inner' = 1 /\ UNCHANGED outer
  BY <1>1 DEF I!NextEntry, I!Entry
<1>3. ImageTyped'
  <2>1. ImageCounters'
    BY <1>1, <1>2 DEF ImageTyped, ImageCounters
  <2>2. InTheTars'
    BY <1>1, <1>2 DEF ImageTyped, InTheTars
  <2> QED
    BY <2>1, <2>2 DEF ImageTyped
<1>4. Extracted' = Extracted
  <2> SUFFICES ASSUME NEW t \in I!Regular(image) PROVE Passed(t)' <=> Passed(t)
    BY <1>1, RegularStays DEF Extracted
  <2>1. t[1] \in 1 .. Len(tars[image]) /\ t[2] \in Nat /\ t[2] > 0
        /\ tars[image][t[1]].kind = "layer"
    BY <1>1, PlaceTyped
  <2> QED
    BY <1>1, <1>2, <2>1 DEF Passed
<1> QED
  BY <1>1, <1>3, <1>4, LaidStays, ReportedStays

LEMMA LayerEndsKeeps == ImageInv /\ I!LayerEnds /\ UNCHANGED tars => ImageInv'
<1> SUFFICES ASSUME ImageInv, I!LayerEnds, UNCHANGED tars PROVE ImageInv'
  OBVIOUS
<1> USE DEF ImageInv
<1>1. /\ step = "layer" /\ step' = "outer" /\ outer' = outer + 1
      /\ inner > Len(tars[image][outer].files)
      /\ UNCHANGED <<tars, image, inner, files, oversize, hits, notices, ended>>
      /\ tars \in Images /\ image \in DOMAIN tars /\ inner \in Nat /\ outer \in Nat
  BY DEF I!LayerEnds, I!Entry, ImageTyped, InTheTars, ImageCounters
<1>2. ImageTyped'
  <2>1. ImageCounters'
    BY <1>1 DEF ImageTyped, ImageCounters
  <2>2. InTheTars'
    BY <1>1 DEF ImageTyped, InTheTars
  <2> QED
    BY <2>1, <2>2 DEF ImageTyped
<1>3. Extracted' = Extracted
  <2> SUFFICES ASSUME NEW t \in I!Regular(image) PROVE Passed(t)' <=> Passed(t)
    BY <1>1, RegularStays DEF Extracted
  <2>1. /\ t[1] \in 1 .. Len(tars[image]) /\ Len(tars[image]) \in Nat
        /\ t[2] \in 1 .. Len(tars[image][t[1]].files)
    BY <1>1, PlaceTyped, TarsTyped
  <2>2. t[1] \in Nat /\ t[1] \in DOMAIN tars[image]
    BY <2>1, <1>1, TarsTyped
  <2>3. Len(tars[image][t[1]].files) \in Nat
    BY <2>2, <1>1, TarsTyped
  <2> QED
    BY <1>1, <2>1, <2>2, <2>3 DEF Passed
<1> QED
  BY <1>1, <1>2, <1>3, LaidStays, ReportedStays

LEMMA PassByKeeps == ImageInv /\ I!PassBy /\ UNCHANGED tars => ImageInv'
<1> SUFFICES ASSUME ImageInv, I!PassBy, UNCHANGED tars PROVE ImageInv'
  OBVIOUS
<1> USE DEF ImageInv
<1>1. /\ step = "layer" /\ inner' = inner + 1
      /\ UNCHANGED <<tars, step, image, outer, files, hits, notices, ended>>
      /\ image \in DOMAIN tars /\ inner \in Nat /\ inner > 0 /\ oversize \in Nat
  BY DEF I!PassBy, ImageTyped, InTheTars, ImageCounters
<1>2. \/ tars[image][outer].files[inner].kind # "file" /\ UNCHANGED oversize
      \/ oversize' = oversize + 1
  BY DEF I!PassBy, I!File, I!Entry
<1>3. ImageTyped'
  <2>1. ImageCounters'
    BY <1>1, <1>2 DEF ImageTyped, ImageCounters
  <2>2. InTheTars'
    BY <1>1 DEF ImageTyped, InTheTars
  <2> QED
    BY <2>1, <2>2 DEF ImageTyped
<1>4. Laid'
  <2>1. CASE tars[image][outer].files[inner].kind # "file" /\ UNCHANGED oversize
    <3>1. Extracted' = Extracted
      <4> SUFFICES ASSUME NEW t \in I!Regular(image) PROVE Passed(t)' <=> Passed(t)
        BY <1>1, RegularStays DEF Extracted
      <4>1. I!At(image, t).kind = "file" /\ t[2] \in Nat
        BY <1>1, PlaceTyped
      <4>2. ~(t[1] = outer /\ t[2] = inner)
        BY <2>1, <4>1 DEF I!At
      <4> QED
        BY <1>1, <4>1, <4>2 DEF Passed
    <3> QED
      BY <1>1, <2>1, <3>1, LaidStays
  <2>2. CASE oversize' = oversize + 1
    BY <1>1, <2>2 DEF Laid
  <2> QED
    BY <1>2, <2>1, <2>2
<1> QED
  BY <1>1, <1>3, <1>4, ReportedStays

\* A file put over the layers is on top of them.
LEMMA ExtractKeeps == ImageInv /\ I!Extract /\ UNCHANGED tars => ImageInv'
<1> SUFFICES ASSUME ImageInv, I!Extract, UNCHANGED tars, ~I!Abort PROVE ImageInv'
  BY AbortKeeps
<1> USE DEF ImageInv
<1> DEFINE file == tars[image][outer].files[inner]
           new  == <<outer, inner>>
           path == I!safeJoin(file.name)
<1>1. /\ step = "layer" /\ inner' = inner + 1 /\ file.kind = "file"
      /\ UNCHANGED <<tars, step, image, outer, oversize, hits, notices, ended>>
      /\ inner <= Len(tars[image][outer].files)
      /\ files' = [p \in DOMAIN files \cup {path} |->
                     IF p = path THEN [size |-> file.size, holds |-> file.holds] ELSE files[p]]
  BY DEF I!Extract, I!File, I!Entry
<1>2. /\ tars \in Images /\ image \in DOMAIN tars /\ outer \in DOMAIN tars[image]
      /\ inner \in Nat /\ inner > 0 /\ outer \in Nat
  BY <1>1 DEF ImageTyped, InTheTars, ImageCounters
<1>3. ImageTyped'
  <2>1. ImageCounters'
    BY <1>1 DEF ImageTyped, ImageCounters
  <2>2. InTheTars'
    BY <1>1 DEF ImageTyped, InTheTars
  <2> QED
    BY <2>1, <2>2 DEF ImageTyped
<1>4. new \in I!Regular(image) /\ I!At(image, new) = file /\ Path(image, new) = path
  <2>1. inner \in DOMAIN tars[image][outer].files
    BY <1>1, <1>2, TarsTyped
  <2> QED
    BY <1>1, <1>2, <2>1, PlaceOf DEF I!At, Path
<1>5. Extracted' = Extracted \cup {new}
  <2> SUFFICES ASSUME NEW t \in I!Regular(image) PROVE Passed(t)' <=> Passed(t) \/ t = new
    BY <1>1, <1>4, RegularStays DEF Extracted
  <2>1. t = <<t[1], t[2]>> /\ t[1] \in Nat /\ t[2] \in Nat
    BY <1>2, PlaceTyped, TarsTyped
  <2> QED
    BY <1>1, <1>2, <2>1 DEF Passed
<1>6. \A u \in Extracted : Before(u, new) /\ u[1] \in Nat /\ u[2] \in Nat
  <2> SUFFICES ASSUME NEW u \in Extracted
               PROVE  Before(u, new) /\ u[1] \in Nat /\ u[2] \in Nat
    OBVIOUS
  <2>1. u \in I!Regular(image) /\ Passed(u)
    BY DEF Extracted
  <2>2. u[1] \in Nat /\ u[2] \in Nat
    BY <1>2, <2>1, PlaceTyped, TarsTyped
  <2> QED
    BY <1>1, <1>2, <2>1, <2>2 DEF Before, Passed
<1>7. Laid'
  <2> SUFFICES ASSUME oversize = 0
      PROVE  /\ \A t \in Extracted' : Path(image, t) \in DOMAIN files'
             /\ \A p \in DOMAIN files' : \E t \in Extracted' :
                   /\ Path(image, t) = p
                   /\ \A u \in Extracted' : Path(image, u) = Path(image, t) => Before(u, t)
                   /\ files'[p].size = I!At(image, t).size /\ files'[p].holds = I!At(image, t).holds
    <3>1. \A t : Path(image, t)' = Path(image, t) /\ I!At(image, t)' = I!At(image, t)
      BY <1>1 DEF Path, I!At
    <3>2. \A t : OnTop(t)' <=> \A u \in Extracted' : Path(image, u) = Path(image, t) => Before(u, t)
      BY <3>1 DEF OnTop, Before
    <3>3. SUFFICES ASSUME step' \in {"outer", "layer", "scan"}, oversize' = 0
                   PROVE  /\ \A t \in Extracted' : Path(image, t)' \in DOMAIN files'
                          /\ \A p \in DOMAIN files' : \E t \in Extracted' :
                                /\ Path(image, t)' = p /\ OnTop(t)'
                                /\ files'[p].size = I!At(image, t)'.size
                                /\ files'[p].holds = I!At(image, t)'.holds
      BY Zenon DEF Laid
    <3>4. oversize = 0
      BY <1>1, <3>3
    <3> QED
      BY <3>1, <3>2, <3>4
  <2>1. /\ \A t \in Extracted : Path(image, t) \in DOMAIN files
        /\ \A p \in DOMAIN files : \E t \in Extracted :
              /\ Path(image, t) = p /\ OnTop(t)
              /\ files[p].size = I!At(image, t).size /\ files[p].holds = I!At(image, t).holds
    BY <1>1 DEF Laid
  <2>2. ASSUME NEW t \in Extracted' PROVE Path(image, t) \in DOMAIN files'
    BY <1>1, <1>4, <1>5, <2>1, <2>2
  <2>3. Before(new, new)
    BY <1>2 DEF Before
  <2>4. files'[path].size = file.size /\ files'[path].holds = file.holds
    BY <1>1
  <2>5. ASSUME NEW p \in DOMAIN files', p # path
        PROVE  \E t \in Extracted' :
                   /\ Path(image, t) = p
                   /\ \A u \in Extracted' : Path(image, u) = Path(image, t) => Before(u, t)
                   /\ files'[p].size = I!At(image, t).size /\ files'[p].holds = I!At(image, t).holds
    <3>1. p \in DOMAIN files /\ files'[p] = files[p]
      BY <1>1, <2>5
    <3>2. PICK t \in Extracted :
              /\ Path(image, t) = p /\ OnTop(t)
              /\ files[p].size = I!At(image, t).size /\ files[p].holds = I!At(image, t).holds
      BY <2>1, <3>1
    <3> QED
      BY <1>4, <1>5, <2>5, <3>1, <3>2 DEF OnTop
  <2> QED
    BY <1>4, <1>5, <1>6, <2>2, <2>3, <2>4, <2>5
<1> QED
  BY <1>1, <1>3, <1>7, ReportedStays

LEMMA OwedStays ==
    ASSUME NEW i, UNCHANGED tars PROVE Owed(i)' = Owed(i)
  BY DEF Owed, Path, I!Regular, I!Places, I!At, I!Uppermost

\* What the directory gives in the end is what the tarball owes.
LEMMA HitsAreOwed ==
    ASSUME ImageInv, step = "scan", oversize = 0
    PROVE  {I!Hit(image, p, files[p].holds) :
              p \in {q \in DOMAIN files : I!Seen(q, files[q].size, files[q].holds)}} = Owed(image)
<1>1. /\ tars \in Images /\ image \in DOMAIN tars /\ outer \in Nat
      /\ outer > Len(tars[image]) /\ Len(tars[image]) \in Nat
  BY TarsTyped DEF ImageInv, ImageTyped, InTheTars, ImageCounters
<1> ImageTyped
  BY DEF ImageInv
<1>2. Extracted = I!Regular(image)
  <2> SUFFICES ASSUME NEW t \in I!Regular(image) PROVE Passed(t)
    BY DEF Extracted
  <2>1. t[1] \in 1 .. Len(tars[image])
    BY <1>1, PlaceTyped
  <2> QED
    BY <1>1, <2>1 DEF Passed
<1>3. \A t \in I!Regular(image) : OnTop(t) <=> I!Uppermost(image, t)
  BY <1>2 DEF OnTop, Before, Path, I!Uppermost
<1>4. /\ \A t \in I!Regular(image) : Path(image, t) \in DOMAIN files
      /\ \A p \in DOMAIN files : \E t \in I!Regular(image) :
            /\ Path(image, t) = p /\ I!Uppermost(image, t)
            /\ files[p].size = I!At(image, t).size /\ files[p].holds = I!At(image, t).holds
  BY <1>2, <1>3 DEF ImageInv, Laid
<1>5. ASSUME NEW t \in I!Regular(image), I!Uppermost(image, t)
      PROVE  /\ Path(image, t) \in DOMAIN files
             /\ files[Path(image, t)].size = I!At(image, t).size
             /\ files[Path(image, t)].holds = I!At(image, t).holds
  <2>1. PICK u \in I!Regular(image) :
            /\ Path(image, u) = Path(image, t) /\ I!Uppermost(image, u)
            /\ files[Path(image, t)].size = I!At(image, u).size
            /\ files[Path(image, t)].holds = I!At(image, u).holds
    BY <1>4, <1>5
  <2>2. Before(u, t) /\ Before(t, u)
    BY <1>5, <2>1 DEF I!Uppermost, Before, Path
  <2>3. /\ t = <<t[1], t[2]>> /\ t[1] \in Nat /\ t[2] \in Nat
        /\ u = <<u[1], u[2]>> /\ u[1] \in Nat /\ u[2] \in Nat
    BY <1>1, PlaceTyped, TarsTyped
  <2>4. t = u
    BY <2>2, <2>3 DEF Before
  <2> QED
    BY <1>4, <2>1, <2>4
<1>6. ASSUME NEW p \in DOMAIN files, I!Seen(p, files[p].size, files[p].holds)
      PROVE  I!Hit(image, p, files[p].holds) \in Owed(image)
  BY <1>4, <1>6 DEF Owed
<1>7. ASSUME NEW t \in I!Regular(image), I!Uppermost(image, t),
             I!Seen(Path(image, t), I!At(image, t).size, I!At(image, t).holds)
      PROVE  \E p \in DOMAIN files : /\ I!Seen(p, files[p].size, files[p].holds)
                                     /\ I!Hit(image, Path(image, t), I!At(image, t).holds)
                                          = I!Hit(image, p, files[p].holds)
  BY <1>5, <1>7
<1> QED
  BY <1>6, <1>7 DEF Owed

LEMMA ScanFilesKeeps == ImageInv /\ I!ScanFiles /\ UNCHANGED tars => ImageInv'
<1> SUFFICES ASSUME ImageInv, I!ScanFiles, UNCHANGED tars, ~I!Abort PROVE ImageInv'
  BY AbortKeeps
<1> DEFINE new == {I!Hit(image, p, files[p].holds) :
                     p \in {q \in DOMAIN files : I!Seen(q, files[q].size, files[q].holds)}}
<1>1. /\ step = "scan" /\ hits' = hits \cup new
      /\ notices' = IF oversize > 0 THEN notices \cup {image} ELSE notices
      /\ UNCHANGED <<tars, outer, inner, files, oversize>>
      /\ \/ image < Len(tars) /\ image' = image + 1 /\ step' = "open" /\ UNCHANGED ended
         \/ ~(image < Len(tars)) /\ step' = "done" /\ ended' = "ok" /\ UNCHANGED image
  BY DEF I!ScanFiles
<1>2. tars \in Images /\ image \in DOMAIN tars /\ oversize \in Nat /\ ended = ""
  BY <1>1 DEF ImageInv, ImageTyped, InTheTars, ImageCounters
<1>8. image \in 1 .. Len(tars) /\ Len(tars) \in Nat /\ DOMAIN tars = 1 .. Len(tars)
  <2>1. tars \in Seq(Seq(I!OuterEntry))
    BY <1>2, TarsTyped
  <2>2. image \in DOMAIN tars
    BY <1>2
  <2> QED
    BY <2>1, <2>2
<1>9. \/ image < Len(tars) /\ image' = image + 1 /\ ~Finished /\ ~Finished'
      \/ ~(image < Len(tars)) /\ image' = image /\ ~Finished /\ Finished'
  BY <1>1, <1>2 DEF Finished
<1>10. oversize \in Nat
  BY <1>2
<1>3. ImageTyped'
  <2>1. ImageCounters'
    BY <1>1 DEF ImageInv, ImageTyped, ImageCounters
  <2>2. InTheTars'
    <3>1. image' \in DOMAIN tars
      BY <1>8, <1>9
    <3> QED
      BY <1>1, <1>2, <3>1 DEF InTheTars
  <2> QED
    BY <2>1, <2>2 DEF ImageTyped
<1>4. Laid'
  BY <1>1 DEF Laid
<1>5. Reported'
  <2> HIDE DEF new
  <2>1. \A i \in DOMAIN tars : Behind(i)' <=> Behind(i) \/ i = image
    BY <1>8, <1>9 DEF Behind
  <2>2. /\ \A h \in hits : h.image \in DOMAIN tars /\ Behind(h.image) /\ h.image # image
        /\ \A i \in notices : i \in DOMAIN tars /\ Behind(i) /\ i # image
        /\ \A i \in DOMAIN tars : Behind(i) /\ i \notin notices => {h \in hits : h.image = i} = Owed(i)
    <3>1. \A i \in DOMAIN tars : Behind(i) => i # image
      BY <1>8, <1>9 DEF Behind
    <3> QED
      BY <1>2, <3>1 DEF ImageInv, Reported
  <2>3. \A h \in new : h.image = image
    BY DEF new, I!Hit
  <2>4. oversize = 0 => new = Owed(image)
    BY <1>1, HitsAreOwed DEF new
  <2>5. ASSUME NEW i \in DOMAIN tars, Behind(i)', i \notin notices'
        PROVE  {h \in hits' : h.image = i} = Owed(i)
    <3>1. CASE i = image
      <4>1. oversize = 0
        <5>1. ~(oversize > 0)
          BY <1>1, <2>5, <3>1
        <5> QED
          BY <1>10, <5>1
      <4>2. {h \in hits' : h.image = i} = new
        BY <1>1, <2>2, <2>3, <3>1
      <4> QED
        BY <2>4, <3>1, <4>1, <4>2
    <3>2. CASE i # image
      <4>1. Behind(i) /\ i \notin notices
        BY <1>1, <2>1, <2>5, <3>2
      <4>2. {h \in hits' : h.image = i} = {h \in hits : h.image = i}
        BY <1>1, <2>3, <3>2
      <4> QED
        BY <2>2, <4>1, <4>2
    <3> QED
      BY <3>1, <3>2
  <2>6. \A h \in hits' : h.image \in DOMAIN tars /\ Behind(h.image)'
    BY <1>1, <1>2, <2>1, <2>2, <2>3
  <2>7. \A i \in notices' : i \in DOMAIN tars /\ Behind(i)'
    BY <1>1, <1>2, <2>1, <2>2
  <2>8. \A i \in DOMAIN tars : Owed(i)' = Owed(i)
    BY <1>1, OwedStays
  <2> QED
    BY <1>1, <2>5, <2>6, <2>7, <2>8 DEF Reported
<1> QED
  BY <1>3, <1>4, <1>5 DEF ImageInv

LEMMA ImageInvariance == SourcesSpec => []ImageInv
<1>1. ASSUME ImageInv, [I!Scan]_tar PROVE ImageInv'
  <2>1. ASSUME I!Torn, UNCHANGED tars PROVE ImageInv'
    BY <1>1, <2>1, AbortKeeps DEF I!Torn
  <2>2. CASE UNCHANGED tar
    <3>1. ImageTyped'
      BY <1>1, <2>2 DEF tar, ImageInv, ImageTyped, InTheTars, ImageCounters
    <3>2. Reported'
      BY <1>1, <2>2, ReportedStays DEF tar, ImageInv
    <3>3. Laid'
      <4>1. Extracted' = Extracted
        BY <2>2 DEF tar, Extracted, Passed, I!Regular, I!Places, I!At
      <4>2. CASE step \in {"outer", "layer", "scan"}
        BY <1>1, <2>2, <4>1, <4>2, LaidStays DEF tar, ImageInv
      <4>3. CASE step \notin {"outer", "layer", "scan"}
        BY <2>2, <4>3 DEF tar, Laid
      <4> QED
        BY <4>2, <4>3
    <3> QED
      BY <3>1, <3>2, <3>3 DEF ImageInv
  <2> QED
    BY <1>1, <2>1, <2>2, OpenKeeps, NextEntryKeeps, LayerEndsKeeps, PassByKeeps, ExtractKeeps,
       ScanFilesKeeps DEF I!Scan
<1> QED
  BY <1>1, ImageInitial, ImageStep, PTL DEF SourcesSpec

\* imagescan.Scan: when a command comes to its end without an error, a tarball
\* without a notice has the findings of its layers laid over each other, and no
\* others, whatever the tarballs hold.
THEOREM EveryImageIsAccountedFor == SourcesSpec => []ImageAccounted
<1>1. ASSUME ImageInv PROVE ImageAccounted
  <2>1. ASSUME ended = "ok", NEW i \in DOMAIN tars, i \notin notices
        PROVE  {h \in hits : h.image = i} = Owed(i)
    BY <1>1, <2>1 DEF ImageInv, Reported, Behind, Finished
  <2> QED
    BY <2>1 DEF ImageAccounted, I!ImageAccounted, Owed, Path
<1> QED
  BY <1>1, ImageInvariance, PTL

-----------------------------------------------------------------------------
(* The tar-bomb budget.                                                    *)

Sizes == [p \in DOMAIN files |-> files[p].size]

\* A file that is written again has its size counted once more, and never less.
BudgetInv ==
    /\ IsFiniteSet(DOMAIN files) /\ \A p \in DOMAIN files : files[p].size \in Nat
    /\ written \in Nat /\ written <= MaxTotalBytes
    /\ I!SumFunctionOnSet(Sizes, DOMAIN files) <= written

LEMMA NothingYet ==
    /\ DOMAIN I!NoFiles = {} /\ IsFiniteSet({}) /\ \A f : I!SumFunctionOnSet(f, {}) = 0
    /\ 0 \in Nat /\ 0 <= 0 /\ 0 <= MaxTotalBytes
<1>1. IsFiniteSet({})
  BY FS_EmptySet
<1>2. ASSUME NEW f PROVE I!SumFunctionOnSet(f, {}) = 0
  <2>1. Sums(f, {})[{}] = 0
    BY <1>1, SumsIs
  <2> QED
    BY <2>1, SumOf
<1>3. 0 <= MaxTotalBytes
  BY SourcesAssumption DEF I!ConstantsOK
<1> QED
  BY <1>1, <1>2, <1>3 DEF I!NoFiles

LEMMA BudgetInitial == SourcesInit => BudgetInv
<1>1. SourcesInit => files = I!NoFiles /\ written = 0
  BY DEF SourcesInit, NoImage, I!Init
<1>2. files = I!NoFiles /\ written = 0 => BudgetInv
  BY NothingYet DEF BudgetInv
<1> QED
  BY <1>1, <1>2

LEMMA BudgetStays == BudgetInv /\ UNCHANGED <<files, written>> => BudgetInv'
BY DEF BudgetInv, Sizes

LEMMA ExtractBudget == ImageInv /\ BudgetInv /\ I!Extract => BudgetInv'
<1> SUFFICES ASSUME ImageInv, BudgetInv, I!Extract, ~I!Abort PROVE BudgetInv'
  BY BudgetStays DEF I!Abort
<1> DEFINE file == tars[image][outer].files[inner]
           path == I!safeJoin(file.name)
           D == DOMAIN files
<1>1. /\ step = "layer" /\ inner <= Len(tars[image][outer].files)
      /\ written' = written + file.size /\ written + file.size <= MaxTotalBytes
      /\ files' = [p \in D \cup {path} |->
                     IF p = path THEN [size |-> file.size, holds |-> file.holds] ELSE files[p]]
  BY DEF I!Extract, I!File, I!Entry, I!WithinBudget
<1>2. file.size \in Nat
  <2>1. /\ tars \in Images /\ image \in DOMAIN tars /\ outer \in DOMAIN tars[image]
        /\ inner \in Nat /\ inner > 0
    BY <1>1 DEF ImageInv, ImageTyped, InTheTars, ImageCounters
  <2>2. tars[image][outer].files \in Seq(I!ImageFile) /\ Len(tars[image][outer].files) \in Nat
    BY <2>1, TarsTyped
  <2>3. file \in I!ImageFile
    BY <1>1, <2>1, <2>2
  <2> QED
    BY <2>3 DEF I!ImageFile
<1> HIDE DEF path, file
<1>3. /\ DOMAIN files' = D \cup {path} /\ files'[path].size = file.size
      /\ \A p \in D : p # path => files'[p] = files[p]
  BY <1>1
<1> DEFINE g == [p \in DOMAIN files' |-> files'[p].size]
<1>4. /\ g[path] = file.size /\ \A p \in D : p # path => g[p] = Sizes[p]
      /\ \A p \in D : Sizes[p] \in Nat
  BY <1>3 DEF BudgetInv, Sizes
<1>5. Sizes' = g
  BY DEF Sizes
<1> HIDE DEF g, D
<1>6. /\ IsFiniteSet(D \cup {path}) /\ I!SumFunctionOnSet(Sizes, D) \in Nat
      /\ I!SumFunctionOnSet(g, D \cup {path}) \in Nat
      /\ I!SumFunctionOnSet(g, D \cup {path}) <= I!SumFunctionOnSet(Sizes, D) + file.size
  BY <1>2, <1>4, SumGrows DEF BudgetInv, D
<1>7. written \in Nat /\ I!SumFunctionOnSet(Sizes, D) <= written
      /\ \A p \in D : files[p].size \in Nat
  BY DEF BudgetInv, D
<1>8. I!SumFunctionOnSet(g, D \cup {path}) <= written'
  <2>1. ASSUME NEW a, NEW b \in Nat, NEW n \in Nat, NEW w \in Nat, a <= b + n, b <= w,
               a \in Nat
        PROVE  a <= w + n
    BY <2>1
  <2> QED
    BY <1>1, <1>2, <1>6, <1>7, <2>1
<1>9. \A p \in D \cup {path} : files'[p].size \in Nat
  BY <1>2, <1>3, <1>7
<1>10. MaxTotalBytes \in Nat
  BY SourcesAssumption DEF I!ConstantsOK
<1> QED
  BY <1>1, <1>2, <1>3, <1>5, <1>6, <1>7, <1>8, <1>9, <1>10 DEF BudgetInv

LEMMA BudgetInvariance == SourcesSpec => []BudgetInv
<1>1. ASSUME ImageInv, BudgetInv, [I!Scan]_tar PROVE BudgetInv'
  <2>1. CASE I!Open
    <3>1. files' = I!NoFiles /\ written' = 0 => BudgetInv'
      BY NothingYet DEF BudgetInv
    <3> QED
      BY <1>1, <2>1, <3>1, BudgetStays DEF I!Open, I!Abort
  <2>2. CASE I!Extract
    BY <1>1, <2>2, ExtractBudget
  <2>3. CASE I!NextEntry \/ I!Torn \/ I!LayerEnds \/ I!PassBy \/ I!ScanFiles \/ UNCHANGED tar
    BY <1>1, <2>3, BudgetStays
       DEF I!NextEntry, I!Torn, I!LayerEnds, I!PassBy, I!ScanFiles, I!Abort, tar
  <2> QED
    BY <1>1, <2>1, <2>2, <2>3 DEF I!Scan
<1> QED
  BY <1>1, BudgetInitial, ImageInvariance, ImageStep, PTL DEF SourcesSpec

\* maxTotalBytes, the guard against a decompression bomb (ImageScan:
\* BudgetKept): what lies in the temporary directory is within the budget at
\* every moment, whatever the layers hold and however often they write a file
\* again.
THEOREM TheBudgetIsKept == SourcesSpec => []BudgetKept
<1>1. BudgetInv => BudgetKept
  <2> SUFFICES ASSUME BudgetInv PROVE BudgetKept
    OBVIOUS
  <2> DEFINE D == DOMAIN files
             sum == I!SumFunctionOnSet(Sizes, D)
  <2>1. IsFiniteSet(D) /\ \A p \in D : Sizes[p] \in Nat
    BY DEF BudgetInv, Sizes
  <2>2. sum \in Nat
    <3> HIDE DEF D
    <3> QED
      BY <2>1, SumOf, SumsTyped
  <2>3. sum <= written /\ written <= MaxTotalBytes /\ written \in Nat /\ MaxTotalBytes \in Nat
    BY SourcesAssumption DEF BudgetInv, I!ConstantsOK
  <2> HIDE DEF sum
  <2>4. sum <= MaxTotalBytes
    BY <2>2, <2>3
  <2> QED
    BY <2>4 DEF BudgetKept, I!BudgetKept, Sizes, sum
<1> QED
  BY <1>1, BudgetInvariance, PTL

-----------------------------------------------------------------------------
(* Which lines of a Rust file are test code: folds, counts and items.       *)

\* e folds a set into b, an element of it at a time: ch is the one to come last.
FoldsTo(e, b, F, ch, D) ==
    e = [s \in D |-> IF s = {} THEN b ELSE F[<<e[s \ {ch[s]}], ch[s]>>]]

LEMMA FoldsExist ==
    ASSUME NEW S, IsFiniteSet(S), NEW b, NEW F, NEW ch,
           \A s \in SUBSET S : s # {} => ch[s] \in s
    PROVE  \E e : FoldsTo(e, b, F, ch, SUBSET S)
<1> DEFINE UpTo(n) == {t \in SUBSET S : Cardinality(t) <= n}
           Bad == {n \in Nat : \A e : ~FoldsTo(e, b, F, ch, UpTo(n))}
<1>1. ASSUME NEW s \in SUBSET S
      PROVE  /\ IsFiniteSet(s) /\ Cardinality(s) \in Nat
             /\ s # {} => /\ ch[s] \in s /\ s \ {ch[s]} \in SUBSET S
                          /\ Cardinality(s \ {ch[s]}) = Cardinality(s) - 1
             /\ Cardinality(s) = 0 => s = {}
  <2>1. IsFiniteSet(s)
    BY FS_Subset
  <2> QED
    BY <2>1, Smaller, FS_CardinalityType, FS_EmptySet
<1>2. ASSUME Bad # {} PROVE FALSE
  <2>1. PICK m \in Bad : \A y \in Bad : m <= y
    <3>1. Bad \subseteq Nat
      OBVIOUS
    <3> HIDE DEF Bad
    <3> QED
      BY <1>2, <3>1, Least
  <2>2. m \in Nat /\ \A e : ~FoldsTo(e, b, F, ch, UpTo(m))
    OBVIOUS
  <2>3. CASE m = 0
    <3> DEFINE e == [s \in UpTo(0) |-> b]
    <3>1. \A s \in UpTo(0) : s = {}
      <4>1. ASSUME NEW s \in SUBSET S, Cardinality(s) <= 0 PROVE s = {}
        <5>1. Cardinality(s) \in Nat /\ (Cardinality(s) = 0 => s = {})
          BY <1>1
        <5> QED
          BY <4>1, <5>1
      <4> QED
        BY <4>1
    <3>2. FoldsTo(e, b, F, ch, UpTo(0))
      BY <3>1 DEF FoldsTo
    <3> QED
      BY <2>2, <2>3, <3>2
  <2>4. CASE m # 0
    <3>1. m - 1 \in Nat /\ m - 1 \notin Bad
      <4> HIDE DEF Bad
      <4> QED
        BY <2>1, <2>2, <2>4
    <3>2. PICK g : FoldsTo(g, b, F, ch, UpTo(m - 1))
      BY <3>1
    <3> DEFINE body(s) == IF s = {} THEN b ELSE F[<<g[s \ {ch[s]}], ch[s]>>]
               e == [s \in UpTo(m) |-> body(s)]
    <3>3. \A s \in UpTo(m - 1) : s \in UpTo(m) /\ g[s] = body(s)
      <4>1. ASSUME NEW s \in UpTo(m - 1) PROVE s \in UpTo(m)
        <5>1. s \in SUBSET S /\ Cardinality(s) <= m - 1 /\ Cardinality(s) \in Nat
          BY <1>1
        <5> QED
          BY <2>2, <5>1
      <4>2. ASSUME NEW s \in UpTo(m - 1) PROVE g[s] = body(s)
        BY <3>2 DEF FoldsTo
      <4> QED
        BY <4>1, <4>2
    <3>4. \A s \in UpTo(m) : s # {} => s \ {ch[s]} \in UpTo(m - 1)
      <4>1. ASSUME NEW s \in SUBSET S, Cardinality(s) <= m, s # {}
            PROVE  s \ {ch[s]} \in SUBSET S /\ Cardinality(s \ {ch[s]}) <= m - 1
        <5>1. /\ Cardinality(s) \in Nat /\ s \ {ch[s]} \in SUBSET S
              /\ Cardinality(s \ {ch[s]}) = Cardinality(s) - 1
          BY <1>1, <4>1
        <5> QED
          BY <2>2, <4>1, <5>1
      <4> QED
        BY <4>1
    <3>5. \A s \in UpTo(m - 1) : e[s] = g[s]
      <4> HIDE DEF UpTo, body
      <4> QED
        BY <3>3
    <3>6. \A s \in UpTo(m) : s # {} => g[s \ {ch[s]}] = e[s \ {ch[s]}]
      <4> HIDE DEF UpTo, e
      <4> QED
        BY <3>4, <3>5
    <3>7. FoldsTo(e, b, F, ch, UpTo(m))
      <4>1. e = [s \in UpTo(m) |-> e[s]] /\ \A s \in UpTo(m) : e[s] = body(s)
        <5> HIDE DEF UpTo, body
        <5> QED
          OBVIOUS
      <4> HIDE DEF e, UpTo
      <4> QED
        BY <3>6, <4>1 DEF FoldsTo
    <3> QED
      BY <2>2, <3>7
  <2> QED
    BY <2>3, <2>4
<1>3. PICK n \in Nat : n = Cardinality(S)
  BY FS_CardinalityType
<1>4. PICK e : FoldsTo(e, b, F, ch, UpTo(n))
  BY <1>2
<1>5. UpTo(n) = SUBSET S
  BY <1>3, FS_Subset
<1> HIDE DEF UpTo
<1> QED
  BY <1>4, <1>5

\* What a fold of values of V gives is one of them.
LEMMA FoldsTyped ==
    ASSUME NEW S, IsFiniteSet(S), NEW V, NEW b \in V, NEW F, NEW ch, NEW e,
           \A s \in SUBSET S : s # {} => ch[s] \in s,
           \A v \in V, x \in S : F[<<v, x>>] \in V,
           FoldsTo(e, b, F, ch, SUBSET S), NEW t \in SUBSET S
    PROVE  e[t] \in V
<1> DEFINE X == {s \in SUBSET S : e[s] \notin V}
<1>1. ASSUME X # {} PROVE FALSE
  <2>1. PICK s \in X : \A x \in s : s \ {x} \notin X
    BY <1>1, Smallest
  <2>2. s \in SUBSET S /\ e[s] \notin V
    OBVIOUS
  <2>3. e[s] = IF s = {} THEN b ELSE F[<<e[s \ {ch[s]}], ch[s]>>]
    BY <2>2 DEF FoldsTo
  <2>4. s # {} => ch[s] \in s /\ s \ {ch[s]} \in SUBSET S /\ e[s \ {ch[s]}] \in V
    BY <2>1, <2>2
  <2> HIDE DEF X
  <2> QED
    BY <2>2, <2>3, <2>4
<1> QED
  BY <1>1

\* Numbers from 1: the largest of them comes last.
LEMMA MaxIs ==
    ASSUME NEW n \in Nat, NEW s \in SUBSET (1 .. n), s # {}
    PROVE  Max(s) \in s /\ \A y \in s : Max(s) >= y
<1> DEFINE N == {n - x : x \in s}
<1>0. \A x \in s : x \in Nat /\ n - x \in Nat
  OBVIOUS
<1>1. N \subseteq Nat /\ N # {}
  BY <1>0
<1>2. PICK m \in N : \A y \in N : m <= y
  <2> HIDE DEF N
  <2> QED
    BY <1>1, Least
<1>3. PICK x \in s : m = n - x
  OBVIOUS
<1>4. ASSUME NEW y \in s PROVE x >= y
  <2>1. n - y \in N
    OBVIOUS
  <2> HIDE DEF N
  <2>2. n - x <= n - y
    BY <1>2, <1>3, <2>1
  <2> QED
    BY <1>0, <2>2
<1> QED
  BY <1>4 DEF Max

LEMMA MaxOfFirst ==
    ASSUME NEW i \in Nat, i > 0
    PROVE  Max(1 .. i) = i /\ (1 .. i) \ {i} = 1 .. i - 1
<1>1. Max(1 .. i) \in 1 .. i /\ Max(1 .. i) >= i
  <2>1. i \in 1 .. i /\ 1 .. i \in SUBSET (1 .. i) /\ 1 .. i # {}
    OBVIOUS
  <2> QED
    BY <2>1, MaxIs
<1> QED
  BY <1>1

\* The folds over the tokens of a line and the lines of a file.
AllCode  == [code |-> <<>>, string |-> FALSE, comment |-> FALSE]
LineRead == [code : Seq(Token), string : BOOLEAN, comment : BOOLEAN]

CharsTo(e, line) ==
    e = [s \in SUBSET DOMAIN line |->
            IF s = {} THEN AllCode ELSE NextChar(e[s \ {Max(s)}], line[Max(s)])]

LEMMA NextCharTyped ==
    ASSUME NEW s \in LineRead, NEW t \in Token PROVE NextChar(s, t) \in LineRead
<1>1. s.code \in Seq(Token) /\ s.string \in BOOLEAN /\ s.comment \in BOOLEAN
  BY DEF LineRead
<1>2. CASE s.comment \/ (s.string /\ t # "quote")
  BY <1>2 DEF NextChar
<1>3. CASE ~s.comment /\ t = "quote"
  <2>1. NextChar(s, t) = [s EXCEPT !.string = ~@]
    BY <1>3 DEF NextChar
  <2> QED
    BY <1>1, <2>1 DEF LineRead
<1>4. CASE ~s.comment /\ ~s.string /\ t = "//"
  <2>1. NextChar(s, t) = [s EXCEPT !.comment = TRUE]
    BY <1>4 DEF NextChar
  <2> QED
    BY <1>1, <2>1 DEF LineRead
<1>5. CASE ~s.comment /\ ~s.string /\ t # "//" /\ t # "quote"
  <2>1. NextChar(s, t) = [s EXCEPT !.code = Append(@, t)]
    BY <1>5 DEF NextChar
  <2>2. Append(s.code, t) \in Seq(Token)
    BY <1>1
  <2> HIDE DEF Token
  <2> QED
    BY <1>1, <2>1, <2>2 DEF LineRead
<1> QED
  BY <1>1, <1>2, <1>3, <1>4, <1>5

LEMMA CodeTyped ==
    ASSUME NEW line \in Line PROVE stripRustNoise(line) \in Seq(Token)
<1> DEFINE S == DOMAIN line
           F == [p \in LineRead \X S |-> NextChar(p[1], line[p[2]])]
           ch == [s \in SUBSET S |-> Max(s)]
<1>1. Len(line) \in Nat /\ S = 1 .. Len(line) /\ \A x \in S : line[x] \in Token
  BY DEF Line
<1>2. IsFiniteSet(S)
  BY <1>1, FS_Interval
<1>3. \A s \in SUBSET S : s # {} => ch[s] \in s
  BY <1>1, MaxIs
<1>4. \A v \in LineRead, x \in S : F[<<v, x>>] = NextChar(v, line[x]) /\ F[<<v, x>>] \in LineRead
  BY <1>1, NextCharTyped
<1>5. AllCode \in LineRead
  BY DEF AllCode, LineRead
<1>6. PICK g : FoldsTo(g, AllCode, F, ch, SUBSET S)
  <2> HIDE DEF F, ch, S
  <2> QED
    BY <1>2, <1>3, FoldsExist
<1>7. \A s \in SUBSET S : g[s] \in LineRead
  <2> HIDE DEF F, ch, S
  <2> QED
    BY <1>2, <1>3, <1>4, <1>5, <1>6, FoldsTyped
<1>8. \E e : CharsTo(e, line)
  <2>1. \A s \in SUBSET S : g[s] = IF s = {} THEN AllCode ELSE F[<<g[s \ {ch[s]}], ch[s]>>]
    <3> HIDE DEF F, ch, S
    <3> QED
      BY <1>6 DEF FoldsTo
  <2>2. \A s \in SUBSET S : g[s] = IF s = {} THEN AllCode ELSE NextChar(g[s \ {Max(s)}], line[Max(s)])
    <3> SUFFICES ASSUME NEW s \in SUBSET S, s # {}
                 PROVE  g[s] = NextChar(g[s \ {Max(s)}], line[Max(s)])
      BY <2>1
    <3>1. g[s] = F[<<g[s \ {ch[s]}], ch[s]>>]
      BY <2>1
    <3>2. ch[s] = Max(s) /\ ch[s] \in S /\ g[s \ {ch[s]}] \in LineRead
      BY <1>3, <1>7
    <3> HIDE DEF F, ch, S
    <3> QED
      BY <1>4, <3>1, <3>2
  <2>3. g = [s \in SUBSET S |-> g[s]]
    BY <1>6 DEF FoldsTo
  <2> HIDE DEF F, ch
  <2> QED
    BY <2>2, <2>3 DEF CharsTo
<1> DEFINE e == CHOOSE x : CharsTo(x, line)
<1>9. CharsTo(e, line)
  BY <1>8
<1>10. stripRustNoise(line) = e[S].code
  BY DEF stripRustNoise, FoldLeft, MapThenFoldSet, CharsTo, AllCode
<1>11. \A s \in SUBSET S : e[s] = IF s = {} THEN AllCode ELSE NextChar(e[s \ {Max(s)}], line[Max(s)])
  <2> HIDE DEF e, F, ch
  <2> QED
    BY <1>9 DEF CharsTo
<1> DEFINE X == {s \in SUBSET S : e[s] \notin LineRead}
<1>12. ASSUME X # {} PROVE FALSE
  <2>1. PICK s \in X : \A x \in s : s \ {x} \notin X
    <3> HIDE DEF e, F, ch
    <3> QED
      BY <1>2, <1>12, Smallest
  <2>2. s \in SUBSET S /\ e[s] \notin LineRead
    OBVIOUS
  <2> HIDE DEF e, F, ch
  <2>3. s # {}
    BY <1>5, <1>11, <2>2
  <2>4. Max(s) \in s
    BY <1>1, <2>2, <2>3, MaxIs
  <2>5. e[s \ {Max(s)}] \in LineRead /\ line[Max(s)] \in Token
    BY <1>1, <2>1, <2>2, <2>4
  <2> QED
    BY <1>11, <2>2, <2>3, <2>5, NextCharTyped
<1>13. e[S] \in LineRead
  BY <1>12
<1> QED
  BY <1>10, <1>13 DEF LineRead

\* A count of tokens is a number, and an occurrence makes it more than zero.
LEMMA CountTyped ==
    ASSUME NEW line \in Line, NEW T
    PROVE  /\ Count(stripRustNoise(line), T) \in Nat
           /\ Count(stripRustNoise(line), T) > 0 <=> \E t \in T : Has(line, t)
<1> DEFINE code == stripRustNoise(line)
           Places == {i \in DOMAIN code : code[i] \in T}
<1>1. code \in Seq(Token)
  BY CodeTyped
<1> HIDE DEF code
<1>2. Len(code) \in Nat /\ DOMAIN code = 1 .. Len(code)
  BY <1>1
<1>3. IsFiniteSet(Places) /\ Cardinality(Places) \in Nat /\ (Cardinality(Places) = 0 <=> Places = {})
  <2>1. IsFiniteSet(1 .. Len(code))
    BY <1>2, FS_Interval
  <2>2. IsFiniteSet(Places)
    BY <1>2, <2>1, FS_Subset
  <2> QED
    BY <2>2, FS_CardinalityType, FS_EmptySet
<1>4. Places # {} <=> \E t \in T : Contains(code, t)
  BY <1>2 DEF Contains
<1>5. Count(code, T) = Cardinality(Places)
  BY DEF Count
<1>6. \A t : Has(line, t) <=> Contains(code, t)
  BY DEF Has, code
<1> HIDE DEF Places
<1>7. Count(code, T) \in Nat /\ (Count(code, T) > 0 <=> \E t \in T : Contains(code, t))
  BY <1>3, <1>4, <1>5
<1> QED
  BY <1>6, <1>7 DEF code

\* The loop over the lines of a file.
Begin    == [rest |-> FALSE, inRegion |-> FALSE, armed |-> FALSE, depth |-> 0, test |-> <<>>]
FileRead == [rest : BOOLEAN, inRegion : BOOLEAN, armed : BOOLEAN, depth : Int,
             test : Seq(BOOLEAN)]

LinesTo(e, lines) ==
    e = [s \in SUBSET DOMAIN lines |->
            IF s = {} THEN Begin ELSE NextLine(e[s \ {Max(s)}], lines[Max(s)])]

LEMMA NextLineTyped ==
    ASSUME NEW s \in FileRead, NEW line \in Line PROVE NextLine(s, line) \in FileRead
<1> DEFINE o == Opens(line)
           c == Closes(line)
           depth == s.depth + o - c
           armed == s.armed \/ Has(line, "cfg")
<1>1. /\ s.rest \in BOOLEAN /\ s.inRegion \in BOOLEAN /\ s.armed \in BOOLEAN
      /\ s.depth \in Int /\ s.test \in Seq(BOOLEAN)
  BY DEF FileRead
<1>2. o \in Int /\ c \in Int /\ armed \in BOOLEAN
  <2>1. o \in Nat /\ c \in Nat
    BY CountTyped DEF Opens, Closes
  <2>2. armed \in BOOLEAN
    BY <1>1
  <2> QED
    BY <2>1, <2>2
<1> HIDE DEF o, c
<1>3. depth \in Int /\ o - c \in Int /\ StillOpen(depth) \in BOOLEAN /\ StillOpen(o - c) \in BOOLEAN
  BY <1>1, <1>2 DEF StillOpen
<1>4. \A t \in BOOLEAN : Append(s.test, t) \in Seq(BOOLEAN)
  BY <1>1
<1>5. CASE s.rest \/ Has(line, "inner")
  <2>1. NextLine(s, line) = [s EXCEPT !.rest = TRUE, !.test = Append(@, TRUE)]
    BY <1>5 DEF NextLine, Marked, FileRead
  <2> QED
    BY <1>4, <2>1 DEF FileRead
<1>6. CASE ~s.rest /\ ~Has(line, "inner") /\ s.inRegion
  <2>1. NextLine(s, line) =
          [s EXCEPT !.depth = depth, !.inRegion = StillOpen(depth), !.test = Append(@, TRUE)]
    BY <1>6 DEF NextLine, Marked, FileRead, o, c
  <2> HIDE DEF depth
  <2> QED
    BY <1>3, <1>4, <2>1 DEF FileRead
<1>7. CASE ~s.rest /\ ~Has(line, "inner") /\ ~s.inRegion /\ armed /\ o > 0
  <2>1. NextLine(s, line) =
          [s EXCEPT !.depth = o - c, !.armed = FALSE, !.inRegion = StillOpen(o - c),
                    !.test = Append(@, TRUE)]
    BY <1>7 DEF NextLine, Marked, FileRead, o, c
  <2> DEFINE d == o - c
  <2> HIDE DEF d
  <2> QED
    BY <1>3, <1>4, <2>1 DEF FileRead, d
<1>8. CASE ~s.rest /\ ~Has(line, "inner") /\ ~s.inRegion /\ ~(armed /\ o > 0)
  <2>1. NextLine(s, line) = [s EXCEPT !.armed = armed, !.test = Append(@, armed)]
    BY <1>8 DEF NextLine, Marked, FileRead, o, c
  <2> HIDE DEF armed
  <2> QED
    BY <1>2, <1>4, <2>1 DEF FileRead
<1> QED
  BY <1>1, <1>5, <1>6, <1>7, <1>8

LEMMA LinesExist == ASSUME NEW lines \in Seq(Line) PROVE \E e : LinesTo(e, lines)
<1> DEFINE S == DOMAIN lines
           F == [p \in FileRead \X S |-> NextLine(p[1], lines[p[2]])]
           ch == [s \in SUBSET S |-> Max(s)]
<1>1. Len(lines) \in Nat /\ S = 1 .. Len(lines) /\ \A x \in S : lines[x] \in Line
  OBVIOUS
<1>2. IsFiniteSet(S)
  BY <1>1, FS_Interval
<1>3. \A s \in SUBSET S : s # {} => ch[s] \in s
  BY <1>1, MaxIs
<1>4. \A v \in FileRead, x \in S : F[<<v, x>>] = NextLine(v, lines[x]) /\ F[<<v, x>>] \in FileRead
  BY <1>1, NextLineTyped
<1>5. Begin \in FileRead
  BY DEF Begin, FileRead
<1>6. PICK g : FoldsTo(g, Begin, F, ch, SUBSET S)
  <2> HIDE DEF F, ch, S
  <2> QED
    BY <1>2, <1>3, FoldsExist
<1>7. \A s \in SUBSET S : g[s] \in FileRead
  <2> HIDE DEF F, ch, S
  <2> QED
    BY <1>2, <1>3, <1>4, <1>5, <1>6, FoldsTyped
<1>8. \A s \in SUBSET S : g[s] = IF s = {} THEN Begin ELSE F[<<g[s \ {ch[s]}], ch[s]>>]
  <2> HIDE DEF F, ch, S
  <2> QED
    BY <1>6 DEF FoldsTo
<1>9. \A s \in SUBSET S : g[s] = IF s = {} THEN Begin ELSE NextLine(g[s \ {Max(s)}], lines[Max(s)])
  <2> SUFFICES ASSUME NEW s \in SUBSET S, s # {}
               PROVE  g[s] = NextLine(g[s \ {Max(s)}], lines[Max(s)])
    BY <1>8
  <2>1. g[s] = F[<<g[s \ {ch[s]}], ch[s]>>]
    BY <1>8
  <2>2. ch[s] = Max(s) /\ ch[s] \in S /\ g[s \ {ch[s]}] \in FileRead
    BY <1>3, <1>7
  <2> HIDE DEF F, ch, S
  <2> QED
    BY <1>4, <2>1, <2>2
<1>10. g = [s \in SUBSET S |-> g[s]]
  BY <1>6 DEF FoldsTo
<1> HIDE DEF F, ch
<1> QED
  BY <1>9, <1>10 DEF LinesTo

\* The variables of rustTestLines after i lines.
After(lines, i) == (CHOOSE e : LinesTo(e, lines))[1 .. i]

LEMMA AfterIs ==
    ASSUME NEW lines \in Seq(Line)
    PROVE  /\ After(lines, 0) = Begin
           /\ \A i \in 1 .. Len(lines) : After(lines, i) = NextLine(After(lines, i - 1), lines[i])
           /\ \A i \in 0 .. Len(lines) : After(lines, i) \in FileRead
           /\ rustTestLines(lines) = After(lines, Len(lines)).test
<1> DEFINE e == CHOOSE x : LinesTo(x, lines)
           S == DOMAIN lines
<1>1. Len(lines) \in Nat /\ S = 1 .. Len(lines) /\ \A x \in S : lines[x] \in Line
  OBVIOUS
<1>2. LinesTo(e, lines)
  BY LinesExist
<1>3. rustTestLines(lines) = e[S].test
  BY DEF rustTestLines, FoldLeft, MapThenFoldSet, LinesTo, Begin
<1>4. \A i : After(lines, i) = e[1 .. i]
  BY DEF After
<1> HIDE DEF e
<1>5. \A s \in SUBSET S : e[s] = IF s = {} THEN Begin ELSE NextLine(e[s \ {Max(s)}], lines[Max(s)])
  BY <1>2 DEF LinesTo
<1>6. After(lines, 0) = Begin
  <2>1. 1 .. 0 = {} /\ {} \in SUBSET S
    OBVIOUS
  <2> QED
    BY <1>4, <1>5, <2>1
<1>7. ASSUME NEW i \in 1 .. Len(lines)
      PROVE  After(lines, i) = NextLine(After(lines, i - 1), lines[i])
  <2>1. 1 .. i \in SUBSET S /\ 1 .. i # {} /\ Max(1 .. i) = i /\ (1 .. i) \ {i} = 1 .. i - 1
    <3>1. i \in Nat /\ i > 0 /\ 1 .. i \in SUBSET S /\ i \in 1 .. i
      BY <1>1
    <3> QED
      BY <3>1, MaxOfFirst
  <2>2. e[1 .. i] = NextLine(e[1 .. i - 1], lines[i])
    BY <1>5, <2>1
  <2> QED
    BY <1>4, <2>2
<1> DEFINE Bad == {i \in 0 .. Len(lines) : After(lines, i) \notin FileRead}
<1>8. ASSUME Bad # {} PROVE FALSE
  <2>1. PICK i \in Bad : \A y \in Bad : i <= y
    <3>1. Bad \subseteq Nat
      OBVIOUS
    <3> HIDE DEF Bad
    <3> QED
      BY <1>8, <3>1, Least
  <2>2. i \in 0 .. Len(lines) /\ After(lines, i) \notin FileRead
    OBVIOUS
  <2>3. i # 0
    <3>1. Begin \in FileRead
      BY DEF Begin, FileRead
    <3> QED
      BY <1>6, <2>2, <3>1
  <2>4. i - 1 \in 0 .. Len(lines) /\ i - 1 \notin Bad /\ i \in 1 .. Len(lines)
    <3>1. i - 1 \in 0 .. Len(lines) /\ i \in 1 .. Len(lines) /\ ~(i <= i - 1)
      BY <1>1, <2>2, <2>3
    <3> HIDE DEF Bad
    <3> QED
      BY <2>1, <3>1
  <2>5. After(lines, i - 1) \in FileRead
    BY <2>4
  <2> HIDE DEF Bad
  <2> QED
    BY <1>1, <1>7, <2>2, <2>4, <2>5, NextLineTyped
<1>9. \A i \in 0 .. Len(lines) : After(lines, i) \in FileRead
  BY <1>8
<1> HIDE DEF Bad, S
<1> QED
  BY <1>1, <1>3, <1>4, <1>6, <1>7, <1>9

LEMMA FileSum == ASSUME NEW S, NEW f PROVE SumFunctionOnSet(f, S) = Sums(f, S)[S]
BY DEF SumFunctionOnSet, FoldFunctionOnSet, MapThenFoldSet, Sums, SumsTo, Chosen

\* Totals over some lines, a line at a time.
LEMMA SumsOfLines ==
    ASSUME NEW n \in Nat, NEW f, \A j \in 1 .. n : f[j] \in Nat, NEW a \in 1 .. n
    PROVE  /\ Sums(f, 1 .. n)[a .. a - 1] = 0
           /\ \A b \in a - 1 .. n : Sums(f, 1 .. n)[a .. b] \in Nat
           /\ \A b \in a .. n :
                /\ Sums(f, 1 .. n)[a .. b] = f[b] + Sums(f, 1 .. n)[a .. b - 1]
                /\ \A k \in a .. b : Sums(f, 1 .. n)[a .. b] >= f[k]
<1> DEFINE N == 1 .. n
           e == Sums(f, N)
<1>1. IsFiniteSet(N) /\ \A j \in N : f[j] \in Nat
  BY FS_Interval
<1>2. /\ a - 1 \in a - 1 .. n /\ a .. a - 1 = {} /\ {} \in SUBSET N
      /\ \A b \in a - 1 .. n : a .. b \in SUBSET N
      /\ \A b \in a .. n : b \in a .. b /\ (a .. b) \ {b} = a .. b - 1 /\ a .. b \in SUBSET N
  OBVIOUS
<1> HIDE DEF N
<1>3. \A t \in SUBSET N : e[t] \in Nat
  BY <1>1, SumsTyped
<1>4. e[{}] = 0
  BY <1>1, <1>2, SumsIs
<1>5. ASSUME NEW t \in SUBSET N, NEW y \in t
      PROVE  e[t] = f[y] + e[t \ {y}] /\ e[t] >= f[y]
  <2>1. e[t] = f[y] + e[t \ {y}]
    BY <1>1, SumsWithout
  <2>2. t \ {y} \in SUBSET N /\ y \in N
    OBVIOUS
  <2> HIDE DEF e
  <2>3. e[t \ {y}] \in Nat /\ f[y] \in Nat
    BY <1>1, <1>3, <2>2
  <2> QED
    BY <2>1, <2>3
<1> HIDE DEF e
<1>6. ASSUME NEW b \in a .. n
      PROVE  e[a .. b] = f[b] + e[a .. b - 1] /\ \A k \in a .. b : e[a .. b] >= f[k]
  <2> DEFINE t == a .. b
  <2>1. t \in SUBSET N /\ b \in t /\ t \ {b} = a .. b - 1
    BY <1>2
  <2> HIDE DEF t
  <2>2. e[t] = f[b] + e[a .. b - 1] /\ \A k \in t : e[t] >= f[k]
    BY <1>5, <2>1
  <2> QED
    BY <2>2 DEF t
<1>7. e[a .. a - 1] = 0 /\ \A b \in a - 1 .. n : e[a .. b] \in Nat
  BY <1>2, <1>3, <1>4
<1> QED
  BY <1>6, <1>7 DEF e, N

LEMMA TotalIs ==
    ASSUME NEW lines \in Seq(Line), NEW a \in 1 .. Len(lines), NEW T
    PROVE  /\ Total(lines, a, a - 1, T) = 0
           /\ \A b \in a - 1 .. Len(lines) : Total(lines, a, b, T) \in Nat
           /\ \A b \in a .. Len(lines) :
                /\ Total(lines, a, b, T) = Count(stripRustNoise(lines[b]), T) + Total(lines, a, b - 1, T)
                /\ \A k \in a .. b : Total(lines, a, b, T) >= Count(stripRustNoise(lines[k]), T)
<1> DEFINE n == Len(lines)
           f == [j \in 1 .. n |-> Count(stripRustNoise(lines[j]), T)]
           e == Sums(f, 1 .. n)
<1>1. n \in Nat /\ a \in Nat /\ IsFiniteSet(1 .. n) /\ \A j \in 1 .. n : lines[j] \in Line
  BY FS_Interval
<1>2. \A j \in 1 .. n : f[j] \in Nat
  BY <1>1, CountTyped
<1>3. ASSUME NEW b \in a - 1 .. n PROVE Total(lines, a, b, T) = e[a .. b]
  <2> DEFINE g == [j \in a .. b |-> Count(stripRustNoise(lines[j]), T)]
  <2>1. a .. b \in SUBSET (1 .. n) /\ \A j \in a .. b : g[j] = f[j]
    BY <1>1
  <2>2. IsFiniteSet(a .. b)
    BY <1>1, <2>1, FS_Subset
  <2>3. Total(lines, a, b, T) = Sums(g, a .. b)[a .. b]
    BY FileSum DEF Total
  <2> HIDE DEF g, f
  <2>4. Sums(g, a .. b)[a .. b] = Sums(f, 1 .. n)[a .. b]
    <3>1. a .. b \in SUBSET (a .. b)
      OBVIOUS
    <3> QED
      BY <1>1, <2>1, <2>2, <3>1, SumsAgree
  <2> QED
    BY <2>3, <2>4
<1>4. /\ e[a .. a - 1] = 0
      /\ \A b \in a - 1 .. n : e[a .. b] \in Nat
      /\ \A b \in a .. n : e[a .. b] = f[b] + e[a .. b - 1] /\ \A k \in a .. b : e[a .. b] >= f[k]
  <2> HIDE DEF f
  <2> QED
    BY <1>1, <1>2, SumsOfLines
<1>7. \A b \in a .. n : /\ b \in a - 1 .. n /\ b - 1 \in a - 1 .. n /\ b \in 1 .. n
                        /\ \A k \in a .. b : k \in 1 .. n
  BY <1>1
<1>8. a - 1 \in a - 1 .. n
  BY <1>1
<1>9. \A j \in 1 .. n : f[j] = Count(stripRustNoise(lines[j]), T)
  OBVIOUS
<1> HIDE DEF e, f
<1>10. Total(lines, a, a - 1, T) = 0
  BY <1>3, <1>4, <1>8
<1>11. \A b \in a - 1 .. n : Total(lines, a, b, T) \in Nat
  BY <1>3, <1>4
<1>12. ASSUME NEW b \in a .. n
       PROVE  /\ Total(lines, a, b, T) = Count(stripRustNoise(lines[b]), T) + Total(lines, a, b - 1, T)
              /\ \A k \in a .. b : Total(lines, a, b, T) >= Count(stripRustNoise(lines[k]), T)
  <2>1. Total(lines, a, b, T) = e[a .. b] /\ Total(lines, a, b - 1, T) = e[a .. b - 1]
    BY <1>3, <1>7
  <2>2. f[b] = Count(stripRustNoise(lines[b]), T)
    BY <1>7, <1>9
  <2>3. \A k \in a .. b : f[k] = Count(stripRustNoise(lines[k]), T)
    BY <1>7, <1>9
  <2> QED
    BY <1>4, <2>1, <2>2, <2>3
<1> QED
  BY <1>10, <1>11, <1>12

Opening == {"{"}
Opened  == {"{", "'{'"}
Closing == {"}"}
Ending  == {"{", ";"}
Marks   == {"{", "}", ";"}

Counted(line, T) == Count(stripRustNoise(line), T)
Plain(line)      == line \in Line /\ ~Has(line, "'{'")

LEMMA CountOfFewer ==
    ASSUME NEW line \in Line, NEW T, NEW R, \A t \in T \ R : ~Has(line, t), R \subseteq T
    PROVE  Counted(line, T) = Counted(line, R)
<1> DEFINE code == stripRustNoise(line)
<1>1. code \in Seq(Token) /\ \A t : Has(line, t) <=> \E i \in 1 .. Len(code) : code[i] = t
  BY CodeTyped DEF Has, Contains
<1> HIDE DEF code
<1>2. {i \in DOMAIN code : code[i] \in T} = {i \in DOMAIN code : code[i] \in R}
  BY <1>1
<1> QED
  BY <1>2 DEF Counted, Count, code

LEMMA PlainCounts ==
    ASSUME NEW line, Plain(line)
    PROVE  /\ Opens(line) = Counted(line, Opening) /\ Closes(line) = Counted(line, Closing)
           /\ \A T : Counted(line, T) \in Nat
           /\ Opens(line) > 0 => Counted(line, Ending) > 0
           /\ Counted(line, Marks) = 0 =>
                Opens(line) = 0 /\ Closes(line) = 0 /\ Counted(line, Ending) = 0
<1>1. line \in Line /\ ~Has(line, "'{'")
  BY DEF Plain
<1>2. ASSUME NEW T PROVE Counted(line, T) \in Nat /\ (Counted(line, T) > 0 <=> \E t \in T : Has(line, t))
  BY <1>1, CountTyped DEF Counted
<1>3. ASSUME NEW T PROVE Counted(line, T) = 0 <=> \A t \in T : ~Has(line, t)
  <2>1. Counted(line, T) \in Nat /\ (Counted(line, T) > 0 <=> \E t \in T : Has(line, t))
    BY <1>2
  <2>2. Counted(line, T) = 0 <=> ~(Counted(line, T) > 0)
    BY <2>1
  <2> QED
    BY <2>1, <2>2
<1>4. Counted(line, Opened) = Counted(line, Opening)
  <2>1. \A t \in Opened \ Opening : t = "'{'"
    BY DEF Opened, Opening
  <2>2. Opening \subseteq Opened
    BY DEF Opened, Opening
  <2>3. \A t \in Opened \ Opening : ~Has(line, t)
    BY <1>1, <2>1
  <2>4. line \in Line
    BY <1>1
  <2> QED
    BY <2>2, <2>3, <2>4, CountOfFewer
<1>5. Opens(line) = Counted(line, Opening) /\ Closes(line) = Counted(line, Closing)
  <2>1. Opens(line) = Counted(line, Opened) /\ Closes(line) = Counted(line, Closing)
    BY DEF Opens, Closes, Counted, Closing, Opened
  <2> QED
    BY <1>4, <2>1
<1>6. Opening \subseteq Ending /\ Opening \subseteq Marks /\ Closing \subseteq Marks /\ Ending \subseteq Marks
  BY DEF Opening, Closing, Ending, Marks
<1>7. Opens(line) > 0 => Counted(line, Ending) > 0
  <2>1. (\E t \in Opening : Has(line, t)) => \E t \in Ending : Has(line, t)
    BY <1>6
  <2> QED
    BY <1>2, <1>5, <2>1
<1>8. Counted(line, Marks) = 0 =>
        Counted(line, Opening) = 0 /\ Counted(line, Closing) = 0 /\ Counted(line, Ending) = 0
  <2>1. (\A t \in Marks : ~Has(line, t)) =>
           /\ \A t \in Opening : ~Has(line, t)
           /\ \A t \in Closing : ~Has(line, t)
           /\ \A t \in Ending : ~Has(line, t)
    BY <1>6
  <2> QED
    BY <1>3, <2>1
<1> QED
  BY <1>2, <1>5, <1>7, <1>8

LEMMA PlainLines ==
    ASSUME NEW lines \in Seq(Line), Tidy(lines)
    PROVE  Len(lines) \in Nat /\ \A j \in 1 .. Len(lines) : Plain(lines[j])
<1>1. Len(lines) \in Nat /\ \A j \in 1 .. Len(lines) : lines[j] \in Line
  OBVIOUS
<1>2. \A j \in 1 .. Len(lines) : ~Has(lines[j], "'{'")
  BY DEF Tidy
<1> QED
  BY <1>1, <1>2 DEF Plain

\* Lines without a brace or semicolon; the item of the attribute at a goes on.
Blank(line)        == Counted(line, Marks) = 0
Quiet(lines, a, i) == \A k \in a .. i : Blank(lines[k])
Going(lines, a, i) == \A e \in a .. i : ~ItemEnded(lines, a, e)

LEMMA EndedIs ==
    ASSUME NEW lines, NEW a, NEW b
    PROVE  /\ Balance(lines, a, b) = Total(lines, a, b, Opening) - Total(lines, a, b, Closing)
           /\ ItemEnded(lines, a, b) <=>
                Balance(lines, a, b) <= 0 /\ Total(lines, a, b, Ending) > 0
  BY DEF Balance, ItemEnded, Opening, Closing, Ending

LEMMA BalanceIs ==
    ASSUME NEW lines \in Seq(Line), Tidy(lines), NEW a \in 1 .. Len(lines)
    PROVE  /\ Balance(lines, a, a - 1) = 0
           /\ \A b \in a - 1 .. Len(lines) : Balance(lines, a, b) \in Int
           /\ \A b \in a .. Len(lines) :
                Balance(lines, a, b) = Balance(lines, a, b - 1) + Opens(lines[b]) - Closes(lines[b])
<1> DEFINE n == Len(lines)
           O(b) == Total(lines, a, b, Opening)
           K(b) == Total(lines, a, b, Closing)
<1>1. n \in Nat /\ \A j \in 1 .. n : Plain(lines[j])
  BY PlainLines
<1>2. \A b : Balance(lines, a, b) = O(b) - K(b)
  BY EndedIs
<1>3. /\ O(a - 1) = 0 /\ K(a - 1) = 0
      /\ \A b \in a - 1 .. n : O(b) \in Nat /\ K(b) \in Nat
      /\ \A b \in a .. n : /\ O(b) = Counted(lines[b], Opening) + O(b - 1)
                           /\ K(b) = Counted(lines[b], Closing) + K(b - 1)
  BY TotalIs DEF Counted
<1> HIDE DEF O, K
<1>4. ASSUME NEW b \in a .. n
      PROVE  /\ Counted(lines[b], Opening) = Opens(lines[b])
             /\ Counted(lines[b], Closing) = Closes(lines[b])
             /\ Opens(lines[b]) \in Nat /\ Closes(lines[b]) \in Nat
             /\ b - 1 \in a - 1 .. n
  <2>1. b \in 1 .. n /\ b - 1 \in a - 1 .. n
    BY <1>1
  <2>2. Plain(lines[b])
    BY <1>1, <2>1
  <2> QED
    BY <2>1, <2>2, PlainCounts
<1>5. ASSUME NEW b \in a .. n
      PROVE  Balance(lines, a, b) = Balance(lines, a, b - 1) + Opens(lines[b]) - Closes(lines[b])
  <2> DEFINE x == O(b - 1)
             y == K(b - 1)
             o == Opens(lines[b])
             c == Closes(lines[b])
  <2>1. x \in Nat /\ y \in Nat /\ o \in Nat /\ c \in Nat /\ O(b) = o + x /\ K(b) = c + y
    BY <1>3, <1>4
  <2>2. Balance(lines, a, b) = O(b) - K(b) /\ Balance(lines, a, b - 1) = x - y
    BY <1>2
  <2> HIDE DEF x, y, o, c
  <2>3. Balance(lines, a, b) = Balance(lines, a, b - 1) + o - c
    BY <2>1, <2>2
  <2> QED
    BY <2>3 DEF o, c
<1>6. Balance(lines, a, a - 1) = 0
  <2>1. Balance(lines, a, a - 1) = O(a - 1) - K(a - 1)
    BY <1>2
  <2>2. O(a - 1) = 0 /\ K(a - 1) = 0
    BY <1>3
  <2> QED
    BY <2>1, <2>2
<1>7. ASSUME NEW b \in a - 1 .. n PROVE Balance(lines, a, b) \in Int
  <2>1. Balance(lines, a, b) = O(b) - K(b) /\ O(b) \in Nat /\ K(b) \in Nat
    BY <1>2, <1>3
  <2> QED
    BY <2>1
<1> QED
  BY <1>5, <1>6, <1>7

\* An item whose braces are closed has ended.
LEMMA EndedIf ==
    ASSUME NEW lines \in Seq(Line), Tidy(lines), NEW a \in 1 .. Len(lines),
           NEW b \in a .. Len(lines), NEW k \in a .. b, Opens(lines[k]) > 0,
           Balance(lines, a, b) <= 0
    PROVE  ItemEnded(lines, a, b)
<1>1. k \in 1 .. Len(lines) /\ b \in a - 1 .. Len(lines)
  OBVIOUS
<1>2. Counted(lines[k], Ending) > 0 /\ Counted(lines[k], Ending) \in Nat
  BY <1>1, PlainLines, PlainCounts
<1>3. Total(lines, a, b, Ending) >= Counted(lines[k], Ending)
  BY TotalIs DEF Counted
<1>4. Total(lines, a, b, Ending) \in Nat
  BY <1>1, TotalIs
<1>5. Total(lines, a, b, Ending) > 0
  BY <1>2, <1>3, <1>4
<1> QED
  BY <1>5, EndedIs

\* An item has not ended while nothing but blank lines has come.
LEMMA QuietIs ==
    ASSUME NEW lines \in Seq(Line), Tidy(lines), NEW a \in 1 .. Len(lines),
           NEW i \in a - 1 .. Len(lines), Quiet(lines, a, i)
    PROVE  Balance(lines, a, i) = 0 /\ Going(lines, a, i)
<1> DEFINE n == Len(lines)
           X(b) == Total(lines, a, b, Ending)
           Bal(b) == Balance(lines, a, b)
           Bad == {b \in a - 1 .. i : X(b) # 0 \/ Bal(b) # 0}
<1>1. n \in Nat /\ a \in Nat /\ a > 0 /\ a <= n /\ i \in Int /\ i <= n
  BY PlainLines
<1>2. ASSUME NEW b \in a .. i
      PROVE  /\ Counted(lines[b], Ending) = 0
             /\ Opens(lines[b]) = 0 /\ Closes(lines[b]) = 0
  <2>1. b \in 1 .. n
    BY <1>1
  <2>2. Plain(lines[b]) /\ Blank(lines[b])
    BY <2>1, PlainLines DEF Quiet
  <2> QED
    BY <2>2, PlainCounts DEF Blank
<1>3. X(a - 1) = 0 /\ Bal(a - 1) = 0
  BY TotalIs, BalanceIs
<1>4. \A b \in a .. n : /\ X(b) = Counted(lines[b], Ending) + X(b - 1)
                        /\ Bal(b) = Bal(b - 1) + Opens(lines[b]) - Closes(lines[b])
  BY TotalIs, BalanceIs DEF Counted
<1> HIDE DEF X, Bal
<1>5. ASSUME NEW b \in a .. i, X(b - 1) = 0, Bal(b - 1) = 0 PROVE X(b) = 0 /\ Bal(b) = 0
  <2>1. b \in a .. n
    BY <1>1
  <2>2. X(b) = 0 + 0 /\ Bal(b) = 0 + 0 - 0
    BY <1>2, <1>4, <1>5, <2>1
  <2> QED
    BY <2>2
<1>6. ASSUME Bad # {} PROVE FALSE
  <2>1. Bad \subseteq Int /\ \A b \in Bad : b \in a - 1 .. i
    BY <1>1
  <2>2. Bad \subseteq Nat
    <3> HIDE DEF Bad
    <3>1. \A b \in a - 1 .. i : b \in Nat
      BY <1>1
    <3> QED
      BY <2>1, <3>1
  <2>3. PICK b \in Bad : \A y \in Bad : b <= y
    <3> HIDE DEF Bad
    <3> QED
      BY <1>6, <2>2, Least
  <2>4. b \in a - 1 .. i /\ (X(b) # 0 \/ Bal(b) # 0)
    OBVIOUS
  <2>5. b \in a .. i /\ b - 1 \in a - 1 .. i /\ ~(b <= b - 1)
    <3>1. b # a - 1
      BY <1>3, <2>4
    <3> HIDE DEF Bad
    <3> QED
      BY <1>1, <2>4, <3>1
  <2>6. b - 1 \notin Bad
    <3> HIDE DEF Bad
    <3> QED
      BY <2>3, <2>5
  <2> QED
    BY <1>5, <2>4, <2>5, <2>6
<1>7. \A b \in a - 1 .. i : X(b) = 0 /\ Bal(b) = 0
  BY <1>6
<1>8. i \in a - 1 .. i /\ \A b \in a .. i : b \in a - 1 .. i
  BY <1>1
<1>9. Balance(lines, a, i) = 0 /\ \A b \in a .. i : ~(Total(lines, a, b, Ending) > 0)
  <2>1. \A b \in a .. i : X(b) = 0
    BY <1>7, <1>8
  <2> QED
    BY <1>7, <1>8, <2>1 DEF X, Bal
<1> QED
  BY <1>9, EndedIs DEF Going

\* The attributes whose item goes on after line i, and those at line k or before
\* it whose item has not ended before it.
Live(lines, i)  == {a \in 1 .. i : Has(lines[a], "cfg") /\ Going(lines, a, i)}
Begun(lines, k) == {a \in 1 .. k : Has(lines[a], "cfg") /\ Going(lines, a, k - 1)}

\* What the variables of rustTestLines say of the attributes up to line i.
Tracks(lines, i, inRegion, armed, depth) ==
    /\ inRegion => /\ ~armed /\ depth > 0
                   /\ \E a \in Live(lines, i) : Balance(lines, a, i) = depth
                   /\ \A a \in Live(lines, i) : Balance(lines, a, i) <= depth
    /\ armed => ~inRegion /\ Live(lines, i) # {} /\ \A a \in Live(lines, i) : Quiet(lines, a, i)
    /\ ~armed /\ ~inRegion => Live(lines, i) = {}

LEMMA LiveIs ==
    ASSUME NEW lines, NEW k \in Nat, k > 0
    PROVE  /\ \A a : a \in Begun(lines, k) <=>
                        a \in Live(lines, k - 1) \/ (a = k /\ Has(lines[k], "cfg"))
           /\ \A a : a \in Live(lines, k) <=> a \in Begun(lines, k) /\ ~ItemEnded(lines, a, k)
<1>1. \A a \in 1 .. k : /\ a \in 1 .. k - 1 \/ a = k
                        /\ a .. k = (a .. k - 1) \cup {k} /\ k .. k - 1 = {}
                        /\ \A e \in a .. k : e \in a .. k - 1 \/ e = k
  OBVIOUS
<1>2. \A a \in 1 .. k - 1 : a \in 1 .. k
  OBVIOUS
<1>3. k \in 1 .. k
  OBVIOUS
<1>4. ASSUME NEW a \in 1 .. k
      PROVE  /\ Going(lines, a, k) <=> Going(lines, a, k - 1) /\ ~ItemEnded(lines, a, k)
             /\ a = k => Going(lines, a, k - 1)
  BY <1>1 DEF Going
<1>5. ASSUME NEW a
      PROVE  a \in Begun(lines, k) <=> a \in Live(lines, k - 1) \/ (a = k /\ Has(lines[k], "cfg"))
  BY <1>1, <1>2, <1>3, <1>4 DEF Begun, Live
<1>6. ASSUME NEW a
      PROVE  a \in Live(lines, k) <=> a \in Begun(lines, k) /\ ~ItemEnded(lines, a, k)
  BY <1>4 DEF Begun, Live
<1> QED
  BY <1>5, <1>6

\* An attribute of a tidy file stands before a block, with nothing in between.
LEMMA Stands ==
    ASSUME NEW lines \in Seq(Line), Tidy(lines), NEW k \in 1 .. Len(lines),
           NEW a \in Begun(lines, k)
    PROVE  /\ a \in 1 .. Len(lines) /\ k \in a .. Len(lines)
           /\ \/ \E b \in a .. k : Opens(lines[b]) > 0
              \/ Quiet(lines, a, k)
<1>1. Len(lines) \in Nat /\ a \in 1 .. k /\ Has(lines[a], "cfg")
  BY PlainLines DEF Begun
<1>2. a \in 1 .. Len(lines) /\ k \in a .. Len(lines)
  BY <1>1
<1>3. PICK b \in a .. Len(lines) :
         Opens(lines[b]) > 0 /\ \A i \in a .. b - 1 : Blank(lines[i])
  BY <1>1, <1>2 DEF Tidy, Blank, Counted, Marks
<1>4. CASE b <= k
  BY <1>1, <1>3, <1>4
<1>5. CASE ~(b <= k)
  <2>1. \A i \in a .. k : i \in a .. b - 1
    BY <1>1, <1>5
  <2>2. Quiet(lines, a, k)
    BY <1>3, <2>1 DEF Quiet
  <2> QED
    BY <1>2, <2>2
<1> QED
  BY <1>2, <1>4, <1>5

\* A line inside a region.
LEMMA InRegion ==
    ASSUME NEW lines \in Seq(Line), Tidy(lines), NEW k \in 1 .. Len(lines),
           NEW depth \in Int, Tracks(lines, k - 1, TRUE, FALSE, depth),
           NEW d, d = depth + Opens(lines[k]) - Closes(lines[k])
    PROVE  /\ Begun(lines, k) # {}
           /\ Tracks(lines, k, StillOpen(d), FALSE, d)
<1> DEFINE o == Opens(lines[k])
           c == Closes(lines[k])
           Bal(a, e) == Balance(lines, a, e)
<1>1. Len(lines) \in Nat /\ k \in Nat /\ k > 0 /\ Plain(lines[k])
  BY PlainLines
<1>2. o \in Nat /\ c \in Nat
  BY <1>1, PlainCounts
<1>3. /\ depth > 0 /\ \E a \in Live(lines, k - 1) : Bal(a, k - 1) = depth
      /\ \A a \in Live(lines, k - 1) : Bal(a, k - 1) <= depth
  BY DEF Tracks
<1>4. /\ \A a : a \in Begun(lines, k) <=> a \in Live(lines, k - 1) \/ (a = k /\ Has(lines[k], "cfg"))
      /\ \A a : a \in Live(lines, k) <=> a \in Begun(lines, k) /\ ~ItemEnded(lines, a, k)
  BY <1>1, LiveIs
<1>5. ASSUME NEW a \in Begun(lines, k)
      PROVE  /\ Bal(a, k) = Bal(a, k - 1) + o - c
             /\ Bal(a, k - 1) <= depth /\ Bal(a, k - 1) \in Int
  <2>1. a \in 1 .. Len(lines) /\ k \in a .. Len(lines) /\ k - 1 \in a - 1 .. Len(lines)
    BY <1>1, Stands
  <2>2. /\ Bal(a, k) = Bal(a, k - 1) + o - c
        /\ Bal(a, k - 1) \in Int /\ Bal(a, a - 1) = 0
    BY <2>1, BalanceIs
  <2> HIDE DEF Bal
  <2>3. a = k => Bal(a, k - 1) = 0
    BY <2>2
  <2> QED
    BY <1>3, <1>4, <2>2, <2>3
<1> HIDE DEF Bal
<1>6. d = depth + o - c
  OBVIOUS
<1> HIDE DEF o, c
<1>7. CASE d > 0
  <2>1. PICK a \in Live(lines, k - 1) : Bal(a, k - 1) = depth
    BY <1>3
  <2>2. a \in Begun(lines, k)
    BY <1>4
  <2>3. Bal(a, k) = d
    BY <1>2, <1>5, <1>6, <2>1, <2>2
  <2>4. ~ItemEnded(lines, a, k)
    <3>1. ~(Bal(a, k) <= 0)
      BY <1>2, <1>6, <1>7, <2>3
    <3> QED
      BY <3>1, EndedIs DEF Bal
  <2>5. a \in Live(lines, k)
    BY <1>4, <2>2, <2>4
  <2>6. \A x \in Live(lines, k) : Bal(x, k) <= d
    BY <1>2, <1>4, <1>5, <1>6
  <2>7. StillOpen(d) = TRUE
    BY <1>7 DEF StillOpen
  <2> QED
    BY <1>7, <2>2, <2>3, <2>5, <2>6, <2>7 DEF Tracks, Bal
<1>8. CASE ~(d > 0)
  <2>1. ASSUME NEW a \in Live(lines, k) PROVE FALSE
    <3>1. a \in Begun(lines, k) /\ ~ItemEnded(lines, a, k)
      BY <1>4
    <3>2. Bal(a, k) <= 0
      BY <1>2, <1>5, <1>6, <1>8, <3>1
    <3>3. a \in 1 .. Len(lines) /\ k \in a .. Len(lines)
      BY <3>1, Stands
    <3>4. CASE \E b \in a .. k : Opens(lines[b]) > 0
      <4>1. PICK b \in a .. k : Opens(lines[b]) > 0
        BY <3>4
      <4>2. ItemEnded(lines, a, k)
        BY <3>2, <3>3, <4>1, EndedIf DEF Bal
      <4> QED
        BY <3>1, <4>2
    <3>5. CASE Quiet(lines, a, k)
      <4>1. k \in a .. k
        BY <3>3
      <4>2. Blank(lines[k])
        BY <3>5, <4>1 DEF Quiet
      <4>3. o = 0 /\ c = 0
        BY <1>1, <4>2, PlainCounts DEF Blank, o, c
      <4> QED
        BY <1>3, <1>6, <1>8, <4>3
    <3> QED
      BY <3>1, <3>4, <3>5, Stands
  <2>2. StillOpen(d) = FALSE /\ Live(lines, k) = {}
    BY <1>8, <2>1 DEF StillOpen
  <2>3. Begun(lines, k) # {}
    BY <1>3, <1>4
  <2> QED
    BY <2>2, <2>3 DEF Tracks
<1> QED
  BY <1>7, <1>8

\* A line outside of a region.
LEMMA OutOfRegion ==
    ASSUME NEW lines \in Seq(Line), Tidy(lines), NEW k \in 1 .. Len(lines),
           NEW armed \in BOOLEAN, NEW depth, Tracks(lines, k - 1, FALSE, armed, depth),
           NEW d, d = Opens(lines[k]) - Closes(lines[k])
    PROVE  /\ armed \/ Has(lines[k], "cfg") <=> Begun(lines, k) # {}
           /\ IF Begun(lines, k) # {} /\ Opens(lines[k]) > 0
                THEN Tracks(lines, k, StillOpen(d), FALSE, d)
                ELSE \A r : Tracks(lines, k, FALSE, Begun(lines, k) # {}, r)
<1> DEFINE o == Opens(lines[k])
           c == Closes(lines[k])
           B == Begun(lines, k)
           Bal(a, e) == Balance(lines, a, e)
<1>1. Len(lines) \in Nat /\ k \in Nat /\ k > 0 /\ Plain(lines[k])
  BY PlainLines
<1>2. o \in Nat /\ c \in Nat
  BY <1>1, PlainCounts
<1>3. /\ armed <=> Live(lines, k - 1) # {}
      /\ \A a \in Live(lines, k - 1) : Quiet(lines, a, k - 1)
  BY DEF Tracks
<1>4. /\ \A a : a \in B <=> a \in Live(lines, k - 1) \/ (a = k /\ Has(lines[k], "cfg"))
      /\ \A a : a \in Live(lines, k) <=> a \in B /\ ~ItemEnded(lines, a, k)
  BY <1>1, LiveIs
<1>5. armed \/ Has(lines[k], "cfg") <=> B # {}
  BY <1>3, <1>4
<1>6. ASSUME NEW a \in B
      PROVE  /\ a \in 1 .. Len(lines) /\ k \in a .. Len(lines)
             /\ Quiet(lines, a, k - 1) /\ Bal(a, k) = o - c
  <2>1. a \in 1 .. Len(lines) /\ k \in a .. Len(lines) /\ k - 1 \in a - 1 .. Len(lines)
    BY <1>1, Stands
  <2>2. Quiet(lines, a, k - 1)
    <3>1. a = k => a .. k - 1 = {}
      BY <1>1
    <3> QED
      BY <1>3, <1>4, <3>1 DEF Quiet
  <2>3. Bal(a, k) = Bal(a, k - 1) + o - c /\ Bal(a, k - 1) = 0
    BY <2>1, <2>2, BalanceIs, QuietIs
  <2> HIDE DEF Bal, o, c
  <2> QED
    BY <1>2, <2>1, <2>2, <2>3
<1>7. d = o - c
  OBVIOUS
<1> HIDE DEF Bal, B, o, c
<1>8. CASE B # {} /\ o > 0 /\ d > 0
  <2>1. PICK a \in B : TRUE
    BY <1>8
  <2>2. ~ItemEnded(lines, a, k)
    <3>1. ~(Bal(a, k) <= 0)
      BY <1>2, <1>6, <1>7, <1>8
    <3> QED
      BY <3>1, EndedIs DEF Bal
  <2>3. a \in Live(lines, k) /\ Bal(a, k) = d
    BY <1>4, <1>6, <1>7, <2>1, <2>2
  <2>4. \A x \in Live(lines, k) : Bal(x, k) <= d
    BY <1>2, <1>4, <1>6, <1>7
  <2>5. StillOpen(d) = TRUE
    BY <1>8 DEF StillOpen
  <2>6. Tracks(lines, k, StillOpen(d), FALSE, d)
    BY <1>8, <2>3, <2>4, <2>5 DEF Tracks, Bal
  <2> QED
    BY <1>5, <1>8, <2>6 DEF B, o
<1>9. CASE B # {} /\ o > 0 /\ ~(d > 0)
  <2>1. ASSUME NEW a \in Live(lines, k) PROVE FALSE
    <3>1. a \in B /\ ~ItemEnded(lines, a, k)
      BY <1>4
    <3>2. Bal(a, k) <= 0 /\ a \in 1 .. Len(lines) /\ k \in a .. Len(lines) /\ k \in a .. k
      BY <1>1, <1>2, <1>6, <1>7, <1>9, <3>1
    <3>3. Balance(lines, a, k) <= 0 /\ Opens(lines[k]) > 0
      BY <1>9, <3>2 DEF Bal, o
    <3>4. ItemEnded(lines, a, k)
      BY <3>2, <3>3, EndedIf
    <3> QED
      BY <3>1, <3>4
  <2>2. StillOpen(d) = FALSE /\ Live(lines, k) = {}
    BY <1>9, <2>1 DEF StillOpen
  <2>3. Tracks(lines, k, StillOpen(d), FALSE, d)
    BY <2>2 DEF Tracks
  <2> QED
    BY <1>5, <1>9, <2>3 DEF B, o
<1>10. CASE B # {} /\ ~(o > 0)
  <2>1. ASSUME NEW a \in B PROVE Quiet(lines, a, k) /\ a \in Live(lines, k)
    <3>1. a \in 1 .. Len(lines) /\ k \in a .. Len(lines) /\ Quiet(lines, a, k - 1)
      BY <1>6
    <3>2. ASSUME NEW b \in a .. k, Opens(lines[b]) > 0 PROVE FALSE
      <4>1. b \in a .. k - 1
        <5>1. b # k
          BY <1>10, <3>2 DEF o
        <5> QED
          BY <1>1, <3>1, <5>1
      <4>2. Blank(lines[b]) /\ Plain(lines[b])
        <5>1. b \in 1 .. Len(lines)
          BY <1>1, <3>1
        <5> QED
          BY <3>1, <4>1, <5>1, PlainLines DEF Quiet
      <4>3. Opens(lines[b]) = 0
        BY <4>2, PlainCounts DEF Blank
      <4> QED
        BY <3>2, <4>3
    <3>3. Quiet(lines, a, k)
      BY <3>2, Stands DEF B
    <3>4. k \in a - 1 .. Len(lines) /\ k \in a .. k
      BY <1>1, <3>1
    <3>5. Going(lines, a, k)
      BY <3>1, <3>3, <3>4, QuietIs
    <3> QED
      BY <1>4, <3>3, <3>4, <3>5 DEF Going
  <2>2. \A a \in Live(lines, k) : a \in B
    BY <1>4
  <2>3. \A r : Tracks(lines, k, FALSE, TRUE, r)
    BY <1>10, <2>1, <2>2 DEF Tracks
  <2> QED
    BY <1>5, <1>10, <2>3 DEF B, o
<1>11. CASE B = {}
  <2>1. \A r : Tracks(lines, k, FALSE, FALSE, r)
    BY <1>4, <1>11 DEF Tracks
  <2> QED
    BY <1>5, <1>11, <2>1 DEF B
<1> QED
  BY <1>8, <1>9, <1>10, <1>11

InnerUpTo(lines, i) == \E a \in 1 .. i : Has(lines[a], "inner")

LEMMA InTestItemIs ==
    ASSUME NEW lines \in Seq(Line), Tidy(lines), NEW k \in 1 .. Len(lines)
    PROVE  InTestItem(lines, k) <=> InnerUpTo(lines, k) \/ Begun(lines, k) # {}
<1>1. Len(lines) \in Nat
  BY PlainLines
<1>2. ASSUME NEW a \in 1 .. k, Has(lines[a], "inner")
      PROVE  \A e \in a .. k - 1 : Balance(lines, a, e) >= 0
  <2>1. a \in 1 .. Len(lines) /\ \A e \in a .. k - 1 : e \in a .. Len(lines)
    BY <1>1
  <2>2. \A e \in a .. Len(lines) : Balance(lines, a, e) >= 0
    BY <1>2, <2>1 DEF Tidy
  <2> QED
    BY <2>1, <2>2
<1>3. InTestItem(lines, k) <=>
        \/ \E a \in 1 .. k : Has(lines[a], "cfg") /\ Going(lines, a, k - 1)
        \/ \E a \in 1 .. k : Has(lines[a], "inner")
  BY <1>2 DEF InTestItem, Going
<1> QED
  BY <1>3 DEF Begun, InnerUpTo

\* What rustTestLines has found after i lines.
Right(lines, i, s) ==
    /\ Len(s.test) = i
    /\ \A j \in 1 .. i : s.test[j] <=> InTestItem(lines, j)
    /\ s.rest <=> InnerUpTo(lines, i)
    /\ ~s.rest => Tracks(lines, i, s.inRegion, s.armed, s.depth)

LEMMA OneMore ==
    ASSUME NEW n \in Nat, NEW t \in Seq(BOOLEAN), Len(t) = n, NEW b \in BOOLEAN
    PROVE  /\ Len(Append(t, b)) = n + 1 /\ Append(t, b)[n + 1] = b
           /\ \A j \in 1 .. n : Append(t, b)[j] = t[j]
  OBVIOUS

LEMMA RightStep ==
    ASSUME NEW lines \in Seq(Line), Tidy(lines), NEW k \in 1 .. Len(lines),
           NEW s \in FileRead, Right(lines, k - 1, s)
    PROVE  Right(lines, k, NextLine(s, lines[k]))
<1> DEFINE line == lines[k]
           r == NextLine(s, line)
           o == Opens(line)
           c == Closes(line)
           B == Begun(lines, k)
           armed == s.armed \/ Has(line, "cfg")
<1>1. /\ s.rest \in BOOLEAN /\ s.inRegion \in BOOLEAN /\ s.armed \in BOOLEAN
      /\ s.depth \in Int /\ s.test \in Seq(BOOLEAN)
  BY DEF FileRead
<1>2. Len(lines) \in Nat /\ k - 1 \in Nat /\ k \in Nat /\ k - 1 + 1 = k /\ line \in Line
  BY PlainLines
<1>3. r \in FileRead
  BY <1>2, NextLineTyped
<1>4. /\ Len(s.test) = k - 1 /\ \A j \in 1 .. k - 1 : s.test[j] <=> InTestItem(lines, j)
      /\ s.rest <=> InnerUpTo(lines, k - 1)
      /\ ~s.rest => Tracks(lines, k - 1, s.inRegion, s.armed, s.depth)
  BY DEF Right
<1>5. InnerUpTo(lines, k) <=> InnerUpTo(lines, k - 1) \/ Has(line, "inner")
  <2>1. \A a : a \in 1 .. k <=> a \in 1 .. k - 1 \/ a = k
    BY <1>2
  <2> QED
    BY <2>1 DEF InnerUpTo
<1>6. InTestItem(lines, k) <=> InnerUpTo(lines, k) \/ B # {}
  BY InTestItemIs
<1>7. ASSUME NEW b \in BOOLEAN, r.test = Append(s.test, b), b <=> InTestItem(lines, k)
      PROVE  Len(r.test) = k /\ \A j \in 1 .. k : r.test[j] <=> InTestItem(lines, j)
  <2> DEFINE t == s.test
  <2>1. /\ Len(Append(t, b)) = k /\ Append(t, b)[k] = b
        /\ \A j \in 1 .. k - 1 : Append(t, b)[j] = t[j]
    BY <1>1, <1>2, <1>4, OneMore
  <2>2. \A j \in 1 .. k : j \in 1 .. k - 1 \/ j = k
    BY <1>2
  <2> HIDE DEF r
  <2> QED
    BY <1>4, <1>7, <2>1, <2>2
<1> HIDE DEF o, c, B
<1>8. CASE s.rest \/ Has(line, "inner")
  <2>1. r = [s EXCEPT !.rest = TRUE, !.test = Append(@, TRUE)]
    BY <1>8 DEF NextLine, Marked, FileRead
  <2>2. r.rest = TRUE /\ r.test = Append(s.test, TRUE)
    BY <2>1 DEF FileRead
  <2>3. InnerUpTo(lines, k) /\ InTestItem(lines, k)
    BY <1>4, <1>5, <1>6, <1>8
  <2> HIDE DEF r
  <2>4. Len(r.test) = k /\ \A j \in 1 .. k : r.test[j] <=> InTestItem(lines, j)
    BY <1>7, <2>2, <2>3
  <2>5. Right(lines, k, r)
    BY <2>2, <2>3, <2>4 DEF Right
  <2> QED
    BY <2>5 DEF r
<1>9. CASE ~s.rest /\ ~Has(line, "inner")
  <2> DEFINE d == s.depth + o - c
             d2 == o - c
  <2>1. ~InnerUpTo(lines, k) /\ (InTestItem(lines, k) <=> B # {})
    BY <1>4, <1>5, <1>6, <1>9
  <2>2. Tracks(lines, k - 1, s.inRegion, s.armed, s.depth)
    BY <1>4, <1>9
  <2>3. ASSUME NEW b \in BOOLEAN, r.test = Append(s.test, b), b <=> B # {}, r.rest = FALSE,
               Tracks(lines, k, r.inRegion, r.armed, r.depth)
        PROVE  Right(lines, k, r)
    <3> HIDE DEF r
    <3>1. Len(r.test) = k /\ \A j \in 1 .. k : r.test[j] <=> InTestItem(lines, j)
      BY <1>7, <2>1, <2>3
    <3> QED
      BY <2>1, <2>3, <3>1 DEF Right
  <2>4. CASE s.inRegion
    <3>1. r = [s EXCEPT !.depth = d, !.inRegion = StillOpen(d), !.test = Append(@, TRUE)]
      BY <1>9, <2>4 DEF NextLine, Marked, FileRead, o, c
    <3>2. s.inRegion = TRUE /\ s.armed = FALSE
      BY <1>1, <2>2, <2>4 DEF Tracks
    <3> HIDE DEF d
    <3>3. /\ r.rest = FALSE /\ r.test = Append(s.test, TRUE)
          /\ r.inRegion = StillOpen(d) /\ r.armed = FALSE /\ r.depth = d
      BY <1>1, <1>9, <3>1, <3>2 DEF FileRead
    <3>4. Tracks(lines, k - 1, TRUE, FALSE, s.depth)
      BY <2>2, <3>2
    <3>5. d = s.depth + Opens(lines[k]) - Closes(lines[k])
      BY DEF d, o, c
    <3>6. B # {} /\ Tracks(lines, k, StillOpen(d), FALSE, d)
      <4> DEFINE depth == s.depth
      <4>1. depth \in Int /\ Tracks(lines, k - 1, TRUE, FALSE, depth)
        BY <1>1, <3>4
      <4>2. d = depth + Opens(lines[k]) - Closes(lines[k])
        BY <3>5
      <4> HIDE DEF depth
      <4> QED
        BY <4>1, <4>2, InRegion DEF B
    <3> HIDE DEF r
    <3>7. Right(lines, k, r)
      BY <2>3, <3>3, <3>6
    <3> QED
      BY <3>7 DEF r
  <2>5. CASE ~s.inRegion
    <3>1. /\ armed <=> B # {}
          /\ IF B # {} /\ o > 0
               THEN Tracks(lines, k, StillOpen(d2), FALSE, d2)
               ELSE \A x : Tracks(lines, k, FALSE, B # {}, x)
      <4> DEFINE u == s.armed
                 v == s.depth
      <4>1. u \in BOOLEAN /\ Tracks(lines, k - 1, FALSE, u, v)
        <5>1. s.inRegion = FALSE
          BY <1>1, <2>5
        <5> QED
          BY <1>1, <2>2, <5>1
      <4>2. d2 = Opens(lines[k]) - Closes(lines[k])
        BY DEF o, c
      <4> HIDE DEF u, v, d2
      <4>3. /\ u \/ Has(lines[k], "cfg") <=> B # {}
            /\ IF B # {} /\ Opens(lines[k]) > 0
                 THEN Tracks(lines, k, StillOpen(d2), FALSE, d2)
                 ELSE \A x : Tracks(lines, k, FALSE, B # {}, x)
        BY <4>1, <4>2, OutOfRegion DEF B
      <4> QED
        BY <4>3 DEF u, o
    <3>2. CASE armed /\ o > 0
      <4>1. r = [s EXCEPT !.depth = d2, !.armed = FALSE, !.inRegion = StillOpen(d2),
                          !.test = Append(@, TRUE)]
        BY <1>9, <2>5, <3>2 DEF NextLine, Marked, FileRead, o, c
      <4> HIDE DEF d2
      <4>2. /\ r.rest = FALSE /\ r.test = Append(s.test, TRUE)
            /\ r.inRegion = StillOpen(d2) /\ r.armed = FALSE /\ r.depth = d2
        BY <1>1, <1>9, <4>1 DEF FileRead
      <4>3. B # {} /\ Tracks(lines, k, StillOpen(d2), FALSE, d2)
        BY <3>1, <3>2
      <4> HIDE DEF r
      <4>4. Right(lines, k, r)
        BY <2>3, <4>2, <4>3
      <4> QED
        BY <4>4 DEF r
    <3>3. CASE ~(armed /\ o > 0)
      <4>1. r = [s EXCEPT !.armed = armed, !.test = Append(@, armed)]
        BY <1>9, <2>5, <3>3 DEF NextLine, Marked, FileRead, o, c
      <4>2. armed \in BOOLEAN /\ armed = (B # {})
        BY <1>1, <3>1
      <4> HIDE DEF armed
      <4>3. /\ r.rest = FALSE /\ r.test = Append(s.test, armed)
            /\ r.inRegion = FALSE /\ r.armed = armed /\ r.depth = s.depth
        BY <1>1, <1>9, <2>5, <4>1 DEF FileRead
      <4>4. Tracks(lines, k, FALSE, armed, s.depth)
        BY <3>1, <3>3, <4>2
      <4> HIDE DEF r
      <4>5. Right(lines, k, r)
        BY <2>3, <4>2, <4>3, <4>4
      <4> QED
        BY <4>5 DEF r
    <3> QED
      BY <3>2, <3>3
  <2> QED
    BY <2>4, <2>5
<1> QED
  BY <1>1, <1>8, <1>9

\* On a tidy file rustTestLines says what Rust says.
LEMMA TestLinesRight ==
    ASSUME NEW lines \in Seq(Line), Tidy(lines)
    PROVE  /\ rustTestLines(lines) \in Seq(BOOLEAN) /\ Len(rustTestLines(lines)) = Len(lines)
           /\ \A j \in 1 .. Len(lines) : rustTestLines(lines)[j] <=> InTestItem(lines, j)
<1> DEFINE n == Len(lines)
           Bad == {i \in 0 .. n : ~Right(lines, i, After(lines, i))}
<1>1. n \in Nat
  BY PlainLines
<1>2. /\ After(lines, 0) = Begin
      /\ \A i \in 1 .. n : After(lines, i) = NextLine(After(lines, i - 1), lines[i])
      /\ \A i \in 0 .. n : After(lines, i) \in FileRead
      /\ rustTestLines(lines) = After(lines, n).test
  BY AfterIs
<1>3. Right(lines, 0, Begin)
  <2>1. 1 .. 0 = {}
    OBVIOUS
  <2> QED
    BY <2>1 DEF Right, Begin, Tracks, Live, InnerUpTo
<1>4. ASSUME Bad # {} PROVE FALSE
  <2>1. PICK i \in Bad : \A y \in Bad : i <= y
    <3>1. Bad \subseteq Nat
      BY <1>1
    <3> HIDE DEF Bad
    <3> QED
      BY <1>4, <3>1, Least
  <2>2. i \in 0 .. n /\ ~Right(lines, i, After(lines, i))
    OBVIOUS
  <2>3. i # 0
    BY <1>2, <1>3, <2>2
  <2>4. i \in 1 .. n /\ i - 1 \in 0 .. n /\ i - 1 \notin Bad
    <3>1. i \in 1 .. n /\ i - 1 \in 0 .. n /\ ~(i <= i - 1)
      BY <1>1, <2>2, <2>3
    <3> HIDE DEF Bad
    <3> QED
      BY <2>1, <3>1
  <2>5. Right(lines, i - 1, After(lines, i - 1)) /\ After(lines, i - 1) \in FileRead
    BY <1>2, <2>4
  <2> DEFINE s == After(lines, i - 1)
  <2>6. Right(lines, i, NextLine(s, lines[i]))
    <3> HIDE DEF s, Bad
    <3> QED
      BY <2>4, <2>5, RightStep DEF s
  <2> QED
    BY <1>2, <2>2, <2>4, <2>6
<1>5. n \in 0 .. n
  BY <1>1
<1>6. Right(lines, n, After(lines, n)) /\ After(lines, n) \in FileRead
  BY <1>2, <1>4, <1>5
<1> QED
  BY <1>2, <1>6 DEF Right, FileRead

-----------------------------------------------------------------------------
(* `qryx scan` and `qryx fix`.                                             *)

LEMMA TreeTyped ==
    /\ Len(Tree) \in Nat /\ Len(Tree) > 0 /\ DOMAIN Tree = Node
    /\ \A e \in Node : Tree[e] \in Entry /\ e \in Nat
    /\ \A d \in Node : \A e \in Children(d) : e > d
<1>1. Len(Tree) \in Nat /\ DOMAIN Tree = Node /\ \A e \in Node : Tree[e] \in Entry /\ e \in Nat
  BY TreeAssumption DEF Node
<1>2. ASSUME NEW d \in Node, NEW e \in Children(d) PROVE e > d
  BY <1>1, TreeAssumption DEF Children, Node
<1> QED
  BY <1>1, <1>2, TreeAssumption

\* The walk goes to the next entry that is listed, and passes none.
LEMMA FollowingIs ==
    ASSUME NEW entries \in SUBSET Node, NEW e \in Node
    PROVE  /\ Following(entries, e) \in 1 .. Len(Tree) + 1
           /\ \A x \in entries : x < Following(entries, e) => x < e \/ x = e
<1> DEFINE T == {x \in entries : x > e} \cup {Len(Tree) + 1}
<1>1. T \subseteq Nat /\ T # {} /\ T \subseteq 1 .. Len(Tree) + 1
  <2>1. Len(Tree) \in Nat
    BY TreeTyped
  <2>2. \A x \in entries : x \in 1 .. Len(Tree)
    BY DEF Node
  <2>3. T \subseteq entries \cup {Len(Tree) + 1} /\ Len(Tree) + 1 \in T
    OBVIOUS
  <2> HIDE DEF T
  <2>4. \A x \in T : x \in 1 .. Len(Tree) + 1
    BY <2>1, <2>2, <2>3
  <2> QED
    BY <2>3, <2>4
<1>2. \E x \in T : \A y \in T : x <= y
  BY <1>1, Least
<1>3. Min(T) \in T /\ \A y \in T : Min(T) <= y
  BY <1>2 DEF Min
<1>4. Following(entries, e) = Min(T)
  BY DEF Following
<1>5. ASSUME NEW x \in entries, x < Min(T) PROVE x < e \/ x = e
  <2>1. x \in Nat /\ e \in Nat /\ Min(T) \in Nat
    BY <1>1, <1>3, TreeTyped
  <2>2. ~(x > e)
    BY <1>3, <1>5, <2>1
  <2> QED
    BY <2>1, <2>2
<1> QED
  BY <1>1, <1>3, <1>4, <1>5

Active == pc \in {"walk", "read", "done"}

ResultTyped ==
    /\ DOMAIN res = {"FilesWalked", "Findings", "Unreadable", "Oversize", "Unparsed"}
    /\ res.Unreadable \in Nat /\ res.Oversize \in Nat

CountsTyped ==
    /\ unparsed \in Nat /\ before \in Nat /\ before <= unparsed
    /\ cursor \in 1 .. Len(Tree) + 1

WalkTyped ==
    /\ ResultTyped /\ CountsTyped
    /\ listed \subseteq Node /\ read \subseteq Node
    /\ pc \in {"idle", "walk", "read", "done"}
    /\ pc = "read" => cursor \in Node /\ Wanted(cursor)
    /\ content \in Contents

\* What is gone now was gone at some moment of the scan.
GoneIsAbsent == Active => \A e \in Node : disk[e] = "gone" => e \in absent

\* A directory the walk has passed is skipped, counted, or has all its entries
\* listed that were there.
DirsExamined ==
    Active =>
        /\ 1 \in listed
        /\ \A d \in listed : d < cursor /\ Tree[d].kind = "dir" /\ ~Tree[d].skip =>
              res.Unreadable > 0 \/ Children(d) \subseteq listed \cup absent

\* A file the walk has passed is unwanted, counted or read.
FilesExamined ==
    Active => \A e \in listed : e < cursor /\ Wanted(e) =>
                  res.Unreadable > 0 \/ res.Oversize > 0 \/ e \in read

HasAll(e) ==
    \A det \in Tree[e].wants, j \in KeyLines(content[e].lines) :
        \E f \in res.Findings : f.file = e /\ f.det = det /\ f.line = j

\* What was read has all its findings, but for a parser that counted it.
ReadIsFound == Active => \A e \in read : HasAll(e) \/ before < unparsed

DoneIsDone == pc = "done" => cursor \notin Node /\ res.Unparsed = unparsed - before

WalkInv == /\ WalkTyped /\ GoneIsAbsent /\ DirsExamined /\ FilesExamined
           /\ ReadIsFound /\ DoneIsDone

\* One more in a count of the result, and nothing else.
LEMMA CountOne ==
    ASSUME ResultTyped
    PROVE  /\ res' = [res EXCEPT !.Unreadable = @ + 1] =>
                 /\ ResultTyped' /\ res'.Unreadable > 0
                 /\ res'.Findings = res.Findings /\ res'.Oversize = res.Oversize
           /\ res' = [res EXCEPT !.Oversize = @ + 1] =>
                 /\ ResultTyped' /\ res'.Oversize > 0
                 /\ res'.Findings = res.Findings /\ res'.Unreadable = res.Unreadable
<1>1. ASSUME res' = [res EXCEPT !.Unreadable = @ + 1]
      PROVE  /\ res'.Unreadable = res.Unreadable + 1 /\ DOMAIN res' = DOMAIN res
             /\ res'.Findings = res.Findings /\ res'.Oversize = res.Oversize
  BY <1>1 DEF ResultTyped
<1>2. ASSUME res' = [res EXCEPT !.Oversize = @ + 1]
      PROVE  /\ res'.Oversize = res.Oversize + 1 /\ DOMAIN res' = DOMAIN res
             /\ res'.Findings = res.Findings /\ res'.Unreadable = res.Unreadable
  BY <1>2 DEF ResultTyped
<1> QED
  BY <1>1, <1>2 DEF ResultTyped

LEMMA WalkStep ==
    [SourcesNext]_allVars =>
        Walk \/ StartFails \/ Start \/ (\E e \in Node : Change(e)) \/ UNCHANGED vars
  BY DEF SourcesNext, Work, Outside, allVars

LEMMA WalkInitial == SourcesInit => WalkInv
<1> SUFFICES ASSUME SourcesInit PROVE WalkInv
  OBVIOUS
<1>1. Init
  BY DEF SourcesInit, NoWalk
<1>2. ResultTyped
  BY <1>1 DEF Init, NoResult, ResultTyped
<1>3. CountsTyped
  <2>1. unparsed = 0 /\ before = 0 /\ cursor = 1
    BY <1>1 DEF Init
  <2> QED
    BY <2>1, TreeTyped DEF CountsTyped
<1>4. pc = "idle" /\ listed = {} /\ read = {} /\ content \in Contents
  BY <1>1 DEF Init
<1> QED
  BY <1>2, <1>3, <1>4 DEF WalkInv, WalkTyped, Active, GoneIsAbsent, DirsExamined, FilesExamined,
                          ReadIsFound, DoneIsDone

LEMMA ChangeKeeps == ASSUME WalkInv, NEW e \in Node, Change(e) PROVE WalkInv'
<1>1. /\ UNCHANGED <<content, pc, listed, cursor, res, unparsed, before, scans, read>>
      /\ absent \subseteq absent'
      /\ \A x \in Node : disk'[x] = "gone" => disk[x] = "gone" \/ x \in absent'
  BY DEF Change
<1>2. WalkTyped'
  BY <1>1 DEF WalkInv, WalkTyped, ResultTyped, CountsTyped
<1>3. GoneIsAbsent'
  BY <1>1 DEF WalkInv, GoneIsAbsent, Active
<1>4. DirsExamined'
  BY <1>1 DEF WalkInv, DirsExamined, Active
<1>5. FilesExamined' /\ ReadIsFound' /\ DoneIsDone'
  BY <1>1 DEF WalkInv, FilesExamined, ReadIsFound, HasAll, DoneIsDone, Active
<1> QED
  BY <1>2, <1>3, <1>4, <1>5 DEF WalkInv

LEMMA StartKeeps == WalkInv /\ (StartFails \/ Start) => WalkInv'
<1>1. ASSUME WalkInv, StartFails PROVE WalkInv'
  <2>1. pc' = "idle" /\ UNCHANGED <<listed, cursor, res, unparsed, before, read, absent, tree>>
    BY <1>1 DEF StartFails
  <2>2. WalkTyped'
    BY <1>1, <2>1 DEF WalkInv, WalkTyped, ResultTyped, CountsTyped, tree
  <2> QED
    BY <2>1, <2>2 DEF WalkInv, GoneIsAbsent, DirsExamined, FilesExamined, ReadIsFound, DoneIsDone,
                      Active
<1>2. ASSUME WalkInv, Start PROVE WalkInv'
  <2>1. /\ pc' = "walk" /\ listed' = {1} /\ cursor' = 1 /\ res' = NoResult
        /\ before' = unparsed /\ unparsed' = unparsed
        /\ read' = {} /\ absent' = {e \in Node : disk[e] = "gone"} /\ UNCHANGED tree
    BY <1>2 DEF Start
  <2>2. ResultTyped'
    BY <2>1 DEF NoResult, ResultTyped
  <2>3. CountsTyped'
    <3>1. before' = unparsed /\ unparsed' = unparsed /\ cursor' = 1
      BY <2>1
    <3>2. unparsed \in Nat
      BY <1>2 DEF WalkInv, WalkTyped, CountsTyped
    <3> QED
      BY <3>1, <3>2, TreeTyped DEF CountsTyped
  <2>4. WalkTyped'
    <3>1. 1 \in Node
      BY TreeTyped DEF Node
    <3> QED
      BY <1>2, <2>1, <2>2, <2>3, <3>1 DEF WalkInv, WalkTyped, tree
  <2>5. GoneIsAbsent'
    BY <2>1 DEF GoneIsAbsent, tree
  <2>6. \A d \in listed' : ~(d < cursor')
    BY <2>1
  <2> QED
    BY <2>1, <2>4, <2>5, <2>6 DEF WalkInv, DirsExamined, FilesExamined, ReadIsFound, DoneIsDone
<1> QED
  BY <1>1, <1>2

LEMMA VisitDirKeeps == WalkInv /\ VisitDir => WalkInv'
<1> SUFFICES ASSUME WalkInv, VisitDir PROVE WalkInv'
  OBVIOUS
<1>1. /\ pc = "walk" /\ pc' = pc /\ Active /\ Active'
      /\ UNCHANGED <<unparsed, before, read, absent, disk, content>>
  BY DEF VisitDir, tree, Active
<1>2. /\ cursor \in Node /\ Tree[cursor].kind = "dir" /\ cursor' = Following(listed', cursor)
      /\ listed \subseteq Node /\ ResultTyped /\ unparsed \in Nat /\ before \in Nat
  BY DEF VisitDir, WalkInv, WalkTyped, CountsTyped
<1>3. /\ listed' \subseteq Node /\ listed \subseteq listed'
      /\ \A x \in listed' : x \in listed \/ x \in Children(cursor)
  BY <1>2 DEF VisitDir, Children
<1>4. /\ cursor' \in 1 .. Len(Tree) + 1
      /\ \A x \in listed' : x < cursor' => x < cursor \/ x = cursor
  BY <1>2, <1>3, FollowingIs
<1>5. \A x \in listed' : x < cursor \/ x = cursor => x \in listed
  <2>1. \A x \in Children(cursor) : x \in Node /\ x > cursor
    BY <1>2, TreeTyped DEF Children
  <2>2. \A x \in Children(cursor) : ~(x < cursor \/ x = cursor)
    BY <2>1, <1>2, TreeTyped
  <2> QED
    BY <1>3, <2>2
<1>6. /\ ResultTyped' /\ res'.Findings = res.Findings /\ res'.Oversize = res.Oversize
      /\ res.Unreadable > 0 => res'.Unreadable > 0
      /\ ~Tree[cursor].skip /\ disk[cursor] # "ok" => res'.Unreadable > 0
  <2>1. CASE ~Tree[cursor].skip /\ disk[cursor] # "ok"
    BY <1>2, <2>1, CountOne DEF VisitDir
  <2>2. CASE ~(~Tree[cursor].skip /\ disk[cursor] # "ok") /\ res' = res
    BY <1>2, <2>2 DEF ResultTyped
  <2> QED
    BY <2>1, <2>2 DEF VisitDir
<1>7. ~Tree[cursor].skip => res'.Unreadable > 0 \/ Children(cursor) \subseteq listed' \cup absent'
  <2>1. CASE ~Tree[cursor].skip /\ disk[cursor] = "ok"
    <3>1. listed' = listed \cup {c \in Children(cursor) : disk[c] # "gone"}
      BY <2>1 DEF VisitDir
    <3>2. \A c \in Children(cursor) : disk[c] = "gone" => c \in absent'
      BY <1>1 DEF WalkInv, GoneIsAbsent, Children
    <3> QED
      BY <3>1, <3>2
  <2> QED
    BY <1>6, <2>1
<1>8. WalkTyped'
  <2>1. CountsTyped'
    BY <1>1, <1>4 DEF WalkInv, WalkTyped, CountsTyped
  <2> QED
    BY <1>1, <1>3, <1>6, <2>1 DEF WalkInv, WalkTyped
<1>9. DirsExamined'
  <2>1. /\ 1 \in listed
        /\ \A d \in listed : d < cursor /\ Tree[d].kind = "dir" /\ ~Tree[d].skip =>
              res.Unreadable > 0 \/ Children(d) \subseteq listed \cup absent
    BY <1>1 DEF WalkInv, DirsExamined
  <2>2. ASSUME NEW d \in listed', d < cursor', Tree[d].kind = "dir", ~Tree[d].skip
        PROVE  res'.Unreadable > 0 \/ Children(d) \subseteq listed' \cup absent'
    <3>1. CASE d < cursor
      BY <1>1, <1>3, <1>5, <1>6, <2>1, <2>2, <3>1
    <3>2. CASE d = cursor
      BY <1>7, <2>2, <3>2
    <3> QED
      BY <1>4, <2>2, <3>1, <3>2
  <2> QED
    BY <1>3, <2>1, <2>2 DEF DirsExamined
<1>10. FilesExamined'
  <2>1. \A e \in listed : e < cursor /\ Wanted(e) =>
           res.Unreadable > 0 \/ res.Oversize > 0 \/ e \in read
    BY <1>1 DEF WalkInv, FilesExamined
  <2>2. ~Wanted(cursor)
    BY <1>2 DEF Wanted
  <2> QED
    BY <1>1, <1>4, <1>5, <1>6, <2>1, <2>2 DEF FilesExamined
<1>11. GoneIsAbsent' /\ ReadIsFound' /\ DoneIsDone'
  BY <1>1, <1>6 DEF WalkInv, GoneIsAbsent, ReadIsFound, HasAll, DoneIsDone
<1> QED
  BY <1>8, <1>9, <1>10, <1>11 DEF WalkInv

\* What a step that passes the cursor over has to show of the entry it is at.
LEMMA PassingKeeps ==
    ASSUME WalkInv, pc \in {"walk", "read"}, pc' = "walk", cursor \in Node,
           cursor' = Following(listed, cursor),
           UNCHANGED <<listed, before, absent, disk, content>>,
           ResultTyped', unparsed' \in Nat, before <= unparsed',
           read \subseteq read', read' \subseteq Node,
           res.Unreadable > 0 => res'.Unreadable > 0,
           res.Oversize > 0 => res'.Oversize > 0,
           Tree[cursor].kind # "dir",
           Wanted(cursor) => res'.Unreadable > 0 \/ res'.Oversize > 0 \/ cursor \in read',
           ReadIsFound'
    PROVE  WalkInv'
<1>1. Active /\ Active'
  BY DEF Active
<1>2. /\ cursor' \in 1 .. Len(Tree) + 1
      /\ \A x \in listed : x < cursor' => x < cursor \/ x = cursor
  BY FollowingIs DEF WalkInv, WalkTyped
<1>3. WalkTyped'
  <2>1. CountsTyped'
    BY <1>2 DEF WalkInv, WalkTyped, CountsTyped
  <2> QED
    BY <2>1 DEF WalkInv, WalkTyped
<1>4. DirsExamined'
  <2>1. /\ 1 \in listed
        /\ \A d \in listed : d < cursor /\ Tree[d].kind = "dir" /\ ~Tree[d].skip =>
              res.Unreadable > 0 \/ Children(d) \subseteq listed \cup absent
    BY <1>1 DEF WalkInv, DirsExamined
  <2> QED
    BY <1>2, <2>1 DEF DirsExamined
<1>5. FilesExamined'
  <2>1. \A e \in listed : e < cursor /\ Wanted(e) =>
           res.Unreadable > 0 \/ res.Oversize > 0 \/ e \in read
    BY <1>1 DEF WalkInv, FilesExamined
  <2> QED
    BY <1>2, <2>1 DEF FilesExamined
<1>6. GoneIsAbsent' /\ DoneIsDone'
  BY <1>1 DEF WalkInv, GoneIsAbsent, DoneIsDone
<1> QED
  BY <1>3, <1>4, <1>5, <1>6 DEF WalkInv

LEMMA VisitFileKeeps == WalkInv /\ VisitFile => WalkInv'
<1> SUFFICES ASSUME WalkInv, VisitFile PROVE WalkInv'
  OBVIOUS
<1>1. /\ pc = "walk" /\ cursor \in Node /\ Tree[cursor].kind # "dir"
      /\ UNCHANGED <<listed, unparsed, before, read, absent, disk, content>>
  BY DEF VisitFile, tree
<1>2. /\ ResultTyped /\ read \subseteq Node /\ unparsed \in Nat /\ before <= unparsed /\ ReadIsFound
  BY DEF WalkInv, WalkTyped, CountsTyped
<1>3. ASSUME pc' = pc, cursor' = Following(listed, cursor), ResultTyped',
             res'.Findings = res.Findings,
             res.Unreadable > 0 => res'.Unreadable > 0,
             res.Oversize > 0 => res'.Oversize > 0,
             Wanted(cursor) => res'.Unreadable > 0 \/ res'.Oversize > 0
      PROVE  WalkInv'
  <2>1. ReadIsFound'
    BY <1>1, <1>2, <1>3 DEF ReadIsFound, Active, HasAll
  <2> QED
    BY <1>1, <1>2, <1>3, <2>1, PassingKeeps
<1>4. CASE ~Wanted(cursor) /\ cursor' = Following(listed, cursor) /\ UNCHANGED <<pc, res>>
  <2>1. ResultTyped'
    BY <1>2, <1>4 DEF ResultTyped
  <2> QED
    BY <1>3, <1>4, <2>1
<1>5. CASE /\ res' = [res EXCEPT !.Unreadable = @ + 1]
           /\ cursor' = Following(listed, cursor) /\ UNCHANGED pc
  BY <1>2, <1>3, <1>5, CountOne
<1>6. CASE /\ res' = [res EXCEPT !.Oversize = @ + 1]
           /\ cursor' = Following(listed, cursor) /\ UNCHANGED pc
  BY <1>2, <1>3, <1>6, CountOne
<1>7. CASE Wanted(cursor) /\ pc' = "read" /\ UNCHANGED <<cursor, res>>
  <2>1. WalkTyped'
    BY <1>1, <1>7 DEF WalkInv, WalkTyped, ResultTyped, CountsTyped
  <2>2. GoneIsAbsent' /\ DirsExamined'
    BY <1>1, <1>7 DEF WalkInv, GoneIsAbsent, DirsExamined, Active
  <2>3. FilesExamined' /\ ReadIsFound' /\ DoneIsDone'
    BY <1>1, <1>7 DEF WalkInv, FilesExamined, ReadIsFound, HasAll, DoneIsDone, Active
  <2> QED
    BY <2>1, <2>2, <2>3 DEF WalkInv
<1> QED
  BY <1>4, <1>5, <1>6, <1>7 DEF VisitFile

LEMMA ReadFailsKeeps == WalkInv /\ ReadFails => WalkInv'
<1> SUFFICES ASSUME WalkInv, ReadFails PROVE WalkInv'
  OBVIOUS
<1>1. /\ pc = "read" /\ pc' = "walk" /\ cursor' = Following(listed, cursor)
      /\ UNCHANGED <<listed, unparsed, before, read, absent, disk, content>>
      /\ res' = [res EXCEPT !.Unreadable = @ + 1]
  BY DEF ReadFails, tree
<1>2. /\ ResultTyped /\ read \subseteq Node /\ unparsed \in Nat /\ before <= unparsed /\ ReadIsFound
      /\ cursor \in Node /\ Tree[cursor].kind # "dir"
  BY <1>1 DEF WalkInv, WalkTyped, CountsTyped, Wanted
<1>3. ResultTyped' /\ res'.Unreadable > 0 /\ res'.Findings = res.Findings
      /\ res'.Oversize = res.Oversize
  BY <1>1, <1>2, CountOne
<1>4. ReadIsFound'
  BY <1>1, <1>2, <1>3 DEF ReadIsFound, Active, HasAll
<1> QED
  BY <1>1, <1>2, <1>3, <1>4, PassingKeeps

LEMMA ReadKeeps == WalkInv /\ Read => WalkInv'
<1> SUFFICES ASSUME WalkInv, Read PROVE WalkInv'
  OBVIOUS
<1> DEFINE c == content[cursor]
           blind == "goast" \in Tree[cursor].wants /\ ~c.parses
<1>1. /\ pc = "read" /\ pc' = "walk" /\ cursor' = Following(listed, cursor)
      /\ read' = read \cup {cursor}
      /\ UNCHANGED <<listed, before, absent, disk, content>>
      /\ res' = [res EXCEPT !.FilesWalked = @ + 1, !.Findings = @ \cup Found(cursor, c)]
      /\ unparsed' = IF blind THEN unparsed + 1 ELSE unparsed
  BY DEF Read, tree
<1>2. /\ ResultTyped /\ read \subseteq Node /\ unparsed \in Nat /\ before \in Nat
      /\ before <= unparsed /\ ReadIsFound
      /\ cursor \in Node /\ Tree[cursor].kind # "dir"
  BY <1>1 DEF WalkInv, WalkTyped, CountsTyped, Wanted
<1>3. /\ res'.Findings = res.Findings \cup Found(cursor, c) /\ DOMAIN res' = DOMAIN res
      /\ res'.Unreadable = res.Unreadable /\ res'.Oversize = res.Oversize
  BY <1>1, <1>2 DEF ResultTyped
<1>4. ResultTyped'
  BY <1>2, <1>3 DEF ResultTyped
<1>5. unparsed' \in Nat /\ before <= unparsed' /\ unparsed <= unparsed'
      /\ (blind => before < unparsed')
  BY <1>1, <1>2
<1>6. ASSUME NEW e \in Node, e = cursor, ~blind PROVE HasAll(e)'
  <2> SUFFICES ASSUME NEW det \in Tree[e].wants, NEW j \in KeyLines(c.lines)
               PROVE  \E f \in res'.Findings : f.file = e /\ f.det = det /\ f.line = j
    BY <1>1, <1>6 DEF HasAll
  <2>1. j \in Detect(det, c)
    BY <1>6 DEF Detect
  <2> DEFINE f == [file |-> cursor, det |-> det, line |-> j, isTest |-> IsTest(cursor, c.lines, j)]
  <2>2. f \in Found(cursor, c)
    BY <1>6, <2>1 DEF Found
  <2> QED
    BY <1>3, <1>6, <2>2
<1>7. ReadIsFound'
  <2> SUFFICES ASSUME NEW e \in read' PROVE HasAll(e)' \/ before < unparsed'
    BY <1>1 DEF ReadIsFound
  <2>1. CASE e = cursor
    BY <1>2, <1>5, <1>6, <2>1
  <2>2. CASE e \in read
    <3>1. HasAll(e) \/ before < unparsed
      BY <1>1, <1>2, <2>2 DEF ReadIsFound, Active
    <3>2. HasAll(e) => HasAll(e)'
      BY <1>1, <1>3 DEF HasAll
    <3> QED
      BY <1>2, <1>5, <3>1, <3>2
  <2> QED
    BY <1>1, <2>1, <2>2
<1> QED
  BY <1>1, <1>2, <1>3, <1>4, <1>5, <1>7, PassingKeeps

LEMMA FinishKeeps == WalkInv /\ Finish => WalkInv'
<1> SUFFICES ASSUME WalkInv, Finish PROVE WalkInv'
  OBVIOUS
<1>1. /\ pc = "walk" /\ pc' = "done" /\ cursor \notin Node
      /\ UNCHANGED <<listed, cursor, unparsed, before, read, absent, disk, content>>
      /\ res' = [res EXCEPT !.Unparsed = unparsed - before]
  BY DEF Finish, tree
<1>2. ResultTyped
  BY DEF WalkInv, WalkTyped
<1>3. /\ res'.Unparsed = unparsed - before /\ DOMAIN res' = DOMAIN res
      /\ res'.Findings = res.Findings
      /\ res'.Unreadable = res.Unreadable /\ res'.Oversize = res.Oversize
  BY <1>1, <1>2 DEF ResultTyped
<1>4. WalkTyped'
  BY <1>1, <1>2, <1>3 DEF WalkInv, WalkTyped, ResultTyped, CountsTyped
<1>5. GoneIsAbsent' /\ DirsExamined'
  BY <1>1, <1>3 DEF WalkInv, GoneIsAbsent, DirsExamined, Active
<1>6. FilesExamined' /\ ReadIsFound' /\ DoneIsDone'
  BY <1>1, <1>3 DEF WalkInv, FilesExamined, ReadIsFound, HasAll, DoneIsDone, Active
<1> QED
  BY <1>4, <1>5, <1>6 DEF WalkInv

LEMMA WalkInvariance == SourcesSpec => []WalkInv
<1>1. ASSUME WalkInv, UNCHANGED vars PROVE WalkInv'
  <2>1. WalkTyped'
    BY <1>1 DEF vars, WalkInv, WalkTyped, ResultTyped, CountsTyped
  <2>2. GoneIsAbsent' /\ DirsExamined'
    BY <1>1 DEF vars, WalkInv, GoneIsAbsent, DirsExamined, Active
  <2>3. FilesExamined' /\ ReadIsFound' /\ DoneIsDone'
    BY <1>1 DEF vars, WalkInv, FilesExamined, ReadIsFound, HasAll, DoneIsDone, Active
  <2> QED
    BY <2>1, <2>2, <2>3 DEF WalkInv
<1>2. WalkInv /\ [SourcesNext]_allVars => WalkInv'
  BY <1>1, WalkStep, ChangeKeeps, StartKeeps, VisitDirKeeps, VisitFileKeeps, ReadFailsKeeps,
     ReadKeeps, FinishKeeps DEF Walk
<1> QED
  BY <1>2, WalkInitial, PTL DEF SourcesSpec

\* What has no directory above it in S has a branch without any of S.
LEMMA BranchWithout ==
    ASSUME NEW e \in Node, NEW S, NEW R, ~Above(e, S), ~Above(e, R)
    PROVE  \E B \in Branches(e) : B \cap S = {} /\ B \cap R = {}
<1>1. PICK A \in Branches(e) : A \cap S = {}
  BY DEF Above
<1>2. PICK B \in Branches(e) : B \cap R = {}
  BY DEF Above
<1>3. A \cap B \in Branches(e)
  BY <1>1, <1>2 DEF Branches
<1> QED
  BY <1>1, <1>2, <1>3

\* Scanner.Scan: a result that counts no gap has every finding of every file a
\* detector wants, except below skipped directories and what was not there all
\* the time, whatever is removed, locked or grown during the walk of any tree.
THEOREM NoGapMeansExamined == SourcesSpec => []CleanMeansExamined
<1>1. ASSUME WalkInv, pc = "done", res.Unreadable + res.Oversize + res.Unparsed = 0,
             NEW e \in Node, Wanted(e), e \notin Skipped, ~Above(e, absent)
      PROVE  e \in read /\ HasAll(e)
  <2>1. /\ listed \subseteq Node /\ read \subseteq Node /\ cursor \in 1 .. Len(Tree) + 1
        /\ unparsed \in Nat /\ before \in Nat /\ before <= unparsed
        /\ res.Unreadable \in Nat /\ res.Oversize \in Nat
    BY <1>1 DEF WalkInv, WalkTyped, ResultTyped, CountsTyped
  <2>2. cursor \notin Node /\ res.Unparsed = unparsed - before /\ Active
    BY <1>1 DEF WalkInv, DoneIsDone, Active
  <2>3. res.Unreadable + res.Oversize + (unparsed - before) = 0
    BY <1>1, <2>2
  <2>4. ~(res.Unreadable > 0) /\ ~(res.Oversize > 0) /\ ~(before < unparsed)
    <3>1. \A a, b, c, d \in Nat :
            d <= c /\ a + b + (c - d) = 0 => ~(a > 0) /\ ~(b > 0) /\ ~(d < c)
      OBVIOUS
    <3> QED
      BY <2>1, <2>3, <3>1
  <2>5. \A x \in Node : x < cursor
    BY <2>1, <2>2, TreeTyped DEF Node
  <2>6. 1 \in listed /\ \A d \in listed : Tree[d].kind = "dir" /\ ~Tree[d].skip =>
                            Children(d) \subseteq listed \cup absent
    BY <1>1, <2>1, <2>2, <2>4, <2>5 DEF WalkInv, DirsExamined
  <2>7. PICK B \in Branches(e) : B \cap absent = {} /\ B \cap {d \in Node : Tree[d].skip} = {}
    BY <1>1, BranchWithout DEF Skipped
  <2>8. B \subseteq Node /\ e \in B /\ \A x \in B : Tree[x].parent \in B \cup {0}
    BY <2>7 DEF Branches
  <2>9. B \subseteq listed
    <3> SUFFICES ASSUME B \ listed # {} PROVE FALSE
      OBVIOUS
    <3>1. B \ listed \subseteq Nat
      BY <2>8, TreeTyped
    <3>2. PICK m \in B \ listed : \A y \in B \ listed : m <= y
      BY <3>1, Least
    <3>3. m \in Node /\ m # 1
      BY <2>6, <2>8, <3>2
    <3>4. /\ Tree[m].parent \in Nat /\ Tree[m].parent < m /\ Tree[m].parent # 0
          /\ Tree[m].parent \in Node /\ m \in Nat
          /\ Tree[Tree[m].parent].kind = "dir"
      <4>1. m \in 2 .. Len(Tree) /\ Len(Tree) \in Nat
        BY <3>3, TreeTyped DEF Node
      <4>2. Tree[m].parent \in 1 .. m - 1 /\ Tree[Tree[m].parent].kind = "dir"
        BY <4>1, TreeAssumption
      <4> QED
        BY <4>1, <4>2 DEF Node
    <3> DEFINE d == Tree[m].parent
    <3>5. d \in B
      BY <2>8, <3>2, <3>4
    <3>6. d \in listed
      BY <3>2, <3>4, <3>5
    <3>7. ~Tree[d].skip /\ m \in Children(d)
      BY <2>7, <3>3, <3>4, <3>5 DEF Children
    <3>8. m \in listed \cup absent
      BY <2>6, <3>4, <3>6, <3>7
    <3> QED
      BY <2>7, <3>2, <3>8
  <2>10. e \in listed /\ e < cursor
    BY <2>5, <2>8, <2>9
  <2>11. e \in read
    BY <1>1, <2>2, <2>4, <2>10 DEF WalkInv, FilesExamined
  <2> QED
    BY <1>1, <2>2, <2>4, <2>11 DEF WalkInv, ReadIsFound
<1>2. ASSUME WalkInv PROVE CleanMeansExamined
  BY <1>1, <1>2 DEF CleanMeansExamined, HasAll
<1> QED
  BY <1>2, WalkInvariance, PTL

LEMMA ContentTyped ==
    ASSUME NEW c \in Contents, NEW e \in Node
    PROVE  c[e].lines \in Seq(Line) /\ c[e].parses \in BOOLEAN
  BY ContentsAssumption DEF Node

\* A finding is about a line of its file, and stamped as that line is.
StampedOne(f) ==
    /\ f.file \in Node /\ f.det \in Detector
    /\ f.line \in 1 .. Len(content[f.file].lines)
    /\ f.isTest = IsTest(f.file, content[f.file].lines, f.line)

StampedInv == \A f \in res.Findings : StampedOne(f)

LEMMA FoundStamped ==
    ASSUME NEW e \in Node, NEW c, NEW f \in Found(e, c)
    PROVE  /\ f.file = e /\ f.det \in Detector
           /\ f.line \in 1 .. Len(c.lines) /\ f.isTest = IsTest(e, c.lines, f.line)
<1>0. PICK det \in Tree[e].wants : \E j \in Detect(det, c) :
         f = [file |-> e, det |-> det, line |-> j, isTest |-> IsTest(e, c.lines, j)]
  BY DEF Found
<1>1. PICK j \in Detect(det, c) :
         f = [file |-> e, det |-> det, line |-> j, isTest |-> IsTest(e, c.lines, j)]
  BY <1>0
<1>2. det \in Detector
  BY TreeTyped DEF Entry
<1>3. j \in 1 .. Len(c.lines)
  BY DEF Detect, KeyLines
<1> HIDE DEF Detector
<1> QED
  BY <1>1, <1>2, <1>3

LEMMA StampedInitial == SourcesInit => StampedInv
<1> SUFFICES ASSUME SourcesInit PROVE StampedInv
  OBVIOUS
<1>1. Init
  BY DEF SourcesInit, NoWalk
<1>2. res.Findings = {}
  BY <1>1 DEF Init, NoResult
<1> QED
  BY <1>2 DEF StampedInv

LEMMA StampedKeeps == WalkInv /\ StampedInv /\ [SourcesNext]_allVars => StampedInv'
<1> SUFFICES ASSUME WalkInv, StampedInv, [SourcesNext]_allVars PROVE StampedInv'
  OBVIOUS
<1>1. ResultTyped
  BY DEF WalkInv, WalkTyped
<1>2. ASSUME UNCHANGED content, res'.Findings \subseteq res.Findings PROVE StampedInv'
  BY <1>2 DEF StampedInv, StampedOne
<1>3. ASSUME NEW v, res' = [res EXCEPT !.Unreadable = v] \/ res' = [res EXCEPT !.Oversize = v]
                    \/ res' = [res EXCEPT !.Unparsed = v] \/ res' = res
      PROVE  res'.Findings \subseteq res.Findings
  BY <1>1, <1>3 DEF ResultTyped
<1>4. CASE VisitDir
  <2>1. UNCHANGED content
    BY <1>4 DEF VisitDir, tree
  <2>2. res'.Findings \subseteq res.Findings
    BY <1>3, <1>4 DEF VisitDir
  <2> QED
    BY <1>2, <2>1, <2>2
<1>5. CASE VisitFile \/ ReadFails
  <2>1. UNCHANGED content
    BY <1>5 DEF VisitFile, ReadFails, tree
  <2>2. res'.Findings \subseteq res.Findings
    BY <1>3, <1>5 DEF VisitFile, ReadFails
  <2> QED
    BY <1>2, <2>1, <2>2
<1>6. CASE Read
  <2> DEFINE c == content[cursor]
  <2>1. UNCHANGED content /\ pc = "read"
        /\ res' = [res EXCEPT !.FilesWalked = @ + 1, !.Findings = @ \cup Found(cursor, c)]
    BY <1>6 DEF Read, tree
  <2>2. res'.Findings = res.Findings \cup Found(cursor, c)
    BY <1>1, <2>1 DEF ResultTyped
  <2>3. cursor \in Node
    BY <2>1 DEF WalkInv, WalkTyped
  <2>4. ASSUME NEW f \in Found(cursor, c) PROVE StampedOne(f)'
    <3>1. /\ f.file = cursor /\ f.det \in Detector
          /\ f.line \in 1 .. Len(c.lines) /\ f.isTest = IsTest(cursor, c.lines, f.line)
      <4> HIDE DEF c
      <4> QED
        BY <2>3, FoundStamped
    <3> QED
      BY <2>1, <2>3, <3>1 DEF StampedOne
  <2>5. \A f \in res.Findings : StampedOne(f)'
    BY <2>1 DEF StampedInv, StampedOne
  <2> QED
    BY <2>2, <2>4, <2>5 DEF StampedInv
<1>7. CASE Finish
  <2>1. UNCHANGED content
    BY <1>7 DEF Finish, tree
  <2>2. res'.Findings \subseteq res.Findings
    BY <1>3, <1>7 DEF Finish
  <2> QED
    BY <1>2, <2>1, <2>2
<1>8. CASE StartFails \/ Start
  <2>1. UNCHANGED content
    BY <1>8 DEF StartFails, Start, tree
  <2>2. res' = res \/ res'.Findings = {}
    BY <1>8 DEF StartFails, Start, NoResult
  <2> QED
    BY <1>2, <2>1, <2>2
<1>9. CASE (\E e \in Node : Change(e)) \/ UNCHANGED vars
  BY <1>2, <1>9 DEF Change, vars
<1> QED
  BY <1>4, <1>5, <1>6, <1>7, <1>8, <1>9, WalkStep DEF Walk

LEMMA StampedInvariance == SourcesSpec => [](WalkInv /\ StampedInv)
<1>1. SourcesSpec => []StampedInv
  BY StampedInitial, StampedKeeps, WalkInvariance, PTL DEF SourcesSpec
<1> QED
  BY <1>1, WalkInvariance, PTL

\* The files of Rust are tidy.
TidyFiles == \A c \in Contents, e \in Node : Tree[e].rust => Tidy(c[e].lines)

\* Whatever changes during the walk, and whatever the files hold of tokens that
\* rustTestLines can tell from braces (Tidy), a finding is test code exactly when
\* its path says so or when it is inside an item that Rust compiles for tests
\* only (Scanner.Scan, rustTestLines in testpath.go).
THEOREM TestsAreStamped == TidyFiles => (SourcesSpec => []TestsStamped)
<1> SUFFICES ASSUME TidyFiles PROVE SourcesSpec => []TestsStamped
  OBVIOUS
<1>1. ASSUME WalkInv, StampedInv PROVE TestsStamped
  <2> SUFFICES ASSUME NEW f \in res.Findings
               PROVE  f.isTest <=>
                        \/ Tree[f.file].test
                        \/ Tree[f.file].rust /\ InTestItem(content[f.file].lines, f.line)
    BY DEF TestsStamped
  <2> DEFINE e == f.file
             lines == content[e].lines
             j == f.line
  <2>1. e \in Node /\ j \in 1 .. Len(lines) /\ f.isTest = IsTest(e, lines, j)
    BY <1>1 DEF StampedInv, StampedOne
  <2>2. content \in Contents
    BY <1>1 DEF WalkInv, WalkTyped
  <2>3. lines \in Seq(Line)
    BY <2>1, <2>2, ContentTyped
  <2>4. TestLines[lines] = rustTestLines(lines)
    BY <2>1, <2>2 DEF TestLines
  <2>5. Tree[e].rust => (rustTestLines(lines)[j] <=> InTestItem(lines, j))
    <3>1. SUFFICES ASSUME Tree[e].rust PROVE rustTestLines(lines)[j] <=> InTestItem(lines, j)
      OBVIOUS
    <3>2. Tidy(lines)
      BY <2>1, <2>2, <3>1 DEF TidyFiles
    <3> HIDE DEF lines, j
    <3> QED
      BY <2>1, <2>3, <3>2, TestLinesRight
  <2>6. f.isTest <=> Tree[e].test \/ (Tree[e].rust /\ rustTestLines(lines)[j])
    <3> HIDE DEF lines, j, e
    <3> QED
      BY <2>1, <2>4 DEF IsTest
  <2> QED
    BY <2>5, <2>6
<1> QED
  BY <1>1, StampedInvariance, PTL

-----------------------------------------------------------------------------
(* `qryx aws`, `azure` and `gcp`.                                           *)

\* s names r, or something r is part of.
Covers(s, r) == C!IsPrefix(s, r)

\* What is owed for a resource that was there all the time.
Settled(r) ==
    \/ /\ C!Finds(r, FALSE) \in found
       /\ r \in Expired => C!Finds(r, TRUE) \in found
    \/ \E s \in skipped : Covers(s, r)
    \/ r \in Disabled
    \/ /\ ~C!Tracked(r)
       /\ r[1] = "acm" /\ r \in Expired => C!Finds(r, TRUE) \in found

Stable == account \ touched

\* A listing has still to come to r: r is on the page, after the marker of the
\* next call, or a certificate while the keys are listed.
InListing(r) ==
    \/ r[1] = service /\ r[2] \in page
    \/ r[1] = service /\ call = "list" /\ r[2] > marker
    \/ r[1] = service /\ call # "list" /\ next # 0 /\ r[2] > next
    \/ r[1] = "acm" /\ service = "kms"

\* The iterators have still to come to r.
InIterators(r) ==
    \/ r[2] > at[1]
    \/ call \in {"keys", "versions"} /\ r[2] = at[1] /\ r[3] > at[2]
    \/ call = "versions" /\ r[2] = at[1] /\ r[3] = at[2] /\ r[4] > at[3]

Listing   == {"list", "entry", "tags"}
Iterating == {"rings", "keys", "versions"}

CloudTyped ==
    /\ account \subseteq {r \in Resource : C!ProviderOf(r) = provider}
    /\ marker \in Nat /\ next \in Nat /\ page \subseteq Nat
    /\ at \in Nat \X Nat \X Nat

\* The service and the calls are those of the provider.
InTurn ==
    /\ provider \in {"aws", "azure", "gcp"}
    /\ call \in Listing \cup Iterating \cup {"report", "done"}
    /\ provider = "aws" => service \in {"kms", "acm"} /\ call \notin Iterating
    /\ provider = "aws" /\ call = "list" => page = {}
    /\ provider = "azure" => /\ service = "vault" /\ call \notin Iterating
                             /\ call # "tags" /\ (call = "entry" => next = 0)
    /\ provider = "gcp" => call \notin Listing
    /\ call = "tags" => page # {}
    /\ call = "done" <=> outcome # ""

Progress ==
    outcome # "failed" =>
        /\ call \in Listing => \A r \in Stable : Settled(r) \/ InListing(r)
        /\ call \in Iterating => \A r \in Stable : Settled(r) \/ InIterators(r)
        /\ call \in {"report", "done"} => \A r \in Stable : Settled(r)

CloudInv == CloudTyped /\ InTurn /\ Progress

LEMMA ResourceShape ==
    ASSUME NEW r \in Resource
    PROVE  \/ \E s \in {"kms", "acm", "vault"}, n \in Nat : r = <<s, n>> /\ n > 0
           \/ \E a, b, c \in Nat : r = <<"gcp", a, b, c>> /\ a > 0 /\ b > 0 /\ c > 0
<1>1. \/ r \in {"kms", "acm", "vault"} \X C!Number
      \/ r \in {"gcp"} \X C!Number \X C!Number \X C!Number
  BY SourcesAssumption DEF C!ConstantsOK
<1>2. \A n \in C!Number : n \in Nat /\ n > 0
  BY DEF C!Number
<1> QED
  BY <1>1, <1>2

LEMMA CoversIf ==
    ASSUME NEW S, NEW s \in Seq(S), NEW t \in Seq(S), Len(s) <= Len(t),
           \A i \in 1 .. Len(s) : s[i] = t[i]
    PROVE  Covers(s, t)
<1>1. SubSeq(s, 1, Len(s)) = [i \in 1 .. Len(s) |-> s[i]]
  OBVIOUS
<1>2. SubSeq(t, 1, Len(s)) = [i \in 1 .. Len(s) |-> t[i]]
  OBVIOUS
<1> QED
  BY <1>1, <1>2 DEF Covers, C!IsPrefix
LEMMA CoversItsParts ==
    ASSUME NEW s, NEW a, NEW b, NEW c
    PROVE  /\ Covers(<<s>>, <<s, a, b, c>>)
           /\ Covers(<<s, a>>, <<s, a>>)
           /\ Covers(<<s, a>>, <<s, a, b, c>>)
           /\ Covers(<<s, a, b>>, <<s, a, b, c>>)
<1>3. Covers(<<s>>, <<s, a, b, c>>)
  <2>1. <<s>> \in Seq({s,a,b,c}) /\ <<s,a,b,c>> \in Seq({s,a,b,c})
    OBVIOUS
  <2>2. Len(<<s>>) <= Len(<<s, a, b, c>>) /\ \A i \in 1 .. Len(<<s>>) : <<s>>[i] = <<s, a, b, c>>[i]
    OBVIOUS
  <2> QED
    BY <2>1, <2>2, CoversIf
<1>4. Covers(<<s, a>>, <<s, a>>)
  <2>1. <<s, a>> \in Seq({s,a,b,c})
    OBVIOUS
  <2>2. Len(<<s, a>>) <= Len(<<s, a>>) /\ \A i \in 1 .. Len(<<s, a>>) : <<s, a>>[i] = <<s, a>>[i]
    OBVIOUS
  <2> QED
    BY <2>1, <2>2, CoversIf
<1>5. Covers(<<s, a>>, <<s, a, b, c>>)
  <2>1. <<s, a>> \in Seq({s,a,b,c}) /\ <<s,a,b,c>> \in Seq({s,a,b,c})
    OBVIOUS
  <2>2. Len(<<s, a>>) <= Len(<<s, a, b, c>>) /\ \A i \in 1 .. Len(<<s, a>>) : <<s, a>>[i] = <<s, a, b, c>>[i]
    OBVIOUS
  <2> QED
    BY <2>1, <2>2, CoversIf
<1>6. Covers(<<s, a, b>>, <<s, a, b, c>>)
  <2>1. <<s, a, b>> \in Seq({s,a,b,c}) /\ <<s,a,b,c>> \in Seq({s,a,b,c})
    OBVIOUS
  <2>2. Len(<<s, a, b>>) <= Len(<<s, a, b, c>>) /\ \A i \in 1 .. Len(<<s, a, b>>) : <<s, a, b>>[i] = <<s, a, b, c>>[i]
    OBVIOUS
  <2> QED
    BY <2>1, <2>2, CoversIf
<1> QED
  BY <1>3, <1>4, <1>5, <1>6

LEMMA PrefixOfTwo ==
    ASSUME NEW s, NEW a, NEW x, NEW n, C!IsPrefix(<<s, a>>, <<x, n>>)
    PROVE  s = x /\ a = n
  BY DEF C!IsPrefix

LEMMA PrefixOfTwo3 ==
    ASSUME NEW s, NEW a, NEW b, NEW x, NEW n
    PROVE  ~C!IsPrefix(<<s, a, b>>, <<x, n>>)
  BY DEF C!IsPrefix

LEMMA PrefixOfFour ==
    ASSUME NEW s, NEW a, NEW b, NEW x, NEW y, NEW z, NEW w
    PROVE  /\ C!IsPrefix(<<s>>, <<x, y, z, w>>) => s = x
           /\ C!IsPrefix(<<s, a>>, <<x, y, z, w>>) => s = x /\ a = y
           /\ C!IsPrefix(<<s, a, b>>, <<x, y, z, w>>) => s = x /\ a = y /\ b = z
  BY DEF C!IsPrefix

LEMMA SettledStays ==
    ASSUME NEW r, Settled(r), found \subseteq found', skipped \subseteq skipped'
    PROVE  Settled(r)'
  BY DEF Settled

LEMMA StableShape ==
    ASSUME CloudTyped, NEW r \in Stable
    PROVE  /\ r \in Resource
           /\ provider \in {"aws", "azure"} =>
                 /\ r = <<r[1], r[2]>> /\ r[2] \in Nat /\ r[2] > 0
                 /\ r[1] \in {"kms", "acm", "vault"}
           /\ provider = "aws" => r[1] \in {"kms", "acm"}
           /\ provider = "azure" => r[1] = "vault"
           /\ provider = "gcp" =>
                 /\ r = <<"gcp", r[2], r[3], r[4]>>
                 /\ r[2] \in Nat /\ r[3] \in Nat /\ r[4] \in Nat
                 /\ r[2] > 0 /\ r[3] > 0 /\ r[4] > 0
<1>1. r \in Resource /\ C!ProviderOf(r) = provider
  BY DEF Stable, CloudTyped
<1>2. CASE \E s \in {"kms", "acm", "vault"}, n \in Nat : r = <<s, n>> /\ n > 0
  <2>1. PICK s \in {"kms", "acm", "vault"}, n \in Nat : r = <<s, n>> /\ n > 0
    BY <1>2
  <2>2. r[1] = s /\ r[2] = n /\ r = <<r[1], r[2]>>
    BY <2>1
  <2>3. provider = IF s = "vault" THEN "azure" ELSE "aws"
    BY <1>1, <2>1, <2>2 DEF C!ProviderOf
  <2> QED
    BY <1>1, <2>1, <2>2, <2>3
<1>3. CASE \E a, b, c \in Nat : r = <<"gcp", a, b, c>> /\ a > 0 /\ b > 0 /\ c > 0
  <2>1. PICK a \in Nat, b \in Nat, c \in Nat :
            r = <<"gcp", a, b, c>> /\ a > 0 /\ b > 0 /\ c > 0
    BY <1>3
  <2>2. r[1] = "gcp" /\ r[2] = a /\ r[3] = b /\ r[4] = c
    BY <2>1
  <2>3. provider = "gcp"
    BY <1>1, <2>2 DEF C!ProviderOf
  <2> QED
    BY <1>1, <2>1, <2>2, <2>3
<1> QED
  BY <1>1, <1>2, <1>3, ResourceShape

LEMMA CloudInitial == SourcesInit => CloudInv
<1>1. ASSUME SourcesInit PROVE C!Init
  BY <1>1 DEF SourcesInit, NoCloud
<1>2. ASSUME C!Init PROVE CloudInv
  <2>1. CloudTyped /\ InTurn
    BY <1>2 DEF C!Init, C!FirstCall, CloudTyped, InTurn, Listing, Iterating
  <2>2. ASSUME NEW r \in Stable, call \in Listing PROVE InListing(r)
    <3>1. call = "list" /\ provider \in {"aws", "azure"} /\ marker = 0
          /\ service = IF provider = "aws" THEN "kms" ELSE "vault"
      BY <1>2, <2>2 DEF C!Init, C!FirstCall, Listing
    <3>2. r[2] > marker
      BY <2>1, <3>1, StableShape
    <3> QED
      BY <2>1, <3>1, <3>2, StableShape DEF InListing
  <2>3. ASSUME NEW r \in Stable, call \in Iterating PROVE InIterators(r)
    <3>1. provider = "gcp" /\ at[1] = 0
      BY <1>2, <2>3 DEF C!Init, C!FirstCall, Iterating
    <3> QED
      BY <2>1, <3>1, StableShape DEF InIterators
  <2> QED
    BY <1>2, <2>1, <2>2, <2>3 DEF CloudInv, Progress, C!Init, C!FirstCall, Listing, Iterating
<1> QED
  BY <1>1, <1>2

LEMMA CloudStep ==
    [SourcesNext]_allVars =>
        \/ C!Scan
        \/ \E r \in Resource : C!Change(r)
        \/ UNCHANGED cloud
  BY DEF SourcesNext, Work, Outside, allVars, cloud, C!vars

LEMMA ChangeIsNoLoss ==
    ASSUME CloudInv, NEW x \in Resource, C!Change(x)
    PROVE  CloudInv'
<1> USE DEF CloudInv
<1>1. Stable' \subseteq Stable
  BY DEF C!Change, Stable
<1>2. UNCHANGED <<provider, call, service, marker, page, next, at, found, skipped, outcome>>
  BY DEF C!Change, C!listing
<1>3. CloudTyped'
  BY <1>2 DEF C!Change, CloudTyped, C!ProviderOf
<1>4. InTurn'
  BY <1>2 DEF InTurn
<1>5. Progress'
  BY <1>1, <1>2 DEF Progress, Settled, InListing, InIterators
<1> QED
  BY <1>3, <1>4, <1>5

LEMMA NamesTyped ==
    ASSUME CloudTyped, NEW m \in Nat
    PROVE  \A n \in C!Names(m) : n \in Nat /\ n > m /\ n # 0
<1> SUFFICES ASSUME NEW x \in account, x[2] > m PROVE x[2] \in Nat /\ x[2] > m /\ x[2] # 0
  BY DEF C!Names
<1>1. x[2] \in Nat
  BY ResourceShape DEF CloudTyped
<1> QED
  BY <1>1

\* A page and its token account for every name after the marker.
LEMMA PageCovers ==
    ASSUME CloudTyped, NEW m \in Nat, NEW p \in C!Pages(m)
    PROVE  /\ p.names \subseteq Nat /\ p.token \in Nat
           /\ \A n \in C!Names(m) : n \in p.names \/ (p.token # 0 /\ n > p.token)
<1>1. CASE C!Names(m) = {}
  BY <1>1 DEF C!Pages
<1>2. CASE C!Names(m) # {}
  <2>1. PICK k \in C!Names(m) :
            p = [names |-> C!UpTo(m, k),
                 token |-> IF C!UpTo(m, k) = C!Names(m) THEN 0 ELSE k]
    BY <1>2 DEF C!Pages
  <2>2. C!UpTo(m, k) = {n \in C!Names(m) : n <= k}
    BY DEF C!UpTo
  <2> QED
    BY <2>1, <2>2, NamesTyped
<1> QED
  BY <1>1, <1>2

\* The part of the invariant that a step of a listing has to keep.
LEMMA KeptByListing ==
    ASSUME CloudInv, outcome' = outcome, call' \in {"list", "entry", "tags"},
           UNCHANGED <<provider, account, touched, at>>,
           marker' \in Nat, next' \in Nat, page' \subseteq Nat, InTurn',
           \A r \in Stable : Settled(r) \/ InListing(r) => Settled(r)' \/ InListing(r)',
           call \in Listing
    PROVE  CloudInv'
<1>1. CloudTyped'
  BY DEF CloudInv, CloudTyped, C!ProviderOf
<1>2. Progress'
  BY DEF CloudInv, Progress, Listing, Iterating, Stable
<1> QED
  BY <1>1, <1>2 DEF CloudInv

LEMMA FailKeeps ==
    ASSUME CloudInv, C!Fail, UNCHANGED <<provider, account, touched>> PROVE CloudInv'
<1>1. UNCHANGED <<service, marker, page, next, at>> /\ outcome' = "failed" /\ call' = "done"
  BY DEF C!Fail, C!listing
<1>2. CloudTyped'
  BY <1>1 DEF CloudInv, CloudTyped, C!ProviderOf
<1>3. InTurn'
  BY <1>1 DEF CloudInv, InTurn, Listing, Iterating
<1>4. Progress'
  BY <1>1 DEF Progress
<1> QED
  BY <1>2, <1>3, <1>4 DEF CloudInv

LEMMA AwsListKeeps ==
    ASSUME CloudInv, C!AwsList, UNCHANGED <<provider, account, touched>> PROVE CloudInv'
<1>1. CASE C!Fail
  BY <1>1, FailKeeps
<1>2. CASE ~C!Fail
  <2>1. PICK p \in C!Pages(marker) : page' = p.names /\ next' = p.token
    BY <1>2 DEF C!AwsList
  <2>2. /\ provider = "aws" /\ call = "list" /\ call' = "entry"
        /\ UNCHANGED <<service, marker, at, found, skipped, outcome>>
    BY <1>2 DEF C!AwsList
  <2>3. CloudTyped /\ InTurn
    BY DEF CloudInv
  <2>4. marker \in Nat /\ page = {}
    BY <2>2, <2>3 DEF CloudTyped, InTurn
  <2>5. /\ page' \subseteq Nat /\ next' \in Nat
        /\ \A n \in C!Names(marker) : n \in page' \/ (next' # 0 /\ n > next')
    BY <2>1, <2>3, <2>4, PageCovers
  <2>6. InTurn'
    BY <2>2, <2>3 DEF InTurn, Listing, Iterating
  <2>7. ASSUME NEW r \in Stable, InListing(r) PROVE InListing(r)'
    <3>1. CASE r[1] = service /\ r[2] > marker
      <4>1. r[2] \in C!Names(marker)
        BY <3>1 DEF C!Names, Stable
      <4>2. r[2] \in page' \/ (next' # 0 /\ r[2] > next')
        BY <2>5, <4>1
      <4> QED
        BY <2>2, <3>1, <4>2 DEF InListing
    <3>2. CASE r[1] = "acm" /\ service = "kms"
      BY <2>2, <3>2 DEF InListing
    <3> QED
      BY <2>2, <2>4, <2>7, <3>1, <3>2 DEF InListing
  <2>8. \A r \in Stable : Settled(r) => Settled(r)'
    BY <2>2, SettledStays
  <2> QED
    BY <2>2, <2>4, <2>5, <2>6, <2>7, <2>8, KeptByListing DEF Listing
<1> QED
  BY <1>1, <1>2

LEMMA AzureListKeeps ==
    ASSUME CloudInv, C!AzureList, UNCHANGED <<provider, account, touched>> PROVE CloudInv'
<1>1. CASE C!Fail
  BY <1>1, FailKeeps
<1>2. CASE ~C!Fail
  <2>1. PICK p \in C!Pages(marker) : page' = page \cup p.names /\ next' = p.token
    BY <1>2 DEF C!AzureList
  <2>2. /\ provider = "azure" /\ call = "list"
        /\ UNCHANGED <<service, at, found, skipped, outcome>>
        /\ \/ next' # 0 /\ marker' = next' /\ call' = "list"
           \/ next' = 0 /\ call' = "entry" /\ marker' = marker
    BY <1>2 DEF C!AzureList
  <2>3. CloudTyped /\ InTurn
    BY DEF CloudInv
  <2>4. marker \in Nat /\ page \subseteq Nat /\ service = "vault"
    BY <2>2, <2>3 DEF CloudTyped, InTurn
  <2>5. /\ p.names \subseteq Nat /\ p.token \in Nat
        /\ \A n \in C!Names(marker) : n \in p.names \/ (p.token # 0 /\ n > p.token)
    BY <2>3, <2>4, PageCovers
  <2>6. InTurn'
    BY <2>2, <2>3 DEF InTurn, Listing, Iterating
  <2>7. ASSUME NEW r \in Stable, InListing(r) PROVE InListing(r)'
    <3>1. CASE r[1] = service /\ r[2] > marker
      <4>1. r[2] \in C!Names(marker)
        BY <3>1 DEF C!Names, Stable
      <4>2. r[2] \in page' \/ (next' # 0 /\ r[2] > next')
        BY <2>1, <2>5, <4>1
      <4> QED
        BY <2>2, <3>1, <4>2 DEF InListing
    <3>2. CASE r[1] = service /\ r[2] \in page
      BY <2>1, <2>2, <3>2 DEF InListing
    <3> QED
      BY <2>2, <2>4, <2>7, <3>1, <3>2 DEF InListing
  <2>8. \A r \in Stable : Settled(r) => Settled(r)'
    BY <2>2, SettledStays
  <2>9. marker' \in Nat /\ next' \in Nat /\ page' \subseteq Nat
    BY <2>1, <2>2, <2>4, <2>5
  <2> QED
    BY <2>2, <2>6, <2>7, <2>8, <2>9, KeptByListing DEF Listing
<1> QED
  BY <1>1, <1>2

\* The loop over a page may go on when the name it is at is settled.
LEMMA ContinueKeeps ==
    ASSUME CloudInv, C!Continue, page # {}, call \in {"entry", "tags"},
           UNCHANGED <<provider, account, touched>>,
           found \subseteq found', skipped \subseteq skipped',
           \A r \in Stable : r = <<service, C!Min(page)>> => Settled(r)'
    PROVE  CloudInv'
<1>1. /\ page' = page \ {C!Min(page)} /\ call' = "entry"
      /\ UNCHANGED <<service, marker, next, at, outcome>>
  BY DEF C!Continue
<1>2. CloudTyped /\ InTurn /\ provider \in {"aws", "azure"}
  BY DEF CloudInv, InTurn, Listing
<1>3. InTurn'
  BY <1>1, <1>2 DEF InTurn, Listing, Iterating
<1>4. page' \subseteq Nat /\ marker' \in Nat /\ next' \in Nat
  BY <1>1, <1>2 DEF CloudTyped
<1>5. ASSUME NEW r \in Stable, InListing(r) PROVE Settled(r)' \/ InListing(r)'
  <2>1. CASE r[1] = service /\ r[2] = C!Min(page)
    BY <1>2, <2>1, StableShape
  <2>2. CASE r[1] = service /\ r[2] \in page'
    BY <1>1, <2>2 DEF InListing
  <2> QED
    BY <1>1, <1>5, <2>1, <2>2 DEF InListing
<1>6. \A r \in Stable : Settled(r) => Settled(r)'
  BY SettledStays
<1> QED
  BY <1>1, <1>3, <1>4, <1>5, <1>6, KeptByListing DEF Listing

LEMMA DescribeKeeps ==
    ASSUME CloudInv, C!Describe, UNCHANGED <<provider, account, touched>> PROVE CloudInv'
<1>1. provider = "aws" /\ call = "entry" /\ page # {}
  BY DEF C!Describe
<1> DEFINE k == <<service, C!Min(page)>>
<1>2. CASE C!Skip(C!Current) /\ C!Continue /\ UNCHANGED found
  <2>1. skipped' = skipped \cup {k}
    BY <1>2 DEF C!Skip, C!Current
  <2>2. \A r \in Stable : r = k => Settled(r)'
    BY <2>1, CoversItsParts DEF Settled
  <2> QED
    BY <1>1, <1>2, <2>1, <2>2, ContinueKeeps
<1>3. CASE UNCHANGED <<found, skipped>> /\ C!Continue /\ service = "kms" /\ ~C!Tracked(C!Current)
  <2>1. \A r \in Stable : r = k => ~C!Tracked(r) /\ r[1] = "kms"
    BY <1>3 DEF C!Current
  <2>2. \A r \in Stable : r = k => Settled(r)'
    BY <2>1 DEF Settled
  <2> QED
    BY <1>1, <1>3, <2>2, ContinueKeeps
<1>4. CASE UNCHANGED <<found, skipped>> /\ call' = "tags" /\ UNCHANGED <<service, marker, page, next, at, outcome>>
  <2>1. InTurn'
    BY <1>1, <1>4 DEF CloudInv, InTurn, Listing, Iterating
  <2>2. \A r \in Stable : Settled(r) => Settled(r)'
    BY <1>4, SettledStays
  <2>3. \A r \in Stable : InListing(r) => InListing(r)'
    BY <1>1, <1>4 DEF InListing
  <2>4. page' \subseteq Nat /\ marker' \in Nat /\ next' \in Nat
    BY <1>4 DEF CloudInv, CloudTyped
  <2> QED
    BY <1>1, <1>4, <2>1, <2>2, <2>3, <2>4, KeptByListing DEF Listing
<1> QED
  BY <1>2, <1>3, <1>4 DEF C!Describe, C!listing

LEMMA FetchTagsKeeps ==
    ASSUME CloudInv, C!FetchTags, UNCHANGED <<provider, account, touched>> PROVE CloudInv'
<1>1. /\ call = "tags" /\ C!Continue /\ skipped \subseteq skipped'
      /\ found' = found \cup IF service = "kms" THEN C!KmsFindings(C!Current)
                                               ELSE C!CertificateFindings(C!Current)
  BY DEF C!FetchTags, C!Skip
<1>2. page # {} /\ provider = "aws" /\ service \in {"kms", "acm"}
  BY <1>1 DEF CloudInv, InTurn, Listing, Iterating
<1>3. ASSUME NEW r \in Stable, r = C!Current PROVE Settled(r)'
  <2>1. CASE service = "kms"
    <3>1. C!Finds(r, FALSE) \in found'
      BY <1>1, <1>3, <2>1 DEF C!KmsFindings
    <3>2. r \notin Expired
      BY <1>3, <2>1, SourcesAssumption DEF C!ConstantsOK, C!Current
    <3> QED
      BY <3>1, <3>2 DEF Settled
  <2>2. CASE service = "acm"
    <3>1. C!CertificateFindings(r) \subseteq found'
      BY <1>1, <1>3, <2>2
    <3>2. C!Tracked(r) => C!Finds(r, FALSE) \in found'
      BY <3>1 DEF C!CertificateFindings
    <3>3. r \in Expired => C!Finds(r, TRUE) \in found'
      BY <3>1 DEF C!CertificateFindings
    <3> QED
      BY <3>2, <3>3 DEF Settled
  <2> QED
    BY <1>2, <2>1, <2>2
<1>4. \A r \in Stable : r = <<service, C!Min(page)>> => Settled(r)'
  BY <1>3 DEF C!Current
<1> QED
  BY <1>1, <1>2, <1>4, ContinueKeeps

LEMMA NextPageKeeps ==
    ASSUME CloudInv, C!NextPage, UNCHANGED <<provider, account, touched>> PROVE CloudInv'
<1>1. /\ provider = "aws" /\ call = "entry" /\ page = {}
      /\ UNCHANGED <<page, next, at, found, skipped, outcome>>
  BY DEF C!NextPage
<1>2. CloudTyped /\ InTurn /\ service \in {"kms", "acm"}
  BY <1>1 DEF CloudInv, InTurn
<1>3. \A r \in Stable : Settled(r) => Settled(r)'
  BY <1>1, SettledStays
<1>4. CASE next # 0 /\ marker' = next /\ call' = "list" /\ service' = service
  <2>1. InTurn'
    BY <1>1, <1>2, <1>4 DEF InTurn, Listing, Iterating
  <2>2. \A r \in Stable : InListing(r) => InListing(r)'
    BY <1>1, <1>4 DEF InListing
  <2>3. page' \subseteq Nat /\ marker' \in Nat /\ next' \in Nat
    BY <1>1, <1>2, <1>4 DEF CloudTyped
  <2> QED
    BY <1>1, <1>3, <1>4, <2>1, <2>2, <2>3, KeptByListing DEF Listing
<1>5. CASE next = 0 /\ service = "kms" /\ service' = "acm" /\ marker' = 0 /\ call' = "list"
  <2>1. InTurn'
    BY <1>1, <1>2, <1>5 DEF InTurn, Listing, Iterating
  <2>2. ASSUME NEW r \in Stable, InListing(r) PROVE InListing(r)'
    <3>1. r[1] = "acm"
      BY <1>1, <1>5, <2>2 DEF InListing
    <3>2. r[2] > marker'
      BY <1>1, <1>2, <1>5, StableShape
    <3> QED
      BY <1>5, <3>1, <3>2 DEF InListing
  <2>3. page' \subseteq Nat /\ marker' \in Nat /\ next' \in Nat
    BY <1>1, <1>2, <1>5 DEF CloudTyped
  <2> QED
    BY <1>1, <1>3, <1>5, <2>1, <2>2, <2>3, KeptByListing DEF Listing
<1>6. CASE next = 0 /\ service # "kms" /\ call' = "report" /\ UNCHANGED <<service, marker>>
  <2>1. CloudTyped'
    BY <1>1, <1>2, <1>6 DEF CloudTyped, C!ProviderOf
  <2>2. InTurn'
    BY <1>1, <1>2, <1>6 DEF InTurn, Listing, Iterating
  <2>3. \A r \in Stable : ~InListing(r)
    BY <1>1, <1>6 DEF InListing
  <2>4. Progress'
    BY <1>1, <1>3, <1>6, <2>3 DEF CloudInv, Progress, Listing, Iterating, Stable
  <2> QED
    BY <2>1, <2>2, <2>4 DEF CloudInv
<1> QED
  BY <1>4, <1>5, <1>6 DEF C!NextPage

LEMMA GetKeyKeeps ==
    ASSUME CloudInv, C!GetKey, UNCHANGED <<provider, account, touched>> PROVE CloudInv'
<1>1. provider = "azure" /\ call = "entry" /\ page # {} /\ C!Continue
  BY DEF C!GetKey
<1>2. service = "vault"
  BY <1>1 DEF CloudInv, InTurn
<1> DEFINE k == <<service, C!Min(page)>>
<1>3. CASE k \in Disabled /\ UNCHANGED <<found, skipped>>
  BY <1>1, <1>3, ContinueKeeps DEF Settled
<1>4. CASE C!Skip(k) /\ UNCHANGED found
  <2>1. skipped' = skipped \cup {k}
    BY <1>4 DEF C!Skip
  <2>2. \A r \in Stable : r = k => Settled(r)'
    BY <2>1, CoversItsParts DEF Settled
  <2> QED
    BY <1>1, <1>4, <2>1, <2>2, ContinueKeeps
<1>5. CASE /\ found' = found \cup {C!Finds(C!Current, e) : e \in {x \in BOOLEAN :
                             C!Tracked(C!Current) /\ (x => C!Current \in Expired)}}
           /\ UNCHANGED skipped
  <2>1. ASSUME NEW r \in Stable, r = C!Current PROVE Settled(r)'
    <3>1. found' = found \cup {C!Finds(r, e) : e \in {x \in BOOLEAN :
                             C!Tracked(r) /\ (x => r \in Expired)}}
      BY <1>5, <2>1
    <3>2. C!Tracked(r) => C!Finds(r, FALSE) \in found'
      BY <3>1
    <3>3. C!Tracked(r) /\ r \in Expired => C!Finds(r, TRUE) \in found'
      BY <3>1
    <3>4. r[1] # "acm"
      BY <1>2, <2>1 DEF C!Current
    <3> QED
      BY <3>2, <3>3, <3>4 DEF Settled
  <2>2. \A r \in Stable : r = k => Settled(r)'
    BY <2>1 DEF C!Current
  <2> QED
    BY <1>1, <1>5, <2>2, ContinueKeeps
<1> QED
  BY <1>3, <1>4, <1>5 DEF C!GetKey, C!Current

LEMMA EndOfKeysKeeps ==
    ASSUME CloudInv, C!EndOfKeys, UNCHANGED <<provider, account, touched>> PROVE CloudInv'
<1>1. /\ provider = "azure" /\ call = "entry" /\ page = {} /\ call' = "report"
      /\ UNCHANGED <<service, marker, page, next, at, found, skipped, outcome>>
  BY DEF C!EndOfKeys, C!listing
<1>2. next = 0 /\ service = "vault"
  BY <1>1 DEF CloudInv, InTurn
<1>3. CloudTyped' /\ InTurn'
  BY <1>1 DEF CloudInv, CloudTyped, C!ProviderOf, InTurn, Listing, Iterating
<1>4. \A r \in Stable : ~InListing(r)
  BY <1>1, <1>2 DEF InListing
<1>5. \A r \in Stable : Settled(r) => Settled(r)'
  BY <1>1, SettledStays
<1>6. Progress'
  BY <1>1, <1>4, <1>5 DEF CloudInv, Progress, Listing, Iterating, Stable
<1> QED
  BY <1>3, <1>6 DEF CloudInv

LEMMA ReportKeeps ==
    ASSUME CloudInv, C!Report, UNCHANGED <<provider, account, touched>> PROVE CloudInv'
<1>1. /\ call = "report" /\ call' = "done" /\ outcome' \in {"whole", "partial"}
      /\ UNCHANGED <<service, marker, page, next, at, found, skipped>>
  BY DEF C!Report, C!listing
<1>2. CloudTyped' /\ InTurn' /\ outcome = ""
  BY <1>1 DEF CloudInv, CloudTyped, C!ProviderOf, InTurn, Listing, Iterating
<1>3. \A r \in Stable : Settled(r) => Settled(r)'
  BY <1>1, SettledStays
<1>4. Progress'
  BY <1>1, <1>2, <1>3 DEF CloudInv, Progress, Listing, Iterating, Stable
<1> QED
  BY <1>2, <1>4 DEF CloudInv

\* What an iterator has still to return.
Rings(n)          == C!Below(<<"gcp">>, n)
Keys(ring, n)     == C!Below(<<"gcp", ring>>, n)
Versions(a, b, n) == C!Below(<<"gcp", a, b>>, n)

LEMMA BelowGreater ==
    ASSUME NEW a, NEW b, NEW n \in Nat
    PROVE  /\ \A x \in Rings(n) : x \in Nat /\ x > n
           /\ \A x \in Keys(a, n) : x \in Nat /\ x > n
           /\ \A x \in Versions(a, b, n) : x \in Nat /\ x > n
<1>1. Rings(n) = {r[2] : r \in {x \in Resource : C!IsStrictPrefix(<<"gcp">>, x) /\ x[2] > n}}
  BY DEF Rings, C!Below
<1>2. Keys(a, n) = {r[3] : r \in {x \in Resource : C!IsStrictPrefix(<<"gcp", a>>, x) /\ x[3] > n}}
  BY DEF Keys, C!Below
<1>3. Versions(a, b, n) =
         {r[4] : r \in {x \in Resource : C!IsStrictPrefix(<<"gcp", a, b>>, x) /\ x[4] > n}}
  BY DEF Versions, C!Below
<1>4. \A r \in Resource : r[2] \in Nat
  BY ResourceShape
<1>5. ASSUME NEW r \in Resource, C!IsStrictPrefix(<<"gcp", a>>, r) PROVE r[3] \in Nat
  <2>1. \A s \in {"kms", "acm", "vault"}, m \in Nat : r # <<s, m>>
    BY <1>5, PrefixOfTwo DEF C!IsStrictPrefix
  <2> QED
    BY <2>1, ResourceShape
<1>6. ASSUME NEW r \in Resource, C!IsStrictPrefix(<<"gcp", a, b>>, r) PROVE r[4] \in Nat
  <2>1. \A s \in {"kms", "acm", "vault"}, m \in Nat : r # <<s, m>>
    BY <1>6, PrefixOfTwo3 DEF C!IsStrictPrefix
  <2> QED
    BY <2>1, ResourceShape
<1> QED
  BY <1>1, <1>2, <1>3, <1>4, <1>5, <1>6

LEMMA BelowHas ==
    ASSUME NEW r \in Resource, r = <<"gcp", r[2], r[3], r[4]>>, NEW n \in Nat
    PROVE  /\ r[2] > n => r[2] \in Rings(n)
           /\ r[3] > n => r[3] \in Keys(r[2], n)
           /\ r[4] > n => r[4] \in Versions(r[2], r[3], n)
<1>1. Covers(<<"gcp">>, r) /\ Covers(<<"gcp", r[2]>>, r) /\ Covers(<<"gcp", r[2], r[3]>>, r)
  BY CoversItsParts
<1>2. <<"gcp">> # r /\ <<"gcp", r[2]>> # r /\ <<"gcp", r[2], r[3]>> # r
  OBVIOUS
<1>3. r[2] > n => r[2] \in Rings(n)
  BY <1>1, <1>2 DEF Rings, C!Below, C!IsStrictPrefix, Covers
<1>4. r[3] > n => r[3] \in Keys(r[2], n)
  BY <1>1, <1>2 DEF Keys, C!Below, C!IsStrictPrefix, Covers
<1>5. r[4] > n => r[4] \in Versions(r[2], r[3], n)
  BY <1>1, <1>2 DEF Versions, C!Below, C!IsStrictPrefix, Covers
<1> QED
  BY <1>3, <1>4, <1>5

LEMMA MinIs ==
    ASSUME NEW S \in SUBSET Nat, S # {}
    PROVE  C!Min(S) \in S /\ \A x \in S : C!Min(S) <= x
  BY Least DEF C!Min

LEMMA KeptByIterating ==
    ASSUME CloudInv, call \in Iterating, provider = "gcp", outcome' = outcome,
           call' \in {"rings", "keys", "versions"},
           UNCHANGED <<provider, account, touched, service, marker, page, next>>,
           \E a, b, c \in Nat : at' = <<a, b, c>>,
           \A r \in Stable : Settled(r) \/ InIterators(r) => Settled(r)' \/ InIterators(r)'
    PROVE  CloudInv'
<1>1. CloudTyped'
  BY DEF CloudInv, CloudTyped, C!ProviderOf
<1>2. InTurn'
  BY DEF CloudInv, InTurn, Listing, Iterating
<1>3. Progress'
  BY DEF CloudInv, Progress, Listing, Iterating, Stable
<1> QED
  BY <1>1, <1>2, <1>3 DEF CloudInv

LEMMA InGcp ==
    ASSUME CloudInv, call \in Iterating
    PROVE  /\ provider = "gcp" /\ at = <<at[1], at[2], at[3]>>
           /\ at[1] \in Nat /\ at[2] \in Nat /\ at[3] \in Nat
           /\ \A r \in Stable :
                 /\ r \in Resource /\ r = <<"gcp", r[2], r[3], r[4]>>
                 /\ r[2] \in Nat /\ r[3] \in Nat /\ r[4] \in Nat
                 /\ r[2] > 0 /\ r[3] > 0 /\ r[4] > 0
<1>1. provider = "gcp" /\ CloudTyped
  BY DEF CloudInv, InTurn, Iterating
<1>2. at = <<at[1], at[2], at[3]>> /\ at[1] \in Nat /\ at[2] \in Nat /\ at[3] \in Nat
  BY <1>1 DEF CloudTyped
<1> QED
  BY <1>1, <1>2, StableShape

LEMMA NextRingKeeps ==
    ASSUME CloudInv, C!NextRing, UNCHANGED <<provider, account, touched>> PROVE CloudInv'
<1>1. call = "rings" /\ call \in Iterating
  BY DEF C!NextRing, Iterating
<1>2. CASE C!Fail
  BY <1>2, FailKeeps
<1>3. CASE Rings(at[1]) = {} /\ call' = "report"
           /\ UNCHANGED <<at, service, marker, page, next, found, skipped, outcome>>
  <2>1. CloudTyped' /\ InTurn'
    BY <1>1, <1>3, InGcp DEF CloudInv, CloudTyped, C!ProviderOf, InTurn, Listing, Iterating
  <2>2. \A r \in Stable : ~(r[2] > at[1])
    BY <1>1, <1>3, InGcp, BelowHas
  <2>3. \A r \in Stable : ~InIterators(r)
    BY <1>1, <2>2 DEF InIterators
  <2>4. \A r \in Stable : Settled(r) => Settled(r)'
    BY <1>3, SettledStays
  <2>5. Progress'
    BY <1>1, <1>3, <2>3, <2>4 DEF CloudInv, Progress, Listing, Iterating, Stable
  <2> QED
    BY <2>1, <2>5 DEF CloudInv
<1>4. CASE /\ Rings(at[1]) # {} /\ call' = "keys" /\ at' = <<C!Min(Rings(at[1])), 0, 0>>
           /\ UNCHANGED <<service, marker, page, next, found, skipped, outcome>>
  <2>1. PICK m \in Nat : at' = <<m, 0, 0>> /\ m \in Rings(at[1]) /\ \A x \in Rings(at[1]) : m <= x
    BY <1>1, <1>4, InGcp, BelowGreater, MinIs
  <2>2. at'[1] = m /\ at'[2] = 0 /\ at'[3] = 0
    BY <2>1
  <2>3. ASSUME NEW r \in Stable, InIterators(r) PROVE InIterators(r)'
    <3>1. r[2] > at[1]
      BY <1>1, <2>3 DEF InIterators
    <3>2. r[2] \in Nat /\ r[3] \in Nat /\ r[3] > 0 /\ m <= r[2]
      BY <1>1, <2>1, <3>1, InGcp, BelowHas
    <3>3. r[2] > at'[1] \/ (r[2] = at'[1] /\ r[3] > at'[2])
      BY <2>2, <3>2
    <3> QED
      BY <1>4, <3>3 DEF InIterators
  <2>4. \A r \in Stable : Settled(r) => Settled(r)'
    BY <1>4, SettledStays
  <2> QED
    BY <1>1, <1>4, <2>1, <2>3, <2>4, InGcp, KeptByIterating
<1>5. Rings(at[1]) = C!Below(<<"gcp">>, at[1])
  BY DEF Rings
<1> QED
  BY <1>2, <1>3, <1>4, <1>5 DEF C!NextRing, C!listing

LEMMA NextKeyKeeps ==
    ASSUME CloudInv, C!NextKey, UNCHANGED <<provider, account, touched>> PROVE CloudInv'
<1>1. /\ call = "keys" /\ call \in Iterating
      /\ UNCHANGED <<service, marker, page, next, found, outcome>>
  BY DEF C!NextKey, Iterating, C!listing
<1> DEFINE left == Keys(at[1], at[2])
<1>2. left = C!Below(C!Ring, at[2])
  BY DEF C!Ring, Keys
<1>3. CASE skipped' = skipped \cup {<<"gcp", at[1]>>} /\ call' = "rings" /\ UNCHANGED at
  <2>1. ASSUME NEW r \in Stable, InIterators(r) PROVE Settled(r)' \/ InIterators(r)'
    <3>1. CASE r[2] = at[1]
      <4>1. r = <<"gcp", at[1], r[3], r[4]>>
        BY <1>1, <3>1, InGcp
      <4>2. Covers(<<"gcp", at[1]>>, <<"gcp", at[1], r[3], r[4]>>)
        BY CoversItsParts
      <4> QED
        BY <1>3, <4>1, <4>2 DEF Settled
    <3>2. CASE r[2] > at[1]
      BY <1>3, <3>2 DEF InIterators
    <3> QED
      BY <2>1, <3>1, <3>2 DEF InIterators
  <2>2. \A r \in Stable : Settled(r) => Settled(r)'
    BY <1>1, <1>3, SettledStays
  <2> QED
    BY <1>1, <1>3, <2>1, <2>2, InGcp, KeptByIterating
<1>4. CASE left = {} /\ call' = "rings" /\ UNCHANGED <<at, skipped>>
  <2>1. ASSUME NEW r \in Stable, InIterators(r) PROVE InIterators(r)'
    <3>1. ~(r[2] = at[1] /\ r[3] > at[2])
      BY <1>1, <1>4, InGcp, BelowHas
    <3> QED
      BY <1>1, <1>4, <2>1, <3>1 DEF InIterators
  <2>2. \A r \in Stable : Settled(r) => Settled(r)'
    BY <1>1, <1>4, SettledStays
  <2> QED
    BY <1>1, <1>4, <2>1, <2>2, InGcp, KeptByIterating
<1>5. CASE /\ left # {} /\ at' = <<at[1], C!Min(left), 0>> /\ call' = "versions"
           /\ UNCHANGED skipped
  <2> DEFINE m == C!Min(left)
  <2>1. m \in Nat /\ at' = <<at[1], m, 0>> /\ \A x \in left : m <= x
    <3>1. left \subseteq Nat
      BY <1>1, InGcp, BelowGreater
    <3> QED
      BY <1>5, <3>1, MinIs
  <2> HIDE DEF m
  <2>2. at'[1] = at[1] /\ at'[2] = m /\ at'[3] = 0
    BY <2>1
  <2>3. ASSUME NEW r \in Stable, InIterators(r) PROVE InIterators(r)'
    <3>1. CASE r[2] = at[1] /\ r[3] > at[2]
      <4>1. r[3] \in Nat /\ r[4] \in Nat /\ r[4] > 0 /\ m <= r[3]
        BY <1>1, <2>1, <3>1, InGcp, BelowHas
      <4>2. r[3] > at'[2] \/ (r[3] = at'[2] /\ r[4] > at'[3])
        BY <2>1, <2>2, <4>1
      <4> QED
        BY <1>5, <2>2, <3>1, <4>2 DEF InIterators
    <3>2. CASE r[2] > at[1]
      BY <2>2, <3>2 DEF InIterators
    <3> QED
      BY <1>1, <2>3, <3>1, <3>2 DEF InIterators
  <2>4. \A r \in Stable : Settled(r) => Settled(r)'
    BY <1>1, <1>5, SettledStays
  <2>5. \E a, b, c \in Nat : at' = <<a, b, c>>
    BY <1>1, <2>1, InGcp
  <2> QED
    BY <1>1, <1>5, <2>3, <2>4, <2>5, InGcp, KeptByIterating
<1> QED
  BY <1>2, <1>3, <1>4, <1>5 DEF C!NextKey, C!Skip, C!Ring

LEMMA SameSequence ==
    ASSUME NEW S, NEW s \in Seq(S), NEW t \in Seq(S), Len(s) = Len(t),
           \A i \in 1 .. Len(s) : s[i] = t[i]
    PROVE  s = t
  OBVIOUS

LEMMA AppendToThree ==
    ASSUME NEW a, NEW b, NEW c, NEW d PROVE Append(<<a, b, c>>, d) = <<a, b, c, d>>
<1> DEFINE S == {a, b, c, d}
<1>1. <<a, b, c>> \in Seq(S) /\ <<a, b, c, d>> \in Seq(S) /\ d \in S
  OBVIOUS
<1> HIDE DEF S
<1>2. Append(<<a, b, c>>, d) \in Seq(S)
  BY <1>1
<1>3. Len(Append(<<a, b, c>>, d)) = 4 /\ Len(<<a, b, c, d>>) = 4
  BY <1>1
<1>4. \A i \in 1 .. 4 : Append(<<a, b, c>>, d)[i] = <<a, b, c, d>>[i]
  BY <1>1
<1> QED
  BY <1>1, <1>2, <1>3, <1>4, SameSequence

LEMMA NextVersionKeeps ==
    ASSUME CloudInv, C!NextVersion, UNCHANGED <<provider, account, touched>> PROVE CloudInv'
<1>1. /\ call = "versions" /\ call \in Iterating
      /\ UNCHANGED <<service, marker, page, next, outcome>>
  BY DEF C!NextVersion, Iterating, C!listing
<1> DEFINE left == Versions(at[1], at[2], at[3])
<1>2. left = C!Below(C!Key, at[3])
  BY DEF C!Key, Versions
<1>3. CASE /\ skipped' = skipped \cup {<<"gcp", at[1], at[2]>>} /\ call' = "keys"
           /\ UNCHANGED <<at, found>>
  <2>1. ASSUME NEW r \in Stable, InIterators(r) PROVE Settled(r)' \/ InIterators(r)'
    <3>1. CASE r[2] = at[1] /\ r[3] = at[2]
      <4>1. r = <<"gcp", at[1], at[2], r[4]>>
        BY <1>1, <3>1, InGcp
      <4>2. Covers(<<"gcp", at[1], at[2]>>, <<"gcp", at[1], at[2], r[4]>>)
        BY CoversItsParts
      <4> QED
        BY <1>3, <4>1, <4>2 DEF Settled
    <3>2. CASE ~(r[2] = at[1] /\ r[3] = at[2])
      BY <1>1, <1>3, <2>1, <3>2 DEF InIterators
    <3> QED
      BY <3>1, <3>2
  <2>2. \A r \in Stable : Settled(r) => Settled(r)'
    BY <1>3, SettledStays
  <2> QED
    BY <1>1, <1>3, <2>1, <2>2, InGcp, KeptByIterating
<1>4. CASE left = {} /\ call' = "keys" /\ UNCHANGED <<at, found, skipped>>
  <2>1. ASSUME NEW r \in Stable, InIterators(r) PROVE InIterators(r)'
    <3>1. ~(r[2] = at[1] /\ r[3] = at[2] /\ r[4] > at[3])
      BY <1>1, <1>4, InGcp, BelowHas
    <3> QED
      BY <1>1, <1>4, <2>1, <3>1 DEF InIterators
  <2>2. \A r \in Stable : Settled(r) => Settled(r)'
    BY <1>4, SettledStays
  <2> QED
    BY <1>1, <1>4, <2>1, <2>2, InGcp, KeptByIterating
<1>5. ASSUME NEW v, v = <<"gcp", at[1], at[2], C!Min(left)>>,
             left # {}, at' = [at EXCEPT ![3] = C!Min(left)],
             found' = IF v \in account /\ C!Tracked(v)
                        THEN found \cup {C!Finds(v, FALSE)} ELSE found,
             UNCHANGED <<call, skipped>>
      PROVE  CloudInv'
  <2>1. PICK m \in Nat : m = C!Min(left) /\ \A x \in left : m <= x
    BY <1>1, <1>5, InGcp, BelowGreater, MinIs
  <2>2. at' = <<at[1], at[2], m>> /\ at'[1] = at[1] /\ at'[2] = at[2] /\ at'[3] = m
    BY <1>1, <1>5, <2>1, InGcp
  <2>3. ASSUME NEW r \in Stable, InIterators(r) PROVE Settled(r)' \/ InIterators(r)'
    <3>1. CASE r[2] = at[1] /\ r[3] = at[2] /\ r[4] > at[3]
      <4>1. r[4] \in Nat /\ m <= r[4] /\ r = <<"gcp", r[2], r[3], r[4]>>
        BY <1>1, <2>1, <3>1, InGcp, BelowHas
      <4>2. CASE r[4] > m
        BY <1>1, <1>5, <2>2, <3>1, <4>2 DEF InIterators
      <4>3. CASE r[4] = m
        <5>1. r = v /\ r \in account
          BY <1>5, <2>1, <3>1, <4>1, <4>3 DEF Stable
        <5>2. r \notin Expired
          BY <4>1, SourcesAssumption DEF C!ConstantsOK
        <5>3. r[1] # "acm"
          BY <4>1
        <5>4. C!Tracked(r) => C!Finds(r, FALSE) \in found'
          BY <1>5, <5>1
        <5> QED
          BY <5>2, <5>3, <5>4 DEF Settled
      <4> QED
        BY <4>1, <4>2, <4>3
    <3>2. CASE ~(r[2] = at[1] /\ r[3] = at[2] /\ r[4] > at[3])
      BY <1>1, <1>5, <2>2, <2>3, <3>2 DEF InIterators
    <3> QED
      BY <3>1, <3>2
  <2>4. \A r \in Stable : Settled(r) => Settled(r)'
    BY <1>5, SettledStays
  <2>5. \E a, b, c \in Nat : at' = <<a, b, c>>
    BY <1>1, <2>2, InGcp
  <2> QED
    BY <1>1, <1>5, <2>3, <2>4, <2>5, InGcp, KeptByIterating
<1>6. C!Key = <<"gcp", at[1], at[2]>>
  BY DEF C!Key
<1>7. \A m : Append(<<"gcp", at[1], at[2]>>, m) = <<"gcp", at[1], at[2], m>>
  BY AppendToThree
<1> QED
  BY <1>2, <1>3, <1>4, <1>5, <1>6, <1>7 DEF C!NextVersion, C!Skip

LEMMA CloudInvariance == SourcesSpec => []CloudInv
<1>1. ASSUME CloudInv, [SourcesNext]_allVars PROVE CloudInv'
  <2>1. CASE C!Scan
    <3>1. UNCHANGED <<provider, account, touched>>
      BY <2>1 DEF C!Scan
    <3> QED
      BY <1>1, <2>1, <3>1, AwsListKeeps, DescribeKeeps, FetchTagsKeeps, NextPageKeeps,
         AzureListKeeps, GetKeyKeeps, EndOfKeysKeeps, NextRingKeeps, NextKeyKeeps,
         NextVersionKeeps, ReportKeeps DEF C!Scan
  <2>2. CASE \E r \in Resource : C!Change(r)
    BY <1>1, <2>2, ChangeIsNoLoss
  <2>3. CASE UNCHANGED cloud
    BY <1>1, <2>3 DEF cloud, CloudInv, CloudTyped, C!ProviderOf, InTurn, Progress, Stable,
       Settled, InListing, InIterators
  <2> QED
    BY <1>1, <2>1, <2>2, <2>3, CloudStep
<1> QED
  BY <1>1, CloudInitial, PTL DEF SourcesSpec

\* aws.Scan, azure.Scan, gcp.Scan: of any account, with listings of any length on
\* pages of any size, whatever call is refused and whatever others create or
\* remove meanwhile, what was there all the time is in the inventory with
\* everything known of it, or on the list of what was skipped, or of a kind that
\* is not taken up.
THEOREM EveryResourceIsAccountedFor == SourcesSpec => []Accounted
<1>1. ASSUME CloudInv PROVE Accounted
  <2> SUFFICES ASSUME outcome \in {"whole", "partial"}, NEW r \in Stable PROVE Settled(r)
    BY DEF Accounted, C!Accounted, Settled, Covers, Stable
  <2>1. call = "done" /\ outcome # "failed"
    BY <1>1 DEF CloudInv, InTurn
  <2> QED
    BY <1>1, <2>1 DEF CloudInv, Progress
<1> QED
  BY <1>1, CloudInvariance, PTL

-----------------------------------------------------------------------------
(* The types of all sources.                                               *)

LEMMA ProbeTypes == ProbeInv => P!TypeOK
<1> SUFFICES ASSUME ProbeInv PROVE P!TypeOK
  OBVIOUS
<1>1. /\ turn \in 1 .. Len(targets) + 1 /\ Len(targets) \in Nat
      /\ IsFiniteSet(mute) /\ mute \subseteq 1 .. turn - 1
      /\ walked \in Nat /\ walked + Cardinality(mute) = turn - 1
  BY DEF ProbeInv, ProbeTally
<1>2. Cardinality(mute) \in Nat
  BY <1>1, FS_CardinalityType
<1>3. turn \in Nat
  BY <1>1
<1> DEFINE c == Cardinality(mute)
<1>4. walked \in 0 .. turn - 1
  <2>1. c \in Nat /\ walked + c = turn - 1
    BY <1>1, <1>2
  <2> HIDE DEF c
  <2> QED
    BY <1>1, <1>3, <2>1
<1>5. Len(answers) = turn - 1 /\ \A f \in observed : f.turn \in 1 .. turn - 1 /\ (graded => f.class # "")
  BY DEF ProbeInv, ProbeResult
<1> QED
  BY <1>1, <1>4, <1>5 DEF P!TypeOK

\* What ImageInv and BudgetInv leave open of the types of an image scan.
ImageTypeInv ==
    /\ step = "layer" => inner <= Len(tars[image][outer].files) + 1
    /\ \A p \in DOMAIN files :
          p # <<>> /\ files[p] \in [size : 0 .. MaxFileBytes, holds : I!Held]
    /\ \A h \in hits : h.image \in 1 .. image /\ h.holds \in I!Held
    /\ notices \subseteq 1 .. image
    /\ ended \in {"", "failed", "ok"}

LEMMA ImageTypeInitial == SourcesInit => ImageTypeInv
<1>1. SourcesInit => I!Init
  BY DEF SourcesInit, NoImage
<1>2. I!Init => ImageTypeInv
  BY DEF I!Init, I!NoFiles, ImageTypeInv
<1> QED
  BY <1>1, <1>2

LEMMA AbortTypes ==
    ASSUME ImageTypeInv, I!Abort, UNCHANGED tars PROVE ImageTypeInv'
  BY DEF ImageTypeInv, I!Abort

LEMMA ExtractTypes ==
    ASSUME ImageInv, ImageTypeInv, I!Extract, UNCHANGED tars PROVE ImageTypeInv'
<1> SUFFICES ASSUME ~I!Abort PROVE ImageTypeInv'
  BY AbortTypes
<1> DEFINE file == tars[image][outer].files[inner]
           path == I!safeJoin(file.name)
           D == DOMAIN files
           FileData == [size : 0 .. MaxFileBytes, holds : I!Held]
<1>1. /\ step = "layer" /\ inner <= Len(tars[image][outer].files) /\ inner' = inner + 1
      /\ file.size <= MaxFileBytes /\ path # <<>>
      /\ UNCHANGED <<step, image, outer, hits, notices, ended>>
      /\ files' = [p \in D \cup {path} |->
                     IF p = path THEN [size |-> file.size, holds |-> file.holds] ELSE files[p]]
  BY DEF I!Extract, I!File, I!Entry, I!Conflicts
<1>2. /\ tars \in Images /\ image \in DOMAIN tars /\ outer \in DOMAIN tars[image]
      /\ inner \in Nat /\ inner > 0
  BY <1>1 DEF ImageInv, ImageTyped, InTheTars, ImageCounters
<1>3. tars[image][outer].files \in Seq(I!ImageFile) /\ Len(tars[image][outer].files) \in Nat
  BY <1>2, TarsTyped
<1>4. file \in I!ImageFile
  BY <1>1, <1>2, <1>3
<1>5. file.size \in 0 .. MaxFileBytes /\ file.holds \in I!Held
  <2>1. file.size \in Nat /\ file.holds \in I!Held /\ MaxFileBytes \in Nat
    BY <1>4, SourcesAssumption DEF I!ImageFile, I!ConstantsOK
  <2> QED
    BY <1>1, <2>1
<1>6. \A p \in D : p # <<>> /\ files[p] \in FileData
  BY DEF ImageTypeInv
<1>7. inner' <= Len(tars[image][outer].files) + 1
  BY <1>1, <1>2, <1>3
<1> HIDE DEF file, path, D
<1>8. [size |-> file.size, holds |-> file.holds] \in FileData
  BY <1>5
<1> HIDE DEF FileData
<1>9. \A p \in DOMAIN files' : p # <<>> /\ files'[p] \in FileData
  BY <1>1, <1>6, <1>8
<1> QED
  BY <1>1, <1>7, <1>9 DEF ImageTypeInv, FileData

LEMMA ScanFilesTypes ==
    ASSUME ImageInv, ImageTypeInv, I!ScanFiles, UNCHANGED tars PROVE ImageTypeInv'
<1> SUFFICES ASSUME ~I!Abort PROVE ImageTypeInv'
  BY AbortTypes
<1>1. /\ step = "scan" /\ step' # "layer" /\ UNCHANGED files
      /\ hits' = hits \cup
            {I!Hit(image, p, files[p].holds) :
                p \in {q \in DOMAIN files : I!Seen(q, files[q].size, files[q].holds)}}
      /\ notices' = IF oversize > 0 THEN notices \cup {image} ELSE notices
      /\ image' = image + 1 \/ image' = image
      /\ ended' = ended \/ ended' = "ok"
  BY DEF I!ScanFiles
<1>2. image \in Nat /\ image > 0
  <2>1. tars \in Images /\ image \in DOMAIN tars
    BY DEF ImageInv, ImageTyped, InTheTars
  <2> QED
    BY <2>1, TarsTyped
<1>3. image \in 1 .. image' /\ \A n \in 1 .. image : n \in 1 .. image'
  BY <1>1, <1>2
<1>4. \A p \in DOMAIN files : files[p].holds \in I!Held
  BY DEF ImageTypeInv
<1>5. ASSUME NEW h \in hits' PROVE h.image \in 1 .. image' /\ h.holds \in I!Held
  <2>1. CASE h \in hits
    BY <1>3, <2>1 DEF ImageTypeInv
  <2>2. CASE h \notin hits
    <3>1. PICK p \in DOMAIN files : h = I!Hit(image, p, files[p].holds)
      BY <1>1, <2>2
    <3>2. h.image = image /\ h.holds = files[p].holds
      BY <3>1 DEF I!Hit
    <3> QED
      BY <1>3, <1>4, <3>2
  <2> QED
    BY <2>1, <2>2
<1>6. notices' \subseteq 1 .. image'
  BY <1>1, <1>3 DEF ImageTypeInv
<1>7. ended' \in {"", "failed", "ok"}
  BY <1>1 DEF ImageTypeInv
<1>8. \A p \in DOMAIN files' :
         p # <<>> /\ files'[p] \in [size : 0 .. MaxFileBytes, holds : I!Held]
  BY <1>1 DEF ImageTypeInv
<1> QED
  BY <1>1, <1>5, <1>6, <1>7, <1>8 DEF ImageTypeInv

LEMMA ImageTypeKeeps ==
    ASSUME ImageInv, ImageTypeInv, [I!Scan]_tar PROVE ImageTypeInv'
<1>1. CASE I!Open /\ UNCHANGED tars
  <2>1. CASE I!Abort
    BY <1>1, <2>1, AbortTypes
  <2>2. CASE step' = "outer" /\ files' = I!NoFiles /\ UNCHANGED <<image, hits, notices, ended>>
    BY <1>1, <2>2 DEF ImageTypeInv, I!NoFiles
  <2> QED
    BY <1>1, <2>1, <2>2 DEF I!Open
<1>2. CASE I!NextEntry /\ UNCHANGED tars
  <2>1. /\ UNCHANGED <<tars, image, files, hits, notices, ended>>
        /\ step' # "layer" \/ (inner' = 1 /\ outer' = outer /\ outer <= Len(tars[image])) \/ UNCHANGED <<step, inner, outer>>
        /\ step = "outer"
    BY <1>2 DEF I!NextEntry
  <2>2. step' = "layer" => inner' <= Len(tars[image][outer'].files) + 1
    <3> SUFFICES ASSUME step' = "layer"
                 PROVE  1 <= Len(tars[image][outer].files) + 1 /\ inner' = 1 /\ outer' = outer
      BY <2>1
    <3>1. inner' = 1 /\ outer' = outer /\ outer <= Len(tars[image])
      BY <2>1
    <3>2. tars \in Images /\ image \in DOMAIN tars /\ outer \in Nat /\ outer > 0
      BY DEF ImageInv, ImageTyped, InTheTars, ImageCounters
    <3>3. tars[image] \in Seq(I!OuterEntry)
      BY <3>2, TarsTyped
    <3>4. outer \in DOMAIN tars[image]
      BY <3>1, <3>2, <3>3
    <3>5. Len(tars[image][outer].files) \in Nat
      BY <3>2, <3>4, TarsTyped
    <3> QED
      BY <3>1, <3>5
  <2> QED
    BY <2>1, <2>2 DEF ImageTypeInv
<1>3. CASE I!Torn /\ UNCHANGED tars
  BY <1>3, AbortTypes DEF I!Torn
<1>4. CASE I!LayerEnds /\ UNCHANGED tars
  BY <1>4 DEF ImageTypeInv, I!LayerEnds
<1>5. CASE I!PassBy /\ UNCHANGED tars
  <2>1. /\ step = "layer" /\ inner <= Len(tars[image][outer].files) /\ inner' = inner + 1
        /\ UNCHANGED <<tars, step, image, outer, files, hits, notices, ended>>
    BY <1>5 DEF I!PassBy, I!Entry
  <2>2. inner' <= Len(tars[image][outer].files) + 1
    <3>1. /\ tars \in Images /\ image \in DOMAIN tars /\ outer \in DOMAIN tars[image]
          /\ inner \in Nat
      BY <2>1 DEF ImageInv, ImageTyped, InTheTars, ImageCounters
    <3>2. Len(tars[image][outer].files) \in Nat
      BY <3>1, TarsTyped
    <3> QED
      BY <2>1, <3>1, <3>2
  <2> QED
    BY <2>1, <2>2 DEF ImageTypeInv
<1>6. CASE UNCHANGED tar
  BY <1>6 DEF ImageTypeInv, tar
<1> QED
  BY <1>1, <1>2, <1>3, <1>4, <1>5, <1>6, ExtractTypes, ScanFilesTypes DEF I!Scan

LEMMA ImageTypes == ImageInv /\ BudgetInv /\ ImageTypeInv => I!TypeOK
<1> SUFFICES ASSUME ImageInv, BudgetInv, ImageTypeInv PROVE I!TypeOK
  OBVIOUS
<1>1. /\ step \in {"open", "outer", "layer", "scan", "done"} /\ oversize \in Nat
      /\ inner \in Nat /\ inner > 0 /\ tars \in Images /\ image \in DOMAIN tars
      /\ step = "layer" => outer \in DOMAIN tars[image]
  BY DEF ImageInv, ImageTyped, ImageCounters, InTheTars
<1>2. image \in 1 .. Len(tars)
  BY <1>1, TarsTyped
<1>3. step = "layer" => /\ outer \in 1 .. Len(tars[image])
                        /\ inner \in 1 .. Len(tars[image][outer].files) + 1
  <2> SUFFICES ASSUME step = "layer"
               PROVE  /\ outer \in 1 .. Len(tars[image])
                      /\ inner \in 1 .. Len(tars[image][outer].files) + 1
    OBVIOUS
  <2>1. /\ tars[image] \in Seq(I!OuterEntry) /\ outer \in DOMAIN tars[image]
        /\ Len(tars[image][outer].files) \in Nat
    BY <1>1, TarsTyped
  <2>2. inner <= Len(tars[image][outer].files) + 1
    BY DEF ImageTypeInv
  <2> QED
    BY <1>1, <2>1, <2>2
<1>4. written \in Nat
  BY DEF BudgetInv
<1> QED
  BY <1>1, <1>2, <1>3, <1>4 DEF ImageTypeInv, I!TypeOK, I!Entry

\* The walk goes forward, to an entry that is listed or to the end.
LEMMA FollowingListed ==
    ASSUME NEW entries \in SUBSET Node, NEW e \in Node
    PROVE  /\ Following(entries, e) \in Nat /\ Following(entries, e) >= e + 1
           /\ Following(entries, e) \in Node => Following(entries, e) \in entries
<1> DEFINE T == {x \in entries : x > e} \cup {Len(Tree) + 1}
<1>1. Len(Tree) \in Nat /\ e \in 1 .. Len(Tree) /\ \A x \in entries : x \in 1 .. Len(Tree)
  BY TreeTyped DEF Node
<1>2. T \subseteq Nat /\ T # {}
  <2>1. Len(Tree) + 1 \in T
    OBVIOUS
  <2>2. \A x \in T : x \in Nat
    BY <1>1
  <2> HIDE DEF T
  <2> QED
    BY <2>1, <2>2
<1>3. \A x \in T : x \in Nat /\ x >= e + 1 /\ (x \in 1 .. Len(Tree) => x \in entries)
  BY <1>1
<1>4. \E x \in T : \A y \in T : x <= y
  <2> HIDE DEF T
  <2> QED
    BY <1>2, Least
<1>5. Following(entries, e) = Min(T)
  BY DEF Following
<1>6. Min(T) \in T
  BY <1>4 DEF Min
<1> HIDE DEF T
<1>7. Following(entries, e) \in T
  BY <1>5, <1>6
<1> QED
  BY <1>3, <1>7 DEF Node

\* What WalkInv and StampedInv leave open of the types of a walk: no entry is
\* counted twice.
WalkCounts ==
    /\ DOMAIN res = {"FilesWalked", "Findings", "Unreadable", "Oversize", "Unparsed"}
    /\ res.FilesWalked \in Nat /\ res.Unreadable \in Nat /\ res.Oversize \in Nat
    /\ res.FilesWalked + res.Unreadable + res.Oversize < cursor
    /\ res.Unparsed \in 0 .. Len(Tree)
    /\ unparsed - before < cursor
    /\ scans \in 0 .. MaxScans /\ changes \in 0 .. MaxChanges

WalkTypeInv ==
    /\ disk \in [Node -> {"ok", "gone", "locked", "large"}]
    /\ absent \subseteq Node /\ read \subseteq listed
    /\ pc \in {"walk", "read"} /\ cursor \in Node => cursor \in listed
    /\ WalkCounts

LEMMA WalkTypeInitial == SourcesInit => WalkTypeInv
<1> SUFFICES ASSUME SourcesInit PROVE WalkTypeInv
  OBVIOUS
<1>1. Init
  BY DEF SourcesInit, NoWalk
<1>2. WalkCounts
  <2>1. /\ res = NoResult /\ cursor = 1 /\ unparsed = 0 /\ before = 0
        /\ scans = 0 /\ changes = 0
    BY <1>1 DEF Init
  <2>2. /\ DOMAIN res = {"FilesWalked", "Findings", "Unreadable", "Oversize", "Unparsed"}
        /\ res.FilesWalked = 0 /\ res.Unreadable = 0 /\ res.Oversize = 0 /\ res.Unparsed = 0
    BY <2>1 DEF NoResult
  <2> QED
    BY <2>1, <2>2, TreeTyped, BoundsAssumption DEF WalkCounts
<1>3. disk \in [Node -> {"ok", "gone", "locked", "large"}]
  BY <1>1 DEF Init
<1> QED
  BY <1>1, <1>2, <1>3 DEF Init, WalkTypeInv

\* A step of the walk that counts the entry it is at once at most.
LEMMA StepCounts ==
    ASSUME WalkCounts, WalkInv, NEW f \in {0, 1}, NEW u \in {0, 1}, NEW o \in {0, 1},
           f + u + o <= 1, NEW p \in {0, 1},
           DOMAIN res' = DOMAIN res, res'.FilesWalked = res.FilesWalked + f,
           res'.Unreadable = res.Unreadable + u, res'.Oversize = res.Oversize + o,
           res'.Unparsed = res.Unparsed, unparsed' = unparsed + p,
           cursor' \in Nat, cursor' >= cursor + 1, UNCHANGED <<before, scans, changes>>
    PROVE  WalkCounts'
<1>1. /\ unparsed \in Nat /\ before \in Nat /\ cursor \in Nat
  BY TreeTyped DEF WalkInv, WalkTyped, CountsTyped
<1> DEFINE a == res.FilesWalked
           b == res.Unreadable
           c == res.Oversize
<1>2. a \in Nat /\ b \in Nat /\ c \in Nat /\ a + b + c < cursor
  BY DEF WalkCounts
<1> HIDE DEF a, b, c
<1>3. /\ a + f \in Nat /\ b + u \in Nat /\ c + o \in Nat
      /\ (a + f) + (b + u) + (c + o) < cursor'
  BY <1>1, <1>2
<1>4. unparsed' - before < cursor'
  <2>1. unparsed - before < cursor
    BY DEF WalkCounts
  <2> QED
    BY <1>1, <2>1
<1> QED
  BY <1>3, <1>4 DEF WalkCounts, a, b, c

\* A step of the walk past the entry it is at.
LEMMA PassTypes ==
    ASSUME WalkTypeInv, WalkInv, cursor \in Node,
           NEW f \in {0, 1}, NEW u \in {0, 1}, NEW o \in {0, 1}, f + u + o <= 1, NEW p \in {0, 1},
           DOMAIN res' = DOMAIN res, res'.FilesWalked = res.FilesWalked + f,
           res'.Unreadable = res.Unreadable + u, res'.Oversize = res.Oversize + o,
           res'.Unparsed = res.Unparsed, unparsed' = unparsed + p,
           UNCHANGED <<before, scans, changes, disk, absent>>,
           listed' \in SUBSET Node, cursor' = Following(listed', cursor), read' \subseteq listed'
    PROVE  WalkTypeInv'
<1>1. /\ cursor' \in Nat /\ cursor' >= cursor + 1
      /\ cursor' \in Node => cursor' \in listed'
  BY FollowingListed
<1>2. WalkCounts'
  BY <1>1, StepCounts DEF WalkTypeInv
<1> QED
  BY <1>1, <1>2 DEF WalkTypeInv

LEMMA WalkTypeKeeps == WalkInv /\ WalkTypeInv /\ [SourcesNext]_allVars => WalkTypeInv'
<1> SUFFICES ASSUME WalkInv, WalkTypeInv, [SourcesNext]_allVars PROVE WalkTypeInv'
  OBVIOUS
<1>1. /\ ResultTyped /\ listed \in SUBSET Node /\ read \subseteq listed
      /\ unparsed \in Nat /\ before \in Nat /\ before <= unparsed
      /\ cursor \in 1 .. Len(Tree) + 1 /\ Len(Tree) \in Nat
      /\ DOMAIN res = {"FilesWalked", "Findings", "Unreadable", "Oversize", "Unparsed"}
      /\ res.FilesWalked \in Nat /\ res.Unreadable \in Nat /\ res.Oversize \in Nat
  BY TreeTyped DEF WalkInv, WalkTyped, CountsTyped, WalkTypeInv, WalkCounts
<1>2. ASSUME res' = res
      PROVE  /\ DOMAIN res' = DOMAIN res /\ res'.FilesWalked = res.FilesWalked + 0
             /\ res'.Unreadable = res.Unreadable + 0 /\ res'.Oversize = res.Oversize + 0
             /\ res'.Unparsed = res.Unparsed
  BY <1>1, <1>2
<1>3. ASSUME res' = [res EXCEPT !.Unreadable = @ + 1]
      PROVE  /\ DOMAIN res' = DOMAIN res /\ res'.FilesWalked = res.FilesWalked + 0
             /\ res'.Unreadable = res.Unreadable + 1 /\ res'.Oversize = res.Oversize + 0
             /\ res'.Unparsed = res.Unparsed
  BY <1>1, <1>3
<1>4. ASSUME res' = [res EXCEPT !.Oversize = @ + 1]
      PROVE  /\ DOMAIN res' = DOMAIN res /\ res'.FilesWalked = res.FilesWalked + 0
             /\ res'.Unreadable = res.Unreadable + 0 /\ res'.Oversize = res.Oversize + 1
             /\ res'.Unparsed = res.Unparsed
  BY <1>1, <1>4
<1>5. /\ 0 \in {0, 1} /\ 1 \in {0, 1} /\ 0 + 0 + 0 <= 1 /\ 1 + 0 + 0 <= 1 /\ 0 + 1 + 0 <= 1
      /\ 0 + 0 + 1 <= 1 /\ unparsed + 0 = unparsed
  BY <1>1
<1>6. CASE VisitDir
  <2>1. /\ cursor \in Node /\ cursor' = Following(listed', cursor)
        /\ listed \subseteq listed' /\ listed' \in SUBSET Node
        /\ UNCHANGED <<before, scans, changes, disk, absent, read>> /\ unparsed' = unparsed + 0
    BY <1>1, <1>5, <1>6 DEF VisitDir, tree, Children
  <2>2. read' \subseteq listed'
    BY <1>1, <2>1
  <2>3. CASE res' = res
    BY <1>2, <1>5, <2>1, <2>2, <2>3, PassTypes
  <2>4. CASE res' = [res EXCEPT !.Unreadable = @ + 1]
    BY <1>3, <1>5, <2>1, <2>2, <2>4, PassTypes
  <2> QED
    BY <1>6, <2>3, <2>4 DEF VisitDir
<1>7. CASE VisitFile
  <2>1. /\ cursor \in Node /\ listed' = listed /\ read' = read /\ pc = "walk"
        /\ UNCHANGED <<before, scans, changes, disk, absent>> /\ unparsed' = unparsed + 0
    BY <1>1, <1>5, <1>7 DEF VisitFile, tree
  <2>2. listed' \in SUBSET Node /\ read' \subseteq listed'
    BY <1>1, <2>1
  <2>3. CASE cursor' = Following(listed, cursor) /\ res' = res
    BY <1>2, <1>5, <2>1, <2>2, <2>3, PassTypes
  <2>4. CASE cursor' = Following(listed, cursor) /\ res' = [res EXCEPT !.Unreadable = @ + 1]
    BY <1>3, <1>5, <2>1, <2>2, <2>4, PassTypes
  <2>5. CASE cursor' = Following(listed, cursor) /\ res' = [res EXCEPT !.Oversize = @ + 1]
    BY <1>4, <1>5, <2>1, <2>2, <2>5, PassTypes
  <2>6. CASE pc' = "read" /\ UNCHANGED <<cursor, res>>
    <3>1. WalkCounts'
      BY <1>5, <2>1, <2>6 DEF WalkTypeInv, WalkCounts
    <3> QED
      BY <2>1, <2>6, <3>1 DEF WalkTypeInv
  <2> QED
    BY <1>7, <2>3, <2>4, <2>5, <2>6 DEF VisitFile
<1>8. CASE ReadFails
  <2>1. /\ cursor \in Node /\ listed' = listed /\ read' = read
        /\ cursor' = Following(listed, cursor) /\ res' = [res EXCEPT !.Unreadable = @ + 1]
        /\ UNCHANGED <<before, scans, changes, disk, absent>> /\ unparsed' = unparsed + 0
    BY <1>1, <1>5, <1>8 DEF ReadFails, tree, WalkInv, WalkTyped
  <2>2. listed' \in SUBSET Node /\ read' \subseteq listed'
    BY <1>1, <2>1
  <2> QED
    BY <1>3, <1>5, <2>1, <2>2, PassTypes
<1>9. CASE Read
  <2> DEFINE new == Found(cursor, content[cursor])
  <2>1. /\ cursor \in Node /\ listed' = listed /\ read' = read \cup {cursor} /\ pc = "read"
        /\ cursor' = Following(listed, cursor)
        /\ res' = [res EXCEPT !.FilesWalked = @ + 1, !.Findings = @ \cup new]
        /\ UNCHANGED <<before, scans, changes, disk, absent>>
        /\ unparsed' = unparsed + 0 \/ unparsed' = unparsed + 1
    BY <1>1, <1>5, <1>9 DEF Read, tree, WalkInv, WalkTyped
  <2>2. listed' \in SUBSET Node /\ read' \subseteq listed'
    <3>1. cursor \in listed
      BY <2>1 DEF WalkTypeInv
    <3> QED
      BY <1>1, <2>1, <3>1
  <2> HIDE DEF new
  <2>3. /\ DOMAIN res' = DOMAIN res /\ res'.FilesWalked = res.FilesWalked + 1
        /\ res'.Unreadable = res.Unreadable + 0 /\ res'.Oversize = res.Oversize + 0
        /\ res'.Unparsed = res.Unparsed
    BY <1>1, <2>1
  <2>4. CASE unparsed' = unparsed + 0
    BY <1>5, <2>1, <2>2, <2>3, <2>4, PassTypes
  <2>5. CASE unparsed' = unparsed + 1
    BY <1>5, <2>1, <2>2, <2>3, <2>5, PassTypes
  <2> QED
    BY <2>1, <2>4, <2>5
<1>10. CASE Finish
  <2>1. /\ pc' = "done" /\ res' = [res EXCEPT !.Unparsed = unparsed - before]
        /\ UNCHANGED <<listed, cursor, unparsed, before, scans, read, absent, disk, changes>>
    BY <1>10 DEF Finish, tree
  <2>2. unparsed - before \in 0 .. Len(Tree)
    <3>1. unparsed - before < cursor
      BY DEF WalkTypeInv, WalkCounts
    <3> QED
      BY <1>1, <3>1
  <2> DEFINE d == unparsed - before
  <2>3. d \in 0 .. Len(Tree) /\ res' = [res EXCEPT !.Unparsed = d]
    BY <2>1, <2>2
  <2> HIDE DEF d
  <2>4. /\ DOMAIN res' = DOMAIN res /\ res'.FilesWalked = res.FilesWalked
        /\ res'.Unreadable = res.Unreadable /\ res'.Oversize = res.Oversize
        /\ res'.Unparsed = d
    BY <1>1, <2>3
  <2>5. WalkCounts'
    BY <2>1, <2>3, <2>4 DEF WalkTypeInv, WalkCounts
  <2> QED
    BY <2>1, <2>5 DEF WalkTypeInv
<1>11. CASE StartFails
  <2>1. /\ pc' = "idle" /\ scans < MaxScans /\ scans' = scans + 1
        /\ UNCHANGED <<listed, cursor, res, unparsed, before, read, absent, disk, changes>>
    BY <1>11 DEF StartFails, tree
  <2>2. WalkCounts'
    BY <2>1, BoundsAssumption DEF WalkTypeInv, WalkCounts
  <2> QED
    BY <2>1, <2>2 DEF WalkTypeInv
<1>12. CASE Start
  <2>1. /\ pc' = "walk" /\ scans < MaxScans /\ scans' = scans + 1 /\ listed' = {1} /\ cursor' = 1
        /\ res' = NoResult /\ before' = unparsed /\ read' = {}
        /\ absent' = {e \in Node : disk[e] = "gone"} /\ UNCHANGED <<unparsed, disk, changes>>
    BY <1>12 DEF Start, tree
  <2>2. /\ DOMAIN res' = {"FilesWalked", "Findings", "Unreadable", "Oversize", "Unparsed"}
        /\ res'.FilesWalked = 0 /\ res'.Unreadable = 0 /\ res'.Oversize = 0 /\ res'.Unparsed = 0
    BY <2>1 DEF NoResult
  <2>3. scans' \in 0 .. MaxScans /\ changes' \in 0 .. MaxChanges
    BY <2>1, BoundsAssumption DEF WalkTypeInv, WalkCounts
  <2>4. unparsed' - before' < 1
    BY <1>1, <2>1
  <2>5. WalkCounts'
    BY <1>1, <2>1, <2>2, <2>3, <2>4 DEF WalkCounts
  <2> QED
    BY <2>1, <2>5 DEF WalkTypeInv
<1>13. CASE \E e \in Node : Change(e)
  <2>1. PICK e \in Node : Change(e)
    BY <1>13
  <2>2. PICK s \in {"ok", "gone", "locked", "large"} :
           /\ disk' = [disk EXCEPT ![e] = s]
           /\ absent' = IF s = "gone" THEN absent \cup {e} ELSE absent
    BY <2>1 DEF Change
  <2>3. /\ changes < MaxChanges /\ changes' = changes + 1
        /\ UNCHANGED <<pc, listed, cursor, res, unparsed, before, scans, read>>
    BY <2>1 DEF Change
  <2>4. WalkCounts'
    BY <2>3, BoundsAssumption DEF WalkTypeInv, WalkCounts
  <2>5. disk' \in [Node -> {"ok", "gone", "locked", "large"}] /\ absent' \subseteq Node
    BY <2>2 DEF WalkTypeInv
  <2> QED
    BY <2>3, <2>4, <2>5 DEF WalkTypeInv
<1>14. CASE UNCHANGED vars
  BY <1>14 DEF vars, WalkTypeInv, WalkCounts
<1> QED
  BY <1>6, <1>7, <1>8, <1>9, <1>10, <1>11, <1>12, <1>13, <1>14, WalkStep DEF Walk

LEMMA WalkTypes == WalkInv /\ StampedInv /\ WalkTypeInv => TypeOK
<1> SUFFICES ASSUME WalkInv, StampedInv, WalkTypeInv PROVE TypeOK
  OBVIOUS
<1>1. /\ Len(Tree) \in Nat /\ cursor \in 1 .. Len(Tree) + 1
      /\ listed \subseteq Node /\ pc \in {"idle", "walk", "read", "done"}
      /\ pc = "read" => cursor \in Node /\ Wanted(cursor)
  BY TreeTyped DEF WalkInv, WalkTyped, CountsTyped
<1>2. /\ res.FilesWalked \in 0 .. Len(Tree) /\ res.Unreadable \in 0 .. Len(Tree)
      /\ res.Oversize \in 0 .. Len(Tree) /\ res.Unparsed \in 0 .. Len(Tree)
      /\ scans \in 0 .. MaxScans /\ changes \in 0 .. MaxChanges
  BY <1>1 DEF WalkTypeInv, WalkCounts
<1>3. ASSUME NEW f \in res.Findings
      PROVE  f.file \in Node /\ f.det \in Detector /\ f.isTest \in BOOLEAN
  <2>1. /\ f.file \in Node /\ f.det \in Detector
        /\ f.isTest = IsTest(f.file, content[f.file].lines, f.line)
    BY <1>3 DEF StampedInv, StampedOne
  <2>2. IsTest(f.file, content[f.file].lines, f.line) \in BOOLEAN
    BY DEF IsTest
  <2> QED
    BY <2>1, <2>2
<1>4. pc = "read" => cursor \in listed
  BY <1>1 DEF WalkTypeInv
<1> QED
  BY <1>1, <1>2, <1>3, <1>4 DEF TypeOK, WalkTypeInv

\* What may be put on the list of what was skipped: a resource, what it lies
\* in, or its tags.
Skippable(s) == \E r \in Resource : Covers(s, r) \/ s = Append(r, "tags")

Services == {"kms", "acm", "vault"}
Outcomes == {"", "failed", "whole", "partial"}

\* What CloudInv leaves open of the types of a cloud scan: the names on a page
\* and the places of the iterators are those of resources.
CloudTypeInv ==
    /\ touched \subseteq Resource
    /\ outcome \in Outcomes
    /\ service \in Services
    /\ \A n \in page : <<service, n>> \in Resource
    /\ call \in {"keys", "versions"} => Skippable(<<"gcp", at[1]>>)
    /\ call = "versions" => Skippable(<<"gcp", at[1], at[2]>>)
    /\ found \subseteq C!Finding
    /\ \A s \in skipped : Skippable(s)

LEMMA CloudTypeInitial == SourcesInit => CloudTypeInv
<1>1. ASSUME SourcesInit PROVE C!Init
  BY <1>1 DEF SourcesInit, NoCloud
<1>2. ASSUME C!Init PROVE CloudTypeInv
  BY <1>2 DEF C!Init, C!FirstCall, CloudTypeInv, Services, Outcomes
<1> QED
  BY <1>1, <1>2

LEMMA NamesListed ==
    ASSUME CloudTyped, service \in Services, NEW m, NEW n \in C!Names(m)
    PROVE  <<service, n>> \in Resource
<1>1. PICK r \in account : r[1] = service /\ r[2] = n
  BY DEF C!Names
<1>2. r \in Resource
  BY DEF CloudTyped
<1>3. "gcp" \notin Services
  BY DEF Services
<1>4. ASSUME NEW s, NEW k, r = <<s, k>> PROVE <<service, n>> = r
  BY <1>1, <1>4
<1>5. ASSUME NEW a, NEW b, NEW c, r = <<"gcp", a, b, c>> PROVE FALSE
  BY <1>1, <1>3, <1>5
<1> QED
  BY <1>2, <1>4, <1>5, ResourceShape

LEMMA PageListed ==
    ASSUME CloudTyped, service \in Services, NEW m, NEW p \in C!Pages(m)
    PROVE  \A n \in p.names : <<service, n>> \in Resource
<1>1. \A k : C!UpTo(m, k) \subseteq C!Names(m)
  BY DEF C!UpTo
<1>2. p.names \subseteq C!Names(m)
  <2>1. CASE C!Names(m) = {}
    BY <2>1 DEF C!Pages
  <2>2. CASE C!Names(m) # {}
    BY <1>1, <2>2 DEF C!Pages
  <2> QED
    BY <2>1, <2>2
<1> QED
  BY <1>2, NamesListed

LEMMA CurrentListed ==
    ASSUME CloudTyped, CloudTypeInv, page # {}
    PROVE  C!Current \in Resource
<1>1. page \in SUBSET Nat
  BY DEF CloudTyped
<1>2. C!Min(page) \in page
  BY <1>1, MinIs
<1> QED
  BY <1>2 DEF C!Current, CloudTypeInv

LEMMA FindsTyped ==
    ASSUME NEW r \in Resource, NEW e \in BOOLEAN
    PROVE  C!Finds(r, e) \in C!Finding
  BY DEF C!Finds, C!Finding

LEMMA SkippableSelf ==
    ASSUME NEW r \in Resource PROVE Skippable(r) /\ Skippable(Append(r, "tags"))
<1>1. Covers(r, r)
  <2>1. CASE \E s \in {"kms", "acm", "vault"}, n \in Nat : r = <<s, n>> /\ n > 0
    BY <2>1, CoversItsParts
  <2>2. CASE \E a, b, c \in Nat : r = <<"gcp", a, b, c>> /\ a > 0 /\ b > 0 /\ c > 0
    <3>1. PICK a \in Nat, b \in Nat, c \in Nat : r = <<"gcp", a, b, c>>
      BY <2>2
    <3>2. r \in Seq({"gcp", a, b, c}) /\ Len(r) <= Len(r) /\ \A i \in 1 .. Len(r) : r[i] = r[i]
      BY <3>1
    <3> QED
      BY <3>2, CoversIf
  <2> QED
    BY <2>1, <2>2, ResourceShape
<1> QED
  BY <1>1 DEF Skippable

LEMMA BelowSkippable ==
    ASSUME NEW a, NEW n
    PROVE  /\ \A x \in Rings(n) : Skippable(<<"gcp", x>>)
           /\ \A x \in Keys(a, n) : Skippable(<<"gcp", a, x>>)
<1>1. ASSUME NEW r \in Resource, C!IsStrictPrefix(<<"gcp">>, r) PROVE Skippable(<<"gcp", r[2]>>)
  <2>1. ASSUME NEW s \in {"kms", "acm", "vault"}, NEW k \in Nat, r = <<s, k>> PROVE FALSE
    BY <1>1, <2>1 DEF C!IsStrictPrefix, C!IsPrefix
  <2>2. PICK x \in Nat, y \in Nat, z \in Nat : r = <<"gcp", x, y, z>>
    BY <2>1, ResourceShape
  <2>3. Covers(<<"gcp", x>>, r) /\ r[2] = x
    BY <2>2, CoversItsParts
  <2> QED
    BY <2>3 DEF Skippable
<1>2. ASSUME NEW r \in Resource, C!IsStrictPrefix(<<"gcp", a>>, r)
      PROVE  Skippable(<<"gcp", a, r[3]>>)
  <2>1. ASSUME NEW s \in {"kms", "acm", "vault"}, NEW k \in Nat, r = <<s, k>> PROVE FALSE
    BY <1>2, <2>1, PrefixOfTwo DEF C!IsStrictPrefix
  <2>2. PICK x \in Nat, y \in Nat, z \in Nat : r = <<"gcp", x, y, z>>
    BY <2>1, ResourceShape
  <2>3. C!IsPrefix(<<"gcp", a>>, <<"gcp", x, y, z>>)
    BY <1>2, <2>2 DEF C!IsStrictPrefix
  <2>4. a = x
    BY <2>3, PrefixOfFour
  <2>5. Covers(<<"gcp", a, y>>, r) /\ r[3] = y
    BY <2>2, <2>4, CoversItsParts
  <2> QED
    BY <2>5 DEF Skippable
<1>3. Rings(n) = {r[2] : r \in {x \in Resource : C!IsStrictPrefix(<<"gcp">>, x) /\ x[2] > n}}
  BY DEF Rings, C!Below
<1>4. Keys(a, n) = {r[3] : r \in {x \in Resource : C!IsStrictPrefix(<<"gcp", a>>, x) /\ x[3] > n}}
  BY DEF Keys, C!Below
<1> QED
  BY <1>1, <1>2, <1>3, <1>4

LEMMA SkippedMore ==
    ASSUME CloudTypeInv, NEW s, Skippable(s) PROVE \A x \in skipped \cup {s} : Skippable(x)
  BY DEF CloudTypeInv

LEMMA FoundMore ==
    ASSUME CloudTypeInv, NEW F, F \subseteq C!Finding PROVE found \cup F \subseteq C!Finding
  BY DEF CloudTypeInv

\* The part of the invariant that a step of a listing has to keep.
LEMMA ListingTypes ==
    ASSUME CloudTypeInv, UNCHANGED <<touched, service, outcome>>, call' \notin {"keys", "versions"},
           \A n \in page' : <<service, n>> \in Resource,
           found' \subseteq C!Finding, \A s \in skipped' : Skippable(s)
    PROVE  CloudTypeInv'
  BY DEF CloudTypeInv

LEMMA FailTypes ==
    ASSUME CloudTypeInv, C!Fail, UNCHANGED touched PROVE CloudTypeInv'
<1>1. /\ outcome' = "failed" /\ call' = "done"
      /\ UNCHANGED <<service, page, at, found, skipped>>
  BY DEF C!Fail, C!listing
<1> QED
  BY <1>1 DEF CloudTypeInv, Outcomes

LEMMA AwsListTypes ==
    ASSUME CloudInv, CloudTypeInv, C!AwsList, UNCHANGED touched PROVE CloudTypeInv'
<1>1. CASE C!Fail
  BY <1>1, FailTypes
<1>2. CASE ~C!Fail
  <2>1. PICK p \in C!Pages(marker) : page' = p.names
    BY <1>2 DEF C!AwsList
  <2>2. call' = "entry" /\ UNCHANGED <<service, found, skipped, outcome>>
    BY <1>2 DEF C!AwsList
  <2>3. CloudTyped /\ service \in Services
    BY DEF CloudInv, CloudTypeInv
  <2>4. \A n \in page' : <<service, n>> \in Resource
    BY <2>1, <2>3, PageListed
  <2>5. found' \subseteq C!Finding /\ \A s \in skipped' : Skippable(s)
    BY <2>2 DEF CloudTypeInv
  <2> QED
    BY <2>2, <2>4, <2>5, ListingTypes
<1> QED
  BY <1>1, <1>2

LEMMA AzureListTypes ==
    ASSUME CloudInv, CloudTypeInv, C!AzureList, UNCHANGED touched PROVE CloudTypeInv'
<1>1. CASE C!Fail
  BY <1>1, FailTypes
<1>2. CASE ~C!Fail
  <2>1. PICK p \in C!Pages(marker) : page' = page \cup p.names
    BY <1>2 DEF C!AzureList
  <2>2. call' \in {"list", "entry"} /\ UNCHANGED <<service, found, skipped, outcome>>
    BY <1>2 DEF C!AzureList
  <2>3. CloudTyped /\ service \in Services
    BY DEF CloudInv, CloudTypeInv
  <2>4. \A n \in p.names : <<service, n>> \in Resource
    BY <2>3, PageListed
  <2>5. \A n \in page' : <<service, n>> \in Resource
    BY <2>1, <2>4 DEF CloudTypeInv
  <2>6. found' \subseteq C!Finding /\ \A s \in skipped' : Skippable(s)
    BY <2>2 DEF CloudTypeInv
  <2> QED
    BY <2>2, <2>5, <2>6, ListingTypes
<1> QED
  BY <1>1, <1>2

\* The rest of a step that goes on to the next name.
LEMMA ContinueTypes ==
    ASSUME CloudTypeInv, C!Continue, UNCHANGED touched,
           found' \subseteq C!Finding, \A s \in skipped' : Skippable(s)
    PROVE  CloudTypeInv'
<1>1. call' = "entry" /\ page' \subseteq page /\ UNCHANGED <<service, outcome>>
  BY DEF C!Continue
<1>2. \A n \in page' : <<service, n>> \in Resource
  BY <1>1 DEF CloudTypeInv
<1> QED
  BY <1>1, <1>2, ListingTypes

LEMMA DescribeTypes ==
    ASSUME CloudInv, CloudTypeInv, C!Describe, UNCHANGED touched PROVE CloudTypeInv'
<1>1. C!Current \in Resource
  BY CurrentListed DEF C!Describe, CloudInv
<1>2. Skippable(C!Current)
  BY <1>1, SkippableSelf
<1>3. found \subseteq C!Finding /\ \A s \in skipped : Skippable(s)
  BY DEF CloudTypeInv
<1>4. CASE C!Continue /\ UNCHANGED found /\ skipped' \in {skipped, skipped \cup {C!Current}}
  BY <1>2, <1>3, <1>4, SkippedMore, ContinueTypes
<1>5. CASE call' = "tags" /\ UNCHANGED <<service, page, outcome, found, skipped>>
  <2>1. \A n \in page' : <<service, n>> \in Resource
    BY <1>5 DEF CloudTypeInv
  <2> QED
    BY <1>3, <1>5, <2>1, ListingTypes
<1> QED
  BY <1>4, <1>5 DEF C!Describe, C!Skip, C!listing

LEMMA FetchTagsTypes ==
    ASSUME CloudInv, CloudTypeInv, C!FetchTags, UNCHANGED touched PROVE CloudTypeInv'
<1>1. page # {}
  BY DEF C!FetchTags, CloudInv, InTurn
<1>2. C!Current \in Resource
  BY <1>1, CurrentListed DEF CloudInv
<1>3. Skippable(Append(C!Current, "tags"))
  BY <1>2, SkippableSelf
<1>4. C!KmsFindings(C!Current) \subseteq C!Finding /\ C!CertificateFindings(C!Current) \subseteq C!Finding
  BY <1>2, FindsTyped DEF C!KmsFindings, C!CertificateFindings
<1>5. found' \subseteq C!Finding
  BY <1>4, FoundMore DEF C!FetchTags
<1>6. \A s \in skipped' : Skippable(s)
  <2>1. CASE skipped' = skipped
    BY <2>1 DEF CloudTypeInv
  <2>2. CASE skipped' = skipped \cup {Append(C!Current, "tags")}
    BY <1>3, <2>2, SkippedMore
  <2> QED
    BY <2>1, <2>2 DEF C!FetchTags, C!Skip
<1>7. C!Continue
  BY DEF C!FetchTags
<1> QED
  BY <1>5, <1>6, <1>7, ContinueTypes

LEMMA GetKeyTypes ==
    ASSUME CloudInv, CloudTypeInv, C!GetKey, UNCHANGED touched PROVE CloudTypeInv'
<1>1. C!Current \in Resource
  BY CurrentListed DEF C!GetKey, CloudInv
<1>2. Skippable(C!Current)
  BY <1>1, SkippableSelf
<1> DEFINE F == {C!Finds(C!Current, e) : e \in {x \in BOOLEAN :
                    C!Tracked(C!Current) /\ (x => C!Current \in Expired)}}
<1>3. F \subseteq C!Finding
  BY <1>1, FindsTyped
<1>4. found' \in {found, found \cup F} /\ skipped' \in {skipped, skipped \cup {C!Current}} /\ C!Continue
  BY DEF C!GetKey, C!Skip
<1> HIDE DEF F
<1>5. found' \subseteq C!Finding
  BY <1>3, <1>4, FoundMore DEF CloudTypeInv
<1>6. \A s \in skipped' : Skippable(s)
  BY <1>2, <1>4, SkippedMore DEF CloudTypeInv
<1> QED
  BY <1>4, <1>5, <1>6, ContinueTypes

LEMMA NextPageTypes ==
    ASSUME CloudTypeInv, C!NextPage, UNCHANGED touched PROVE CloudTypeInv'
<1>1. /\ page = {} /\ page' = {} /\ service' \in {service, "acm"} /\ call' \in {"list", "report"}
      /\ UNCHANGED <<found, skipped, outcome>>
  BY DEF C!NextPage
<1> QED
  BY <1>1 DEF CloudTypeInv, Services

\* The rest of a step of the iterators.
LEMMA IteratingTypes ==
    ASSUME CloudTypeInv, UNCHANGED <<touched, service, page, outcome>>,
           call' \in {"keys", "versions"} => Skippable(<<"gcp", at'[1]>>),
           call' = "versions" => Skippable(<<"gcp", at'[1], at'[2]>>),
           found' \subseteq C!Finding, \A s \in skipped' : Skippable(s)
    PROVE  CloudTypeInv'
  BY DEF CloudTypeInv

LEMMA NextRingTypes ==
    ASSUME CloudInv, CloudTypeInv, C!NextRing, UNCHANGED touched PROVE CloudTypeInv'
<1>1. CASE C!Fail
  BY <1>1, FailTypes
<1>2. CASE ~C!Fail
  <2> DEFINE left == Rings(at[1])
  <2>1. /\ call = "rings" /\ UNCHANGED <<service, page, found, skipped, outcome>>
        /\ \/ call' = "report"
           \/ left # {} /\ at' = <<C!Min(left), 0, 0>> /\ call' = "keys"
    BY <1>2 DEF C!NextRing, C!listing, Rings
  <2>2. found' \subseteq C!Finding /\ \A s \in skipped' : Skippable(s)
    BY <2>1 DEF CloudTypeInv
  <2>3. CASE call' = "report"
    BY <2>1, <2>2, <2>3, IteratingTypes
  <2>4. CASE left # {} /\ at' = <<C!Min(left), 0, 0>> /\ call' = "keys"
    <3>1. at[1] \in Nat
      BY <2>1, InGcp DEF Iterating
    <3>2. left \in SUBSET Nat
      BY <3>1, BelowGreater
    <3>3. C!Min(left) \in left
      BY <2>4, <3>2, MinIs
    <3>4. Skippable(<<"gcp", C!Min(left)>>)
      BY <3>3, BelowSkippable
    <3> HIDE DEF left
    <3>5. at'[1] = C!Min(left)
      BY <2>4
    <3> QED
      BY <2>1, <2>2, <2>4, <3>4, <3>5, IteratingTypes
  <2> QED
    BY <2>1, <2>3, <2>4
<1> QED
  BY <1>1, <1>2

LEMMA NextKeyTypes ==
    ASSUME CloudInv, CloudTypeInv, C!NextKey, UNCHANGED touched PROVE CloudTypeInv'
<1> DEFINE left == Keys(at[1], at[2])
<1>1. /\ call = "keys" /\ UNCHANGED <<service, page, found, outcome>>
      /\ \/ call' = "rings" /\ skipped' \in {skipped, skipped \cup {<<"gcp", at[1]>>}}
         \/ /\ left # {} /\ at' = <<at[1], C!Min(left), 0>> /\ call' = "versions"
            /\ UNCHANGED skipped
  BY DEF C!NextKey, C!listing, C!Ring, C!Skip, Keys
<1>2. Skippable(<<"gcp", at[1]>>)
  BY <1>1 DEF CloudTypeInv
<1>3. found' \subseteq C!Finding
  BY <1>1 DEF CloudTypeInv
<1>4. \A s \in skipped' : Skippable(s)
  BY <1>1, <1>2, SkippedMore DEF CloudTypeInv
<1>5. CASE call' = "rings"
  BY <1>1, <1>3, <1>4, <1>5, IteratingTypes
<1>6. CASE left # {} /\ at' = <<at[1], C!Min(left), 0>> /\ call' = "versions"
  <2>1. at[1] \in Nat /\ at[2] \in Nat
    BY <1>1, InGcp DEF Iterating
  <2>2. left \in SUBSET Nat
    BY <2>1, BelowGreater
  <2>3. C!Min(left) \in left
    BY <1>6, <2>2, MinIs
  <2>4. Skippable(<<"gcp", at[1], C!Min(left)>>)
    BY <2>3, BelowSkippable
  <2> HIDE DEF left
  <2>5. at'[1] = at[1] /\ at'[2] = C!Min(left)
    BY <1>6
  <2> QED
    BY <1>1, <1>2, <1>3, <1>4, <1>6, <2>4, <2>5, IteratingTypes
<1> QED
  BY <1>1, <1>5, <1>6

LEMMA NextVersionTypes ==
    ASSUME CloudInv, CloudTypeInv, C!NextVersion, UNCHANGED touched PROVE CloudTypeInv'
<1>1. /\ call = "versions" /\ call' \in {"keys", "versions"} /\ UNCHANGED <<service, page, outcome>>
      /\ skipped' \in {skipped, skipped \cup {<<"gcp", at[1], at[2]>>}}
      /\ found' = found \/ \E v \in account : found' = found \cup {C!Finds(v, FALSE)}
  BY DEF C!NextVersion, C!listing, C!Key, C!Skip
<1>2. Skippable(<<"gcp", at[1]>>) /\ Skippable(<<"gcp", at[1], at[2]>>)
  BY <1>1 DEF CloudTypeInv
<1>3. at'[1] = at[1] /\ at'[2] = at[2]
  <2>1. at \in Nat \X Nat \X Nat
    BY DEF CloudInv, CloudTyped
  <2>2. PICK m : at' = at \/ at' = [at EXCEPT ![3] = m]
    BY DEF C!NextVersion
  <2> QED
    BY <2>1, <2>2
<1>4. found' \subseteq C!Finding
  <2>1. \A v \in account : C!Finds(v, FALSE) \in C!Finding
    BY FindsTyped DEF CloudInv, CloudTyped
  <2>2. CASE found' = found
    BY <2>2 DEF CloudTypeInv
  <2>3. ASSUME NEW v \in account, found' = found \cup {C!Finds(v, FALSE)}
        PROVE  found' \subseteq C!Finding
    <3>1. {C!Finds(v, FALSE)} \subseteq C!Finding
      BY <2>1
    <3> QED
      BY <2>3, <3>1, FoundMore
  <2> QED
    BY <1>1, <2>2, <2>3
<1>5. \A s \in skipped' : Skippable(s)
  BY <1>1, <1>2, SkippedMore DEF CloudTypeInv
<1> QED
  BY <1>1, <1>2, <1>3, <1>4, <1>5, IteratingTypes

LEMMA CloudTypeKeeps == CloudInv /\ CloudTypeInv /\ [SourcesNext]_allVars => CloudTypeInv'
<1> SUFFICES ASSUME CloudInv, CloudTypeInv, [SourcesNext]_allVars PROVE CloudTypeInv'
  OBVIOUS
<1>1. CASE C!Scan
  <2>1. UNCHANGED touched
    BY <1>1 DEF C!Scan
  <2>2. CASE C!EndOfKeys
    BY <2>1, <2>2 DEF C!EndOfKeys, C!listing, CloudTypeInv
  <2>3. CASE C!Report
    BY <2>1, <2>3 DEF C!Report, C!listing, CloudTypeInv, Outcomes
  <2> QED
    BY <1>1, <2>1, <2>2, <2>3, AwsListTypes, DescribeTypes, FetchTagsTypes, NextPageTypes,
       AzureListTypes, GetKeyTypes, NextRingTypes, NextKeyTypes, NextVersionTypes DEF C!Scan
<1>2. ASSUME NEW r \in Resource, C!Change(r) PROVE CloudTypeInv'
  BY <1>2 DEF C!Change, C!listing, CloudTypeInv
<1>3. CASE UNCHANGED cloud
  BY <1>3 DEF cloud, CloudTypeInv
<1> QED
  BY <1>1, <1>2, <1>3, CloudStep

LEMMA CloudTypes == CloudInv /\ CloudTypeInv => C!TypeOK
<1> SUFFICES ASSUME CloudInv, CloudTypeInv PROVE C!TypeOK
  OBVIOUS
<1>1. /\ provider \in {"aws", "azure", "gcp"}
      /\ call \in {"list", "entry", "tags", "rings", "keys", "versions", "report", "done"}
  BY DEF CloudInv, InTurn, Listing, Iterating
<1>2. account \subseteq Resource /\ marker \in Nat /\ next \in Nat /\ page \subseteq Nat
  BY DEF CloudInv, CloudTyped
<1>3. at \in [1 .. 3 -> Nat]
  <2>1. at \in Nat \X Nat \X Nat
    BY DEF CloudInv, CloudTyped
  <2>2. PICK a \in Nat, b \in Nat, c \in Nat : at = <<a, b, c>>
    BY <2>1
  <2> QED
    BY <2>2
<1>4. \A s \in skipped : \E r \in Resource : C!IsPrefix(s, r) \/ s = Append(r, "tags")
  BY DEF CloudTypeInv, Skippable, Covers
<1> QED
  BY <1>1, <1>2, <1>3, <1>4 DEF C!TypeOK, CloudTypeInv, Services, Outcomes

\* The types of every source: the walk of `qryx scan` and `qryx fix`, the image
\* scan, the cloud inventories and the TLS probe, for any tree, tarballs,
\* account and endpoints.  No entry of the tree is counted twice, a name on a
\* page and a place of an iterator is one of a resource, and no file in the
\* temporary directory is larger than MaxFileBytes.
THEOREM AllTypesAreRight == SourcesSpec => []AllTypesOK
<1>1. SourcesSpec => []ImageTypeInv
  <2>1. ASSUME ImageInv, ImageTypeInv, [SourcesNext]_allVars PROVE ImageTypeInv'
    BY <2>1, ImageStep, ImageTypeKeeps
  <2> QED
    BY <2>1, ImageTypeInitial, ImageInvariance, PTL DEF SourcesSpec
<1>2. SourcesSpec => []WalkTypeInv
  BY WalkTypeInitial, WalkTypeKeeps, WalkInvariance, PTL DEF SourcesSpec
<1>3. SourcesSpec => []CloudTypeInv
  BY CloudTypeInitial, CloudTypeKeeps, CloudInvariance, PTL DEF SourcesSpec
<1>4. TypeOK /\ I!TypeOK /\ C!TypeOK /\ P!TypeOK => AllTypesOK
  BY DEF AllTypesOK
<1> QED
  BY <1>1, <1>2, <1>3, <1>4, WalkTypes, ImageTypes, CloudTypes, ProbeTypes, StampedInvariance,
     ImageInvariance, BudgetInvariance, CloudInvariance, ProbeInvariance, PTL

=============================================================================
