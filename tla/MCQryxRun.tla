----------------------------- MODULE MCQryxRun -----------------------------
(* Two assets of different classes, one of them in production or only in   *)
(* test code, at severities on both sides of the thresholds.  Two runs,    *)
(* alike; no property is a liveness property.                              *)
EXTENDS QryxRun, TLC

CONSTANTS r1, r2, rsa, md5, none, quantum, weak, o1, o2, agent, b1

F(a, c, s, o, g) == [asset |-> a, class |-> c, sev |-> s, occ |-> o, agent |-> g]

RsaMedium == F(rsa, quantum, 3, o1, agent)
RsaHigh   == F(rsa, quantum, 4, o2, NoAgent)
RsaInfo   == F(rsa, none, 4, o1, NoAgent)
Md5High   == F(md5, weak, 4, o1, agent)
Md5Low    == F(md5, weak, 2, o2, agent)

S(p, t) == [prod |-> p, tests |-> t]

MCScan == {S({RsaInfo}, {Md5High}),
           S({RsaMedium, RsaInfo}, {}),
           S({RsaMedium, RsaHigh}, {Md5High}),
           S({RsaMedium, Md5Low}, {Md5High})}

Weak == [assets |-> {md5}, classes |-> {}, max |-> 5]
Rsa3 == [assets |-> {}, classes |-> {}, max |-> 3]

\* A command line with only a few flags.
Plain == [save |-> None, baseline |-> None, policy |-> None,
          policyNew |-> FALSE, failOn |-> Off, failOnNew |-> Off,
          allow |-> FALSE, tests |-> FALSE, events |-> FALSE,
          evidence |-> FALSE, format |-> "human"]

\* One run, every combination of the gates.
GateFlags ==
    {[Plain EXCEPT !.baseline = b, !.policy = p, !.policyNew = n,
                   !.failOn = f, !.failOnNew = g, !.allow = a, !.tests = t] :
        b \in {None, b1}, p \in {None, Unreadable, Weak, Rsa3}, n \in BOOLEAN,
        f \in {Off, 4, Invalid}, g \in {Off, 4, Invalid}, a \in BOOLEAN,
        t \in BOOLEAN}

\* One run, everything it writes on the way.
AuditFlags ==
    {[Plain EXCEPT !.save = s, !.baseline = b1, !.policy = p, !.failOn = 4,
                   !.events = e, !.evidence = v, !.format = m] :
        s \in {None, b1}, p \in {None, Weak}, e \in BOOLEAN, v \in BOOLEAN,
        m \in {"human", "machine", "evidence", "unknown"}}

\* Two runs on one target: one saves, one gates, or both do both.
PairFlags ==
    {[Plain EXCEPT !.save = b1],
     [Plain EXCEPT !.save = b1, !.tests = TRUE],
     [Plain EXCEPT !.baseline = b1, !.failOnNew = 4],
     [Plain EXCEPT !.baseline = b1, !.failOnNew = 2, !.allow = TRUE],
     [Plain EXCEPT !.baseline = b1, !.policy = Weak, !.policyNew = TRUE,
                   !.failOnNew = 4, !.events = TRUE]}

MCFlags == GateFlags \cup AuditFlags \cup PairFlags

Alike == Permutations({r1, r2})

=============================================================================
