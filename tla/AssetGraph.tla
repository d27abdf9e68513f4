----------------------------- MODULE AssetGraph -----------------------------
(***************************************************************************)
(* The data every part of qryx shares: findings, the identity of a logical *)
(* asset, the gate predicate, and the drift between two snapshots.         *)
(*                                                                         *)
(* Asset stands for (type, normalized algorithm, key size), the part of    *)
(* graph.key that comes from model.Asset; Class for model.RiskClass; Occ   *)
(* for the comparable identity of an occurrence (file, line, primitive,    *)
(* source, evidence).  Of a finding's tags only agent_id is kept, because  *)
(* it is the only tag another component reads back (exporter).             *)
(***************************************************************************)
EXTENDS Naturals, Sequences

CONSTANTS
    Asset,     \* (type, normalized algorithm, key size) triples
    Class,     \* risk classes
    RiskNone,  \* the class that never gates
    Occ,       \* occurrence identities
    Agent,     \* agent ids found in passports
    NoAgent    \* a finding whose tags carry no agent_id

ASSUME RiskNoneAssumption == RiskNone \in Class
ASSUME NoAgentAssumption  == NoAgent \notin Agent

\* SeverityNone, Info, Low, Medium, High, Critical: the iota of model.Severity.
Severity == 0 .. 5

Finding == [asset : Asset, class : Class, sev : Severity,
            occ : Occ, agent : Agent \cup {NoAgent}]

\* The identity of a logical asset.  The risk class is part of it.
Key == Asset \X Class

KeyOf(f) == <<f.asset, f.class>>

\* What both severity gates ask of a risk.
Gates(class, sev, threshold) == sev >= threshold /\ class # RiskNone

-----------------------------------------------------------------------------
(* A snapshot maps the keys of its nodes to whatever the nodes carry; only *)
(* its domain takes part in the comparison.                                *)

Added(base, cur)   == DOMAIN cur \ DOMAIN base

=============================================================================
