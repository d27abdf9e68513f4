CONSTANTS
    rsa = rsa
    tls10 = tls10
    x509 = x509
    noAttestation = noAttestation
    qv = qv
    misconfig = misconfig
    expired = expired
    none = none
    here = here
    there = there
    a1 = a1
    a2 = a2
    nobody = nobody
    Asset = {rsa, tls10, x509, noAttestation}
    Class = {qv, misconfig, expired, none}
    RiskNone = none
    Occ = {here, there}
    Agent = {a1, a2}
    NoAgent = nobody
    Input <- MCInput
    MaxFindings = 4
    Rank <- MCRank
SPECIFICATION Spec
CHECK_DEADLOCK FALSE
INVARIANTS
    TypeOK
    BuildFoldsPrefix
    GateAgreement
