------------------------------- MODULE Sources -------------------------------
(***************************************************************************)
(* The switch of run() in cmd/qryx: one command, one source of findings.   *)
(* `scan` and `fix` walk a tree, `image` takes tarballs apart, `aws`,      *)
(* `azure` and `gcp` ask a cloud account, `tls` dials endpoints.  A source *)
(* that the command does not use stays in its first state.                 *)
(***************************************************************************)
EXTENDS Walker

CONSTANTS
    Commands,                                                \* the commands of a run
    Images, MaxFileBytes, MaxTotalBytes, MaxSourceBytes, SkipDirs, \* ImageScan
    Resource, KeySpec, Expired, Disabled, PageSize,          \* CloudInventory
    Endpoints, Answer, MaxTargets                            \* TLSProbe

VARIABLES
    cmd,
    tars, step, image, outer, inner, files, written, oversize, hits, notices,
    ended,
    provider, account, touched, call, service, marker, page, next, at, found,
    skipped, outcome,
    targets, turn, answers, observed, mute, walked, graded

I == INSTANCE ImageScan
C == INSTANCE CloudInventory
P == INSTANCE TLSProbe

ASSUME SourcesAssumption ==
    /\ Commands \subseteq {"scan", "fix", "image", "aws", "azure", "gcp", "tls"}
    /\ I!ConstantsOK /\ C!ConstantsOK /\ P!ConstantsOK

tar   == <<tars, step, image, outer, inner, files, written, oversize, hits,
           notices, ended>>
cloud == <<provider, account, touched, call, service, marker, page, next, at,
           found, skipped, outcome>>
probe == <<targets, turn, answers, observed, mute, walked, graded>>

allVars == <<cmd, vars, tar, cloud, probe>>

\* What a source that is not used looks like.
NoWalk  == content = (CHOOSE c \in Contents : TRUE) /\ Init
NoImage == tars = (CHOOSE t \in Images : TRUE) /\ I!Init
NoCloud == provider = "aws" /\ account = {} /\ C!Init
NoProbe == targets = <<CHOOSE t \in Endpoints : TRUE>> /\ P!Init

SourcesInit ==
    /\ cmd \in Commands
    /\ IF cmd \in {"scan", "fix"} THEN Init ELSE NoWalk
    /\ IF cmd = "image" THEN I!Init ELSE NoImage
    /\ IF cmd \in {"aws", "azure", "gcp"} THEN provider = cmd /\ C!Init ELSE NoCloud
    /\ IF cmd = "tls" THEN P!Init ELSE NoProbe

\* The source of this command takes a step.
Work ==
    /\ \/ /\ cmd \in {"scan", "fix"} /\ Walk
          /\ UNCHANGED <<tar, cloud, probe>>
       \/ /\ cmd = "image" /\ I!Scan
          /\ UNCHANGED <<vars, cloud, probe>>
       \/ /\ cmd \in {"aws", "azure", "gcp"} /\ C!Scan
          /\ UNCHANGED <<vars, tar, probe>>
       \/ /\ cmd = "tls" /\ P!Scan
          /\ UNCHANGED <<vars, tar, cloud>>
    /\ UNCHANGED cmd

\* What the scan works on belongs to others as well; and a caller of the
\* package may scan again with the same Scanner.
Outside ==
    /\ \/ /\ cmd \in {"scan", "fix"}
          /\ StartFails \/ Start \/ \E e \in Node : Change(e)
          /\ UNCHANGED <<tar, cloud, probe>>
       \/ /\ cmd \in {"aws", "azure", "gcp"}
          /\ \E r \in Resource : C!Change(r)
          /\ UNCHANGED <<vars, tar, probe>>
    /\ UNCHANGED cmd

SourcesNext == Work \/ Outside

\* A source that can go on does: reads and calls come back, with an answer or
\* an error.  Nobody has to change anything.
SourcesSpec == SourcesInit /\ [][SourcesNext]_allVars /\ WF_allVars(Work)

-----------------------------------------------------------------------------

AllTypesOK == TypeOK /\ I!TypeOK /\ C!TypeOK /\ P!TypeOK

\* `qryx image`: without an error and a notice, the findings are those of the
\* layers laid over each other.
ImageAccounted == I!ImageAccounted

\* The tar-bomb budget holds at every moment of the extraction.
BudgetKept == I!BudgetKept

\* `qryx aws`, `azure`, `gcp`: what was there all the time is in the inventory
\* or on the list of what was skipped.
Accounted == C!Accounted

\* `qryx tls`: an endpoint is in the result with all that is wrong with it, or
\* on stderr.
TargetsAccounted == P!TargetsAccounted

Working ==
    CASE cmd \in {"scan", "fix"}           -> pc \in {"walk", "read"}
      [] cmd = "image"                     -> ended = ""
      [] cmd \in {"aws", "azure", "gcp"}   -> outcome = ""
      [] cmd = "tls"                       -> ~graded

\* Every scan comes to an end, whatever is refused, torn, locked or changed on
\* the way: no page loop, iterator or walk goes round in circles.
ScanEnds == Working ~> ~Working

=============================================================================
