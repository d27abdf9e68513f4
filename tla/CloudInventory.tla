--------------------------- MODULE CloudInventory ---------------------------
(***************************************************************************)
(* internal/cloud: what `qryx aws`, `qryx azure` and `qryx gcp` read out of *)
(* an account that answers one call at a time, and that other people change *)
(* between two calls.                                                      *)
(*                                                                         *)
(* Every call may be refused.  A refused listing ends the scan with an     *)
(* error (in GCP only the listing of the key rings does); anything else    *)
(* that cannot be read is put on the list of what was skipped, which the   *)
(* command prints beside an inventory that is otherwise like a whole one.  *)
(*                                                                         *)
(* A resource is a tuple: <<"kms", n>>, <<"acm", n>>, <<"vault", n>>, or    *)
(* <<"gcp", ring, key, version>>.  Listings come in the order of these      *)
(* numbers, a page starts after the last name of the page before it, and   *)
(* the numbers are what the pagination tokens carry.  A version of a GCP   *)
(* key is never removed; what changes is whether it is enabled.            *)
(***************************************************************************)
EXTENDS Naturals, Sequences, FiniteSets, FiniteSetsExt, SequencesExt

CONSTANTS
    Resource,    \* every resource the account may ever hold
    KeySpec,     \* KeySpec[r]: its key spec, key type or algorithm
    Expired,     \* those past their NotAfter or expiry date
    Disabled,    \* the vault keys that are disabled
    PageSize,    \* entries on one page of a listing, at most
    MaxChanges   \* how often the account changes during a scan

Number == Nat \ {0}

ConstantsOK ==
    /\ PageSize \in Nat \ {0} /\ MaxChanges \in Nat
    /\ Resource \subseteq ({"kms", "acm", "vault"} \X Number)
                          \cup ({"gcp"} \X Number \X Number \X Number)
    /\ DOMAIN KeySpec = Resource
    /\ Expired \subseteq {r \in Resource : r[1] \in {"acm", "vault"}}
    /\ Disabled \subseteq {r \in Resource : r[1] = "vault"}

VARIABLES
    provider,   \* the command: aws, azure or gcp
    account,    \* the resources that exist (GCP: that are enabled)
    touched,    \* those created or removed since the scan began
    call,       \* the next call
    service,    \* the service an AWS or Azure scan is at
    marker,     \* the last name listed, 0 at the start
    page,       \* names listed and not handled yet
    next,       \* the token of the next page, 0 on the last one
    at,         \* where the GCP iterators stand: <<ring, key, version>>
    found,      \* the findings
    skipped,    \* what could not be read
    outcome     \* "", or how the scan ended

vars == <<provider, account, touched, call, service, marker, page, next, at,
          found, skipped, outcome>>

listing == <<service, marker, page, next>>

-----------------------------------------------------------------------------
(* The mappings from what a service calls a key to the asset.              *)

Untracked == <<"", 0>>

\* keySpecToAsset and acmKeyAlgoToAsset.
AwsAsset(spec) ==
    CASE spec = "RSA_1024"          -> <<"RSA", 1024>>
      [] spec = "RSA_4096"          -> <<"RSA", 4096>>
      [] spec \in {"ECC_NIST_P256", "EC_prime256v1"} -> <<"ECDSA", 0>>
      [] spec = "SYMMETRIC_DEFAULT" -> <<"AES", 256>>
      [] spec = "HMAC_256"          -> <<"HMAC", 0>>
      [] OTHER                      -> Untracked      \* ML_DSA_44, SM2

\* keyTypeToAsset; a key without material counts as EC.
AzureAsset(kty) ==
    CASE kty \in {"EC", "EC-HSM", "none"} -> <<"ECDSA", 0>>
      [] kty \in {"RSA", "RSA-HSM"}       -> <<"RSA", 2048>>
      [] kty \in {"oct", "oct-HSM"}       -> <<"AES", 0>>
      [] OTHER                            -> Untracked

\* algoToAsset: the size of an RSA key is the number between two
\* underscores, so the raw PKCS#1 algorithms have none.
GcpAsset(algo) ==
    CASE algo \in {"GOOGLE_SYMMETRIC_ENCRYPTION",
                   "EXTERNAL_SYMMETRIC_ENCRYPTION"} -> <<"AES", 256>>
      [] algo = "RSA_SIGN_PSS_2048_SHA256"          -> <<"RSA", 2048>>
      [] algo = "RSA_SIGN_RAW_PKCS1_2048"           -> <<"RSA", 0>>
      [] algo = "EC_SIGN_P256_SHA256"               -> <<"ECDSA", 0>>
      [] algo = "HMAC_SHA256"                       -> <<"HMAC", 0>>
      [] algo = "PQ_SIGN_ML_DSA_65"                 -> <<"ML-DSA", 0>>
      [] OTHER                                      -> Untracked  \* AES_128_GCM

AssetOf(r) ==
    CASE r[1] \in {"kms", "acm"} -> AwsAsset(KeySpec[r])
      [] r[1] = "vault"          -> AzureAsset(KeySpec[r])
      [] r[1] = "gcp"            -> GcpAsset(KeySpec[r])

Tracked(r) == AssetOf(r) # Untracked

Finding == [resource : Resource, expired : BOOLEAN]

Finds(r, e) == [resource |-> r, expired |-> e]

-----------------------------------------------------------------------------

\* runAWS, runAzure, runGCP: each starts at its first listing.
FirstCall(p) == IF p = "gcp" THEN "rings" ELSE "list"

ProviderOf(r) ==
    CASE r[1] = "vault" -> "azure" [] r[1] = "gcp" -> "gcp" [] OTHER -> "aws"

Init ==
    /\ provider \in {"aws", "azure", "gcp"}
    /\ account \in SUBSET {r \in Resource : ProviderOf(r) = provider}
    /\ touched = {}
    /\ call = FirstCall(provider)
    /\ service = IF provider = "aws" THEN "kms" ELSE "vault"
    /\ marker = 0 /\ page = {} /\ next = 0
    /\ at = <<0, 0, 0>>
    /\ found = {} /\ skipped = {}
    /\ outcome = ""

\* The account belongs to other people as well.
Change(r) ==
    /\ outcome = "" /\ Cardinality(touched) < MaxChanges
    /\ ProviderOf(r) = provider /\ r \notin touched
    /\ account' = IF r \in account THEN account \ {r} ELSE account \cup {r}
    /\ touched' = touched \cup {r}
    /\ UNCHANGED <<provider, call, listing, at, found, skipped, outcome>>

Skip(what) == skipped' = skipped \cup {what}

\* The command returns the error; there is no result.
Fail ==
    /\ outcome' = "failed" /\ call' = "done"
    /\ UNCHANGED <<listing, at, found, skipped>>

\* reportPartialInventory, then the result goes to the rest of the run.
Report ==
    /\ call = "report"
    /\ outcome' = IF skipped = {} THEN "whole" ELSE "partial"
    /\ call' = "done"
    /\ UNCHANGED <<listing, at, found, skipped>>

-----------------------------------------------------------------------------
(* AWS and Azure: pages of names, then a call for each name.               *)

Names(m) == {r[2] : r \in {x \in account : x[1] = service /\ x[2] > m}}

UpTo(m, k) == {n \in Names(m) : n <= k}

\* What a listing call may answer: the names after the marker up to some name k,
\* and k as the token unless it is the last of them.
Pages(m) ==
    IF Names(m) = {}
      THEN {[names |-> {}, token |-> 0]}
      ELSE {[names |-> UpTo(m, k), token |-> IF UpTo(m, k) = Names(m) THEN 0 ELSE k] :
               k \in {n \in Names(m) : Cardinality(UpTo(m, n)) <= PageSize}}

\* The loop over a page is at its first name, and goes on to the next one.
Current == <<service, Min(page)>>

Continue ==
    /\ page' = page \ {Min(page)} /\ call' = "entry"
    /\ UNCHANGED <<service, marker, next, at, outcome>>

\* ListKeys and ListCertificates.
AwsList ==
    /\ provider = "aws" /\ call = "list"
    /\ \/ Fail
       \/ /\ \E p \in Pages(marker) : page' = p.names /\ next' = p.token
          /\ call' = "entry"
          /\ UNCHANGED <<service, marker, at, found, skipped, outcome>>

\* DescribeKey and DescribeCertificate.
Describe ==
    /\ provider = "aws" /\ call = "entry" /\ page # {}
    /\ \/ Skip(Current) /\ Continue /\ UNCHANGED found
       \/ /\ Current \in account
          /\ IF service = "kms" /\ ~Tracked(Current)
               THEN Continue
               ELSE call' = "tags" /\ UNCHANGED <<listing, at, outcome>>
          /\ UNCHANGED <<found, skipped>>

CertificateFindings(r) ==
    {Finds(r, e) : e \in {x \in BOOLEAN : IF x THEN r \in Expired ELSE Tracked(r)}}

KmsFindings(r) == {Finds(r, FALSE)}

\* fetchKMSTags and fetchACMTags: the key belongs in the inventory even when
\* its tags could not be read.
FetchTags ==
    /\ call = "tags"
    /\ found' = found \cup IF service = "kms" THEN KmsFindings(Current)
                                              ELSE CertificateFindings(Current)
    /\ \/ Skip(Append(Current, "tags"))
       \/ Current \in account /\ UNCHANGED skipped
    /\ Continue

\* Mutant: the marker stays where it was.
NextPageSameMarker ==
    /\ provider = "aws" /\ call = "entry" /\ page = {}
    /\ \/ next # 0 /\ call' = "list" /\ UNCHANGED listing
       \/ /\ next = 0
          /\ IF service = "kms"
               THEN service' = "acm" /\ marker' = 0 /\ call' = "list"
               ELSE call' = "report" /\ UNCHANGED <<service, marker>>
          /\ UNCHANGED <<page, next>>
    /\ UNCHANGED <<at, found, skipped, outcome>>

\* The end of a page: the next one, the certificates after the keys, or the
\* end of the scan.
NextPage ==
    /\ provider = "aws" /\ call = "entry" /\ page = {}
    /\ \/ /\ next # 0
          /\ marker' = next /\ call' = "list"
          /\ UNCHANGED service
       \/ /\ next = 0
          /\ IF service = "kms"
               THEN service' = "acm" /\ marker' = 0 /\ call' = "list"
               ELSE call' = "report" /\ UNCHANGED <<service, marker>>
    /\ UNCHANGED <<page, next, at, found, skipped, outcome>>

\* azureLister.list reads every page before the first key is fetched.
AzureList ==
    /\ provider = "azure" /\ call = "list"
    /\ \/ Fail
       \/ /\ \E p \in Pages(marker) : page' = page \cup p.names /\ next' = p.token
          /\ \/ next' # 0 /\ marker' = next' /\ UNCHANGED call
             \/ next' = 0 /\ call' = "entry" /\ UNCHANGED marker
          /\ UNCHANGED <<service, at, found, skipped, outcome>>

\* scanWith: a disabled key is passed over, a key that cannot be fetched is
\* skipped, an expired one has a finding of its own.
GetKey ==
    /\ provider = "azure" /\ call = "entry" /\ page # {}
    /\ \/ Current \in Disabled /\ UNCHANGED <<found, skipped>>
       \/ Current \notin Disabled /\ Skip(Current) /\ UNCHANGED found
       \/ /\ Current \in account \ Disabled
          /\ found' = found \cup
                {Finds(Current, e) : e \in {x \in BOOLEAN :
                    Tracked(Current) /\ (x => Current \in Expired)}}
          /\ UNCHANGED skipped
    /\ Continue

EndOfKeys ==
    /\ provider = "azure" /\ call = "entry" /\ page = {}
    /\ call' = "report"
    /\ UNCHANGED <<listing, at, found, skipped, outcome>>

-----------------------------------------------------------------------------
(* GCP: three nested iterators, all drained before the first mapping.      *)

\* The names an iterator has still to return, below the path of its parent.
Below(path, n) ==
    {r[Len(path) + 1] : r \in
        {x \in Resource : IsStrictPrefix(path, x) /\ x[Len(path) + 1] > n}}

\* Mutant: the indices of ring and key swapped.
RingSwapped == <<"gcp", at[2]>>

Ring == <<"gcp", at[1]>>
Key  == <<"gcp", at[1], at[2]>>

NextRing ==
    /\ call = "rings"
    /\ \/ Fail
       \/ LET left == Below(<<"gcp">>, at[1])
          IN /\ \/ left = {} /\ call' = "report" /\ UNCHANGED at
                \/ /\ left # {}
                   /\ at' = <<Min(left), 0, 0>> /\ call' = "keys"
             /\ UNCHANGED <<listing, found, skipped, outcome>>

\* Mutant: a ring whose keys cannot be listed is passed over.
NextKeySilent ==
    /\ call = "keys"
    /\ LET left == Below(Ring, at[2])
       IN \/ call' = "rings" /\ UNCHANGED at
          \/ /\ left # {}
             /\ at' = <<at[1], Min(left), 0>> /\ call' = "versions"
    /\ UNCHANGED <<listing, found, skipped, outcome>>

NextKey ==
    /\ call = "keys"
    /\ LET left == Below(Ring, at[2])
       IN \/ Skip(Ring) /\ call' = "rings" /\ UNCHANGED at
          \/ left = {} /\ call' = "rings" /\ UNCHANGED <<at, skipped>>
          \/ /\ left # {}
             /\ at' = <<at[1], Min(left), 0>> /\ call' = "versions"
             /\ UNCHANGED skipped
    /\ UNCHANGED <<listing, found, outcome>>

NextVersion ==
    /\ call = "versions"
    /\ LET left == Below(Key, at[3])
           v    == Append(Key, Min(left))
       IN \/ Skip(Key) /\ call' = "keys" /\ UNCHANGED <<at, found>>
          \/ left = {} /\ call' = "keys" /\ UNCHANGED <<at, found, skipped>>
          \/ /\ left # {}
             /\ at' = [at EXCEPT ![3] = Min(left)]
             /\ found' = IF v \in account /\ Tracked(v)
                           THEN found \cup {Finds(v, FALSE)} ELSE found
             /\ UNCHANGED <<call, skipped>>
    /\ UNCHANGED <<listing, outcome>>

-----------------------------------------------------------------------------

Scan ==
    /\ \/ AwsList \/ Describe \/ FetchTags \/ NextPage
       \/ AzureList \/ GetKey \/ EndOfKeys
       \/ NextRing \/ NextKey \/ NextVersion
       \/ Report
    /\ UNCHANGED <<provider, account, touched>>

Next == Scan \/ \E r \in Resource : Change(r)

\* Every call is answered in the end, and the scan makes the next one; nobody
\* has to change the account.
Spec == Init /\ [][Next]_vars /\ WF_vars(Scan)

-----------------------------------------------------------------------------

TypeOK ==
    /\ provider \in {"aws", "azure", "gcp"}
    /\ account \subseteq Resource /\ touched \subseteq Resource
    /\ call \in {"list", "entry", "tags", "rings", "keys", "versions", "report",
               "done"}
    /\ service \in {"kms", "acm", "vault"}
    /\ marker \in Nat /\ next \in Nat /\ page \subseteq Nat
    /\ at \in [1 .. 3 -> Nat]
    /\ found \subseteq Finding
    /\ \A s \in skipped : \E r \in Resource :
          IsPrefix(s, r) \/ s = Append(r, "tags")
    /\ outcome \in {"", "failed", "whole", "partial"}

\* The notice of what could not be read is "what keeps that from reading as a
\* clean inventory": whatever call is refused and however the pages fall, a
\* resource that was there from the first call to the last is in the inventory
\* with everything known of it, or on the list of what was skipped (itself, its
\* key or its ring), or of a kind the connector does not take up.
Accounted ==
    outcome \in {"whole", "partial"} =>
        \A r \in account \ touched :
            \/ /\ Finds(r, FALSE) \in found
               /\ r \in Expired => Finds(r, TRUE) \in found
            \/ \E s \in skipped : IsPrefix(s, r)
            \/ r \in Disabled
            \/ /\ ~Tracked(r)
               /\ r[1] = "acm" /\ r \in Expired => Finds(r, TRUE) \in found

=============================================================================
