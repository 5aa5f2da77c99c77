------------------------------ MODULE Compliance ------------------------------
(***************************************************************************)
(* The check service beside the manifest service itself: ComplianceChecks, *)
(* with TransferManifests in the place of the ManifestBoard that it rests  *)
(* on.  The two share the database only.  The board, which is what the     *)
(* lookup of a check sees of a manifest's row, follows the rows.           *)
(***************************************************************************)
EXTENDS ComplianceChecks

CONSTANTS
    Generators,         \* codes of waste generators
    Carriers,           \* codes of carriers
    ManifestRequests,   \* requests to the manifest service at a time
    ManifestVersions    \* bound: the highest version a manifest reaches

ASSUME VersionsAssumption == ManifestVersions \in Nat \ {0}

VARIABLES
    rows,               \* the table of manifests, by code
    manifestTrail,      \* their audit entries
    manifestInflight,   \* what each request to the manifest service holds
    generators,         \* standing of each generator
    carriers,           \* standing of each carrier
    vouched,            \* history, of the manifest service
    backed              \* history: which parties named in m's row have been in
                        \* force at some moment since they are named there

ManifestService == INSTANCE TransferManifests WITH
    manifests <- rows, trail <- manifestTrail, inflight <- manifestInflight,
    Requests <- ManifestRequests, MaxVersion <- ManifestVersions

manifestVars ==
    <<rows, manifestTrail, manifestInflight, generators, carriers, vouched, backed>>

complianceVars == <<vars, manifestVars>>

Standings == [m \in Manifests |-> ManifestService!Standing(m)]

ComplianceInit ==
    /\ Init
    /\ ManifestService!Init
    /\ manifests = Standings
    /\ backed = [m \in Manifests |-> ManifestService!InForceParties(m)]

\* The history variable: no code.  It outlives a write that leaves the parties.
Track ==
    backed' = [m \in Manifests |->
                  ManifestService!InForceParties(m)' \cup
                  IF rows'[m].contents = rows[m].contents THEN backed[m] ELSE {}]

CheckServiceStep == \E r \in Requests : RequestStep(r) /\ UNCHANGED manifestVars

\* A step of a request to the manifest service, or of a party it looks up.
ManifestServiceStep ==
    /\ ManifestService!Next
    /\ manifests' = Standings'
    /\ Track
    /\ Observe
    /\ UNCHANGED <<checks, trail, inflight>>

ComplianceNext == CheckServiceStep \/ ManifestServiceStep

ComplianceSpec == ComplianceInit /\ [][ComplianceNext]_complianceVars
-----------------------------------------------------------------------------
(* The properties                                                          *)

\* A check that has passed rests on its manifest's parties: the manifest it
\* cites is past its draft, and each of the parties that the manifest's row
\* names has been in force while it was named there.  It takes the lookups of
\* both services, the version of each save, and that nothing past its draft is
\* edited, by requests of four kinds that read what others are changing.
PassRestsOnParties ==
    \A c \in Checks : checks[c].status = "pass" =>
        LET m == checks[c].contents IN
        /\ rows[m].status \in AllManifestState \ {"draft"}
        /\ backed[m] = {"generator", "carrier"}

\* What a passed check was decided on stays: neither does the check cite
\* another manifest, nor the manifest name other parties, whatever was read
\* before the decision and is saved after it.
EvidenceStands ==
    [][\A c \in Checks : checks[c].status = "pass" =>
        /\ checks'[c].contents = checks[c].contents
        /\ rows'[checks[c].contents].contents = rows[checks[c].contents].contents
      ]_complianceVars
=============================================================================
