----------------------------- MODULE MCWorkbench -----------------------------
(***************************************************************************)
(* Workbench on small instances.                                           *)
(***************************************************************************)
EXTENDS Workbench

CONSTANTS r1, r2, r3

MCRecords == {r1, r2, r3}
MCSeeded == <<r2, r1>>
MCManifestSeeds == r1 :> "received" @@ r2 :> "submitted"
MCManifestGraph == TransferManifestTransitions

\* README.md:138 asks for the workbench's list of transitions to be kept in step
\* with the services' graphs.  It lists two that they do not have, and refuse.
ASSUME OfferedAssumption ==
    TRANSITIONS =
        [wasteGenerator   |-> WasteGeneratorTransitions,
         carrierProfile   |-> CarrierProfileTransitions \cup {<<"pending", "expired">>},
         transferManifest |-> TransferManifestTransitions,
         complianceCheck  |-> ComplianceCheckTransitions \cup {<<"pending", "escalated">>}]

\* No definition names a call.
MCSymmetry == Permutations(Calls)
=============================================================================
