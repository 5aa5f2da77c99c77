-------------------------- MODULE MCLicensedParties --------------------------
(***************************************************************************)
(* LicensedParties as the waste generator service and as the carrier       *)
(* profile service, on small instances.                                    *)
(***************************************************************************)
EXTENDS LicensedParties, StatusGraphs, TLC

MCGeneratorStates == AllGeneratorState
MCGeneratorGraph == WasteGeneratorTransitions
MCGeneratorSeeds == {"active", "restricted", "suspended"}

MCCarrierStates == AllCarrierState
MCCarrierGraph == CarrierProfileTransitions
MCCarrierSeeds == {"pending", "verified", "restricted"}

\* Requests, codes and numbers are interchangeable: no definition names one.
MCSymmetry == Permutations(Requests) \cup Permutations(Parties) \cup Permutations(Numbers)
=============================================================================
