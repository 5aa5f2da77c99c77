-------------------------- MODULE MCComplianceChecks --------------------------
(***************************************************************************)
(* ComplianceChecks on a small instance.                                   *)
(***************************************************************************)
EXTENDS ComplianceChecks, TLC

\* Requests are interchangeable, and so are manifests: no definition names one.
MCSymmetry == Permutations(Requests) \cup Permutations(Manifests)
=============================================================================
