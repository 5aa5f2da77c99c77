--------------------------- MODULE MCAuditedService ---------------------------
(***************************************************************************)
(* AuditTrail on one record with the statuses of compliance checks:        *)
(* the graph in which a decision ends the statuses that may be edited.     *)
(***************************************************************************)
EXTENDS AuditTrail, TLC

MCGraph == ComplianceCheckTransitions
MCStatuses == AllCheckState
MCSeeds == {"pending", "pass", "fail"}

\* Requests are interchangeable, and so are contents: no definition names one.
MCSymmetry == Permutations(Requests) \cup Permutations(RecordContents)
=============================================================================
