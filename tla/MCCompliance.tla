----------------------------- MODULE MCCompliance -----------------------------
(***************************************************************************)
(* Compliance on two small instances in one, which the initial states      *)
(* choose between, as all of it at once is more than a run can hold.       *)
(*                                                                         *)
(* In the scene "licences" parties, enrolled before, come and go, and each *)
(* service has one request at a time, about one check and one manifest.    *)
(* In the scene "races" all parties are in force, and either service has   *)
(* two requests at a time; a check may cite a second manifest, which the   *)
(* first start seeded and nobody works on.                                 *)
(***************************************************************************)
EXTENDS Compliance, FiniteSets, TLC

CONSTANT Seeded     \* the second manifest

VARIABLE scene

OnChecks == {r \in Requests : inflight[r] # Service!Idle}

OnManifests ==
    {s \in ManifestRequests : manifestInflight[s] # ManifestService!Service!Idle}

Bounds ==
    /\ \A s \in OnManifests : manifestInflight[s].record # Seeded
    /\ \/ /\ scene = "licences"
          /\ Cardinality(OnManifests) <= 1 /\ Cardinality(OnChecks) <= 1
          /\ \A r \in OnChecks : inflight[r].contents # Seeded
       \/ /\ scene = "races"
          /\ OnManifests = {} \/ OnChecks = {}
          /\ \A g \in Generators : generators[g] = "in_force"
          /\ \A h \in Carriers : carriers[h] = "in_force"

MCInit ==
    /\ ComplianceInit
    /\ \/ /\ scene = "licences" /\ manifests[Seeded] = "absent"
          /\ \A g \in Generators : generators[g] # "absent"
          /\ \A h \in Carriers : carriers[h] # "absent"
       \/ scene = "races" /\ manifests[Seeded] = "submitted"
    /\ Bounds

MCNext == ComplianceNext /\ UNCHANGED scene /\ Bounds'

MCSpec == MCInit /\ [][MCNext]_<<complianceVars, scene>>

\* Requests and generators are interchangeable: no definition names one.
MCSymmetry ==
    Permutations(Requests) \cup Permutations(ManifestRequests) \cup Permutations(Generators)

\* What steps and properties depend on: no step reads a trail, submitted or
\* vouched, and manifests follows from rows.
MCView ==
    <<checks, inflight, rows, manifestInflight, generators, carriers, backed, scene>>
=============================================================================
