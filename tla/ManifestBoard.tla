---------------------------- MODULE ManifestBoard ----------------------------
(***************************************************************************)
(* The manifests as a service that looks them up by code sees them: a code *)
(* is absent, deleted, or has a status.  This is the abstract view of the  *)
(* manifest service on which the check service rests.  Withdraw comes in   *)
(* any status: a deletion that read a draft may commit later.              *)
(***************************************************************************)
EXTENDS StatusGraphs

CONSTANT Codes      \* the codes of the manifests
VARIABLE standing   \* standing[c]: how the manifest with code c stands

TypeOK == standing \in [Codes -> AllManifestState \cup {"absent", "deleted"}]

\* The first start of the server seeds manifests in three of the statuses.
Init == standing \in [Codes -> {"absent", "draft", "submitted", "in_transit"}]

OnFile(c) == standing[c] \notin {"absent", "deleted"}

Set(c, s) == standing' = [standing EXCEPT ![c] = s]

Draft(c) == standing[c] = "absent" /\ Set(c, "draft")

Move(c) ==
    \E s \in AllManifestState :
        CanTransition(TransferManifestTransitions, standing[c], s) /\ Set(c, s)

Withdraw(c) == OnFile(c) /\ Set(c, "deleted")

Step(c) == Draft(c) \/ Move(c) \/ Withdraw(c)

Next == \E c \in Codes : Step(c)

Spec == Init /\ [][Next]_standing
=============================================================================
