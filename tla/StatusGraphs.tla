---------------------------- MODULE StatusGraphs ----------------------------
(***************************************************************************)
(* The status graphs of the four aggregates.  The code keeps each graph as *)
(* a map from a status to the set of statuses it may move to; here a graph *)
(* is the set of its edges.  A status without outgoing edges is terminal.  *)
(***************************************************************************)

WasteGeneratorTransitions ==
    {<<"active", "restricted">>, <<"active", "suspended">>, <<"active", "expired">>,
     <<"restricted", "active">>, <<"restricted", "suspended">>,
     <<"restricted", "expired">>,
     <<"suspended", "active">>, <<"suspended", "expired">>}

CarrierProfileTransitions ==
    {<<"pending", "verified">>, <<"pending", "restricted">>,
     <<"verified", "restricted">>, <<"verified", "expired">>,
     <<"restricted", "pending">>, <<"restricted", "expired">>}

TransferManifestTransitions ==
    {<<"draft", "submitted">>,
     <<"submitted", "in_transit">>, <<"submitted", "rejected">>,
     <<"in_transit", "received">>, <<"in_transit", "rejected">>}

ComplianceCheckTransitions ==
    {<<"pending", "pass">>, <<"pending", "fail">>, <<"fail", "escalated">>}

AllManifestState == {"draft", "submitted", "in_transit", "received", "rejected"}

AllCheckState == {"pending", "pass", "fail", "escalated"}

AllGeneratorState == {"active", "restricted", "suspended", "expired"}

AllCarrierState == {"pending", "verified", "restricted", "expired"}

\* An unknown status, on either side, has no edge.
CanTransition(graph, from, to) == <<from, to>> \in graph
=============================================================================
