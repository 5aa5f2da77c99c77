-------------------------- MODULE MCWasteGenerators --------------------------
(***************************************************************************)
(* The waste generator service on two small instances in one, which the    *)
(* initial states choose between.  In the scene "clock" there is one       *)
(* generator, whose permits may run out.  In the scene "numbers" two       *)
(* contend for two numbers; seeded ones are active, their permits outlive  *)
(* the run, in which no time passes, and versions go up to 2.              *)
(***************************************************************************)
EXTENDS MCLicensedParties

VARIABLE scene

Busy == {r \in Requests : inflight[r] # Service!Idle}

OnFile == {p \in Parties : Service!Exists(parties[p])}

Documents ==
    {parties[p].contents : p \in OnFile}
    \cup {inflight[r].contents : r \in {r \in Busy : inflight[r].op # "delete"}}

Bounds ==
    \/ /\ scene = "clock"
       /\ \A p, q \in OnFile \cup {inflight[r].record : r \in Busy} : p = q
       /\ \A d, e \in Documents : d.number = e.number
    \/ /\ scene = "numbers"
       /\ now = 0
       /\ \A d \in Documents : d.expires > Horizon
       /\ \A p \in Parties : parties[p].version <= 2

MCInit ==
    /\ Init /\ Bounds
    /\ \/ scene = "clock"
       \/ scene = "numbers" /\ \A p \in OnFile : parties[p].status = FirstStatus

MCNext == Next /\ UNCHANGED scene /\ Bounds'

MCSpec == MCInit /\ [][MCNext]_<<vars, scene>>
=============================================================================
