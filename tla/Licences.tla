------------------------------ MODULE Licences ------------------------------
(***************************************************************************)
(* A register of licensed parties (generators with their permits, carriers *)
(* with their licences) as the manifest service sees it: a party is        *)
(* absent, soft-deleted, on file but not in force, or in force.  In force  *)
(* is the code's test, a status of active or verified with an expiry date  *)
(* after now; blocked is every other state of a row that FindByCode finds. *)
(*                                                                         *)
(* This is the abstract view of the two licence services: each step is the *)
(* effect of one of their commits, or of time passing an expiry date.      *)
(* The terminal status expired is not told apart from the other blocked    *)
(* ones, so Restore allows more than the services do.                      *)
(***************************************************************************)
CONSTANT Codes      \* the codes of the parties
VARIABLE standing   \* standing[c]: how the party with code c stands

Standings == {"absent", "blocked", "in_force", "deleted"}

TypeOK == standing \in [Codes -> Standings]

\* The first start of the server seeds parties in force and others not.
Init == standing \in [Codes -> {"absent", "blocked", "in_force"}]

OnFile(c) == standing[c] \in {"blocked", "in_force"}

InForce(c) == standing[c] = "in_force"

Set(c, s) == standing' = [standing EXCEPT ![c] = s]

\* A party is created; a carrier starts pending, a permit may lapse before
\* the insert commits.
Enroll(c) == standing[c] = "absent" /\ \E s \in {"blocked", "in_force"} : Set(c, s)

\* A reviewer restricts, suspends or expires a party; or expiry dates pass, of
\* several parties at once if need be.
Block(S) ==
    /\ S # {}
    /\ \A c \in S : standing[c] = "in_force"
    /\ standing' = [c \in Codes |-> IF c \in S THEN "blocked" ELSE standing[c]]

\* A reviewer activates or verifies it, or its licence is renewed.
Restore(c) == standing[c] = "blocked" /\ Set(c, "in_force")

\* An administrator deletes it; its code can never be created again.
Withdraw(c) == OnFile(c) /\ Set(c, "deleted")

Step(c) == Enroll(c) \/ Restore(c) \/ Withdraw(c)

Next == (\E c \in Codes : Step(c)) \/ (\E S \in SUBSET Codes : Block(S))

Spec == Init /\ [][Next]_standing
=============================================================================
