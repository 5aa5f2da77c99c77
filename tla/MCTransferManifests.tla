------------------------- MODULE MCTransferManifests -------------------------
(***************************************************************************)
(* TransferManifests on a small instance.                                  *)
(***************************************************************************)
EXTENDS TransferManifests, TLC

\* Requests are interchangeable, and so are generators: no definition names one.
RequestSymmetry == Permutations(Requests) \cup Permutations(Generators)
=============================================================================
