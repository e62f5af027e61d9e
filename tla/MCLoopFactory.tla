--------------------------- MODULE MCLoopFactory ---------------------------
(***************************************************************************)
(* Small instances of LoopFactory for TLC.                                 *)
(***************************************************************************)
EXTENDS LoopFactory, TLC

CONSTANTS f1, f2, f3, imgA, imgB

\* f1 and f2 are two opens of one image, f3 opens another.
TwoOpensOfOneImage == f1 :> imgA @@ f2 :> imgA @@ f3 :> imgB
TwoImages == f1 :> imgA @@ f2 :> imgB

\* Pool slots and free handles are interchangeable (safety runs only).
Interchangeable == Permutations(Disk) \union Permutations(Handle)
=============================================================================
