-------------------------------- MODULE Words --------------------------------
(***************************************************************************)
(* The integers of the target: UINT64 and UINTN have the same width.       *)
(***************************************************************************)
EXTENDS Integers

CONSTANT WordSpan      \* number of values of a UINT64

ASSUME WordSpanAssumption == WordSpan \in Nat \ {0}
=============================================================================
