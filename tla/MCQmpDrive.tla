----------------------------- MODULE MCQmpDrive -----------------------------
(***************************************************************************)
(* A script for TLC: a press of a key with another to come, which QEMU may *)
(* refuse, a screenshot, and a press QEMU may refuse too, after which main *)
(* counts its shots; more follow at the interval until there are enough,   *)
(* and the first of these QEMU may refuse as well.                         *)
(***************************************************************************)
EXTENDS QmpDrive

ShortScript == <<[op |-> "command", file |-> 0], [op |-> "shot", file |-> 1],
                 [op |-> "key", file |-> 0]>>
=============================================================================
