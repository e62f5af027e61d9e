---------------------------- MODULE MCLoopCreate ----------------------------
(***************************************************************************)
(* Images for TLC: an ISO9660 image of every size at which a decision of   *)
(* the code changes; and, where the sniff can read, every volume           *)
(* recognition sequence of up to five ISO9660 descriptors followed, or     *)
(* not, by an extended area with either NSR descriptor.                    *)
(***************************************************************************)
EXTENDS LoopCreate

Blocks(n) == n * LOOP_BLOCK_SIZE

Sizes == {1, Blocks(1), Blocks(16) - 1, Blocks(16), Blocks(17) - 1, Blocks(17),
          Blocks(22) - 1, Blocks(22), Blocks(23) + 100}

\* n descriptors "CD001", then an extended area if nsr is its descriptor.
Sequence(n, nsr) ==
    [s \in Sectors |->
        CASE s < 16 + n                      -> "CD001"
          [] s = 16 + n /\ nsr # "other"     -> "BEA01"
          [] s = 17 + n /\ nsr # "other"     -> nsr
          [] OTHER                           -> "other"]

Layouts == {Sequence(n, nsr) : n \in 0..5, nsr \in {"other", "NSR02", "NSR03"}}

\* All layouts on images around the size the sniff asks for.
ManyImages ==
    [size : Sizes, id : {Sequence(2, "other")}] \union
    [size : {Blocks(22) - 1, Blocks(22), Blocks(23) + 100}, id : Layouts]
=============================================================================
