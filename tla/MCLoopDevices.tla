--------------------------- MODULE MCLoopDevices ---------------------------
(***************************************************************************)
(* The parts with the inputs of their own instances, joined by an ISO9660  *)
(* image of 23 blocks with a tail and by mount.efi in \tools.              *)
(***************************************************************************)
EXTENDS LoopDevices, MCLoopCreate, MCLoopIo, MCFsDriver, MCSelfTest

PureIso == [size |-> Blocks(23) + 100, id |-> Sequence(2, "other")]

InTools == [path |-> In(<<"tools">>), tree |-> DriversIn(<<"tools">>)]

\* Image handles are told apart only by what they carry.
Interchangeable == Permutations(ImageHandle)
=============================================================================
