----------------------------- MODULE MCMountRun -----------------------------
(***************************************************************************)
(* Images and media for TLC: a pure ISO9660 image, one too short for the   *)
(* sniff, a UDF bridge the sniff sees, one whose extended area is behind   *)
(* three more descriptors, one with a descriptor of UDF but no extended    *)
(* area, and plain data.                                                   *)
(***************************************************************************)
EXTENDS MountRun

CONSTANTS d1, d2

\* n descriptors "CD001", then an extended area if bridge.
Image(blocks, n, bridge) ==
    [size |-> blocks * LOOP_BLOCK_SIZE,
     id |-> [s \in Sectors |->
                CASE s < 16 + n            -> "CD001"
                  [] s = 16 + n /\ bridge  -> "BEA01"
                  [] s = 17 + n /\ bridge  -> "NSR02"
                  [] OTHER                 -> "other"]]

PureIso == Image(23, 2, FALSE)
ShortIso == Image(18, 2, FALSE)
Bridge == Image(23, 2, TRUE)
LateBridge == Image(23, 4, TRUE)
Data == Image(23, 0, FALSE)

Stray == [PureIso EXCEPT !.id[18] = "NSR02"]

SomeImages == {PureIso, ShortIso, Bridge, LateBridge, Stray, Data}
AnyCase(word) == [word EXCEPT !.exact = FALSE]

\* No shell; no word; every kind of word, in the case of the source and in
\* another; -ISO with a file.
SomeParams ==
    {NoShell, [Argc |-> 1, Argv1 |-> Plain("other")],
     [Argc |-> 3, Argv1 |-> Dashed("ISO")]}
    \union [Argc : {2},
            Argv1 : {Dashed("h"), Plain("selftest"), Dashed("ISO"),
                     AnyCase(Dashed("ISO")), Dashed("NTFS"),
                     AnyCase(Dashed("NTFS")), Dashed(""), Plain("other")}]

SomeMedia == {{"fat"}, {"ntfs"}, {}}
=============================================================================
