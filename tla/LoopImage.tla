----------------------------- MODULE LoopImage -----------------------------
(***************************************************************************)
(* What MountPkg/Application/Mount/LoopDisk.c computes from an image file: *)
(* whether it is big enough, how many blocks the loop device has, and      *)
(* which file systems the content sniff sees.                              *)
(*                                                                         *)
(* An image is its size in bytes and the standard identifier (bytes 1 to 5)*)
(* of the sectors where a volume recognition sequence lives.               *)
(***************************************************************************)
EXTENDS Words

LOOP_BLOCK_SIZE == 2048

ASSUME WordAssumption == WordSpan > 32 * LOOP_BLOCK_SIZE

LOOP_MIN_SIZE == 16 * LOOP_BLOCK_SIZE

StandardId == {"CD001", "BEA01", "NSR02", "NSR03", "other"}

Sectors == 16..21      \* what LoopSniff reads: six blocks from sector 16

ImageFile == [size : 0..(WordSpan - 1), id : [Sectors -> StandardId]]

-----------------------------------------------------------------------------
\* Variant: only an empty file is too small.
NotEmpty(size) == size > 0

BigEnough(size) == size >= LOOP_MIN_SIZE

\* FileSize / LOOP_BLOCK_SIZE - 1, in UINT64 arithmetic.
LastBlockOf(size) == ((size \div LOOP_BLOCK_SIZE) - 1) % WordSpan

\* The sniff wants all six blocks; a shorter read ends it.
SniffReads(img) == img.size >= 22 * LOOP_BLOCK_SIZE

Iso9660(img) == SniffReads(img) /\ img.id[16] = "CD001"

\* Variant: the test of sector 19 is missing.
UdfUpTo18(img) ==
    /\ SniffReads(img)
    /\ \/ \E s \in {16, 17} : img.id[s] = "BEA01"
       \/ img.id[18] \in {"NSR02", "NSR03"}

Udf(img) ==
    /\ SniffReads(img)
    /\ \/ \E s \in {16, 17} : img.id[s] = "BEA01"
       \/ \E s \in {18, 19} : img.id[s] \in {"NSR02", "NSR03"}

-----------------------------------------------------------------------------
(* What the image really holds (external: ECMA-119 and ECMA-167) *)

HasSector(img, s) == img.size >= (s + 1) * LOOP_BLOCK_SIZE

\* A primary volume descriptor at sector 16.
HoldsIso(img) == HasSector(img, 16) /\ img.id[16] = "CD001"

\* An extended area that starts at sector s: BEA01, then an NSR descriptor.
ExtendedAreaAt(img, s) ==
    /\ HasSector(img, s + 1)
    /\ img.id[s] = "BEA01"
    /\ img.id[s + 1] \in {"NSR02", "NSR03"}

HoldsUdf(img) == \E s \in 16..20 : ExtendedAreaAt(img, s)
=============================================================================
