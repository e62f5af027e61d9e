------------------------------ MODULE MCLoopIo ------------------------------
(***************************************************************************)
(* Calls for TLC on a device of as many blocks as the cfg says: reads      *)
(* of the first block, up to, across and beyond the end, of no block and   *)
(* of half a block, a bad parameter, and a write, a flush and a reset,     *)
(* with the tokens that make a difference.  The file has a tail behind its *)
(* last whole block, and may be cut within that block.                     *)
(***************************************************************************)
EXTENDS LoopIo

CONSTANTS t1, t2

Calling(op, lba, blocks, valid, token) ==
    [op |-> op, lba |-> lba, size |-> blocks * BlockSize, valid |-> valid,
     token |-> token]

Requests ==
    {Calling("read", 0, 0, TRUE, NoToken),
     Calling("read", 0, 1, FALSE, NoToken),
     Calling("read", LastBlock - 1, 2, TRUE, NoToken),
     Calling("read", LastBlock, 2, TRUE, NoToken),
     Calling("read", LastBlock + 1, 0, TRUE, NoToken),
     Calling("read", LastBlock + 2, 1, TRUE, NoToken),
     [Calling("read", 0, 1, TRUE, NoToken) EXCEPT !.size = BlockSize - 1],
     Calling("read", LastBlock, 1, TRUE, t1),
     Calling("read", 0, 1, TRUE, t2),
     Calling("write", 0, 1, TRUE, t1),
     Calling("flush", 0, 0, TRUE, t1),
     Calling("reset", 0, 0, TRUE, NoToken)}

Cuts == {DeviceSize - 1}
=============================================================================
