----------------------------- MODULE MCSelfTest -----------------------------
(***************************************************************************)
(* Small instance of SelfTest for TLC: room for the devices of two tests   *)
(* that could not be destroyed, and for a third test over them.  Two       *)
(* drivers, and mount.efi in directories around the length at which a path *)
(* is cut, with the drivers beside it, in the root, in both places, or one *)
(* of them missing.                                                        *)
(***************************************************************************)
EXTENDS SelfTest

CONSTANTS h1, h2, h3, f1, f2, f3

Lengths == [tools |-> 3, long |-> 12, just |-> 9, cuts |-> 6, tight |-> 8,
            drivers |-> 2, ntfs |-> 3, ext2 |-> 3] @@ ("mount.efi" :> 2)

Drivers == <<<<"drivers", "ntfs">>, <<"drivers", "ext2">>>>

In(dir) == <<FilePathNode(TRUE, Append(dir, "mount.efi"))>>

\* The last three: no slash, two nodes, no file-path node.
Paths ==
    {In(<<>>)} \union {In(<<d>>) : d \in {"tools", "long", "just", "cuts", "tight"}}
    \union {<<OtherNode, FilePathNode(FALSE, <<"tools", "mount.efi">>)>>,
            <<FilePathNode(FALSE, <<"mount.efi">>)>>,
            <<FilePathNode(TRUE, <<"tools">>), FilePathNode(TRUE, <<"mount.efi">>)>>,
            <<OtherNode>>}

DriversIn(dir) == {dir, dir \o <<"drivers">>} \union {dir \o Drivers[i] : i \in 1..2}

Trees(path) ==
    LET here == IF FileNodes(path) = {} THEN <<>> ELSE Beside(path, <<>>)
    IN  {DriversIn(here), DriversIn(<<>>), DriversIn(here) \union DriversIn(<<>>),
         {here, here \o <<"drivers">>, here \o Drivers[1]}}

SomePlaces == UNION {[path : {p}, tree : Trees(p)] : p \in Paths}
=============================================================================
