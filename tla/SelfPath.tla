------------------------------ MODULE SelfPath ------------------------------
(***************************************************************************)
(* Where mount looks for its drivers: MountGetSelfDir, MountJoinSelfPath   *)
(* and the paths MountOpenDriverFile and MountBuildDriverDevicePath make   *)
(* of them, in MountPkg/Application/Mount/FsDriver.c.                      *)
(*                                                                         *)
(* A path text is the names between its backslashes and whether it begins  *)
(* with one; of a name only the length in characters counts.  The path of  *)
(* a loaded image is a sequence of device-path nodes, of which those of    *)
(* the FILEPATH kind hold a text.                                          *)
(***************************************************************************)
EXTENDS Integers, SequencesExt, FiniteSetsExt

CONSTANTS
    Length,    \* the number of characters of each name
    MaxPath    \* MOUNT_MAX_PATH, characters with the final zero

ASSUME PathAssumption ==
    /\ Length \in [DOMAIN Length -> Nat \ {0}]
    /\ MaxPath \in Nat \ {0}

Text(rooted, names) == [rooted |-> rooted, names |-> names]

Empty == Text(FALSE, <<>>)

FilePathNode(rooted, names) == [filepath |-> TRUE, text |-> Text(rooted, names)]
OtherNode == [filepath |-> FALSE, text |-> Empty]

Texts == [rooted : BOOLEAN, names : Seq(DOMAIN Length)]

\* What a device path may be; other nodes hold no text.
DevicePaths ==
    Seq({node \in [filepath : BOOLEAN, text : Texts] :
            node.filepath \/ node.text = Empty})

\* A backslash in front of each name but an unrooted first one.
TextLength(t) ==
    LET upto[n \in 0..Len(t.names)] ==
            IF n = 0 THEN IF t.rooted THEN 0 ELSE -1
            ELSE upto[n - 1] + 1 + Length[t.names[n]]
    IN  IF t.names = <<>> THEN 0 ELSE upto[Len(t.names)]

FileNodes(path) == {i \in DOMAIN path : path[i].filepath}

HasBackslash(t) == t.rooted \/ Len(t.names) > 1

-----------------------------------------------------------------------------
\* Variant: drivers are looked for from the root of the volume.
MountGetSelfDirRoot(path) == IF FileNodes(path) = {} THEN {} ELSE {Empty}

\* The directory in the last FILEPATH node, in a set that is empty when there
\* is none.  StrnCpyS leaves a text that does not fit out altogether, and the
\* directory stays what it was initialised to, the empty text.
MountGetSelfDir(path) ==
    LET image == path[Max(FileNodes(path))].text
        dir == IF Len(image.names) = 1 THEN Empty
                                       ELSE Text(image.rooted, Front(image.names))
    IN  IF FileNodes(path) = {} \/ ~ HasBackslash(image) THEN {}
        ELSE {IF TextLength(dir) < MaxPath THEN dir ELSE Empty}

\* UnicodeSPrint cuts at MaxPath - 1 characters.  The cut may fall into a
\* name, which is then none that exists, or between two.
CutName == "(cut)"

Cut(t) ==
    LET Upto(n) == Text(t.rooted, SubSeq(t.names, 1, n))
        whole == CHOOSE n \in 0..Len(t.names) :
                     /\ TextLength(Upto(n)) < MaxPath
                     /\ n = Len(t.names) \/ TextLength(Upto(n + 1)) >= MaxPath
        room == MaxPath - 1 - TextLength(Upto(whole))
    IN  IF whole = Len(t.names) \/ room <= 1 THEN Upto(whole)
        ELSE Text(t.rooted, Append(Upto(whole).names, CutName))

MountJoinSelfPath(dir, relative) ==
    IF dir.names = <<>> THEN Text(FALSE, relative)
    ELSE Cut(Text(dir.rooted, dir.names \o relative))

\* What the file system is asked for, by name from the root of the volume.
LookedUp(path, relative) ==
    {MountJoinSelfPath(dir, relative).names : dir \in MountGetSelfDir(path)}

-----------------------------------------------------------------------------
(* What is meant: the directory mount.efi is in.  The texts of all FILEPATH *)
(* nodes make up the name of the file (UEFI specification, 10.3.4.4).       *)

Beside(path, relative) ==
    Front(FlattenSeq([i \in DOMAIN path |-> path[i].text.names])) \o relative

\* The paths for which the code finds that directory: one node that is not
\* too long, neither by itself nor with the file's name.
Resolvable(path, relative) ==
    /\ Cardinality(FileNodes(path)) = 1
    /\ TextLength(Text(TRUE, Beside(path, relative))) < MaxPath
=============================================================================
