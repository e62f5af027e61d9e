------------------------------ MODULE FatImage ------------------------------
(***************************************************************************)
(* tools/mkfatimg.py: create_image, which lays a host directory out as a   *)
(* FAT32 image, and the reading of an image by which inspect_image judges  *)
(* it.                                                                     *)
(*                                                                         *)
(* The host's tree is given in the order scan_tree sorts it, parents       *)
(* before children and directories before files; that is also the order of *)
(* every pass over it.  The image is the bytes of its data region: what is *)
(* before that has a fixed length and is written in place.  A byte of a    *)
(* directory entry or of a file is the thing it is part of and its place   *)
(* in it; a NUL ends a directory, so it and the bytes of a fresh image are *)
(* the same.                                                               *)
(***************************************************************************)
EXTENDS SequencesExt, FiniteSetsExt, Integers

CONSTANTS
    SECTOR, SEC_PER_CLUS, RSVD_SEC_CNT, NUM_FATS, FAT32_MIN_CLUSTERS,
    FatEntryBytes, DirEntryBytes,   \* 4 and 32
    FileSizeSpan,   \* 2^32: an entry's FileSize is an unsigned 32-bit number
    Trees,       \* host trees, each a sequence of nodes
    Totals,      \* --size-mb, in sectors
    FileSizes,   \* sizes a file changes to while the image is made
    MaxChanges   \* bound: such changes

\* name is what short_name makes of a child's name: own, whether it is its own
\* short name; fits, whether it has one without a number, and stem, number and
\* ext, that name; digits, how many fit behind stem and tilde; lfn, the
\* entries its long name takes.
Names == [own : BOOLEAN, fits : BOOLEAN, stem : STRING, number : Nat,
          ext : STRING, digits : 1..4, lfn : Nat \ {0}]

ASSUME FatAssumption ==
    /\ {SECTOR, SEC_PER_CLUS, RSVD_SEC_CNT, NUM_FATS, FAT32_MIN_CLUSTERS,
        FatEntryBytes, DirEntryBytes, FileSizeSpan} \subseteq Nat \ {0}
    /\ SECTOR % FatEntryBytes = 0 /\ SECTOR * SEC_PER_CLUS % DirEntryBytes = 0
    /\ \A t \in Trees :
          /\ t \in Seq([parent : Nat, dir : BOOLEAN, size : Nat, name : Names])
          /\ t[1].parent = 0 /\ t[1].dir
          /\ \A n \in 2..Len(t) :
                t[n].parent \in 1..(n - 1) /\ t[t[n].parent].dir
    /\ Totals \subseteq Nat /\ FileSizes \subseteq Nat /\ MaxChanges \in Nat

VARIABLES
    pc,       \* the pass create_image is in, and how it ends
    tot_sec,
    tree,     \* scan_tree's nodes
    host,     \* sizes of the host's files now, Gone for one removed
    todo,     \* nodes this pass has still to visit
    layout,   \* first_clus, parent_clus and dir_n of the nodes
    fat,      \* the dictionary fat
    next_clus,
    data,     \* img, from the data region on
    written,  \* history: bytes written for a file
    changes   \* history: changes of the host

fatVars == <<pc, tot_sec, tree, host, todo, layout, fat, next_clus, data,
             written, changes>>

ROOT_CLUS == 2
EOC == 268435455      \* 0x0FFFFFFF
EndMark == 268435448  \* 0x0FFFFFF8: from here on a number ends a chain
Gone == -1
BYTES_PER_CLUSTER == SECTOR * SEC_PER_CLUS

Quotient(a, b) == (a + b - 1) \div b    \* rounded up

-----------------------------------------------------------------------------
(* Geometry *)

ClustersWith(tot, fat_sec) ==
    (tot - RSVD_SEC_CNT - NUM_FATS * fat_sec) \div SEC_PER_CLUS

\* fat_sz_for, started at one sector: the first size that covers its clusters.
fat_sz_for(tot) ==
    LET need(s) == Quotient((ClustersWith(tot, s) + 2) * FatEntryBytes, SECTOR)
        grow[s \in Nat] == IF need(s) <= s THEN s ELSE grow[need(s)]
    IN  grow[1]

FatSec == fat_sz_for(tot_sec)
clus_count == ClustersWith(tot_sec, FatSec)
DataBytes == (tot_sec - RSVD_SEC_CNT - NUM_FATS * FatSec) * SECTOR

-----------------------------------------------------------------------------
(* Names and directory entries *)

Nodes == DOMAIN tree
Dirs == {n \in Nodes : tree[n].dir}

Ordered(S) ==
    LET upto[n \in 0..Len(tree)] ==
            IF n = 0 THEN <<>>
            ELSE IF n \in S THEN Append(upto[n - 1], n) ELSE upto[n - 1]
    IN  upto[Len(tree)]
Children(n) == Ordered({c \in Nodes : tree[c].parent = n})

None == <<>>

\* f"{prefix}~{n}"[:8] keeps as many digits of n as there is room for.
LeadingDigits(n, digits) ==
    LET ten(k) == <<1, 10, 100, 1000, 10000>>[k + 1]
        drop == CHOOSE k \in 0..3 :
                    /\ n \div ten(k) < ten(digits)
                    /\ \A j \in 0..(k - 1) : n \div ten(j) >= ten(digits)
    IN  n \div ten(drop)

short_name(name, taken) ==
    LET plain       == <<name.stem, name.number, name.ext>>
        numbered(n) == <<name.stem, LeadingDigits(n, name.digits), name.ext>>
        free(n)     == numbered(n) \notin taken
    IN  IF name.fits /\ plain \notin taken THEN plain
        ELSE IF \E n \in 1..999 : free(n)
        THEN numbered(CHOOSE n \in 1..999 :
                          free(n) /\ \A m \in 1..(n - 1) : ~ free(m))
        ELSE None

\* The short names of n's children, each chosen against those before it.
ShortNames(n) ==
    LET children == Children(n)
        names[i \in 0..Len(children)] ==
            IF i = 0 THEN <<>>
            ELSE LET before == names[i - 1]
                 IN  Append(before, short_name(tree[children[i]].name,
                                               ToSet(before)))
    IN  names[Len(children)]

\* The name on disk is the short one alone if that spells the real one.
SpelledOut(c, short) == tree[c].name.own /\ short[2] = tree[c].name.number

LfnEntries(c, short) ==
    IF SpelledOut(c, short) THEN <<>>
    ELSE [i \in 1..tree[c].name.lfn |-> <<"lfn", c>>]

ChildEntries(c, short, lay) ==
    Append(LfnEntries(c, short),
           <<"short", short, tree[c].dir, lay.first[c], tree[c].size>>)

\* "." and "..", which say 0 for the root.
DotEntries(n, lay) ==
    IF lay.parent[n] = 0 THEN <<>>
    ELSE << <<"dot", lay.first[n]>>,
            <<"dotdot", IF lay.parent[n] = ROOT_CLUS THEN 0 ELSE lay.parent[n]>> >>

Entries(n, lay) ==
    LET children == Children(n)
        short    == ShortNames(n)
    IN  DotEntries(n, lay) \o
        FlattenSeq([i \in DOMAIN children |->
                       ChildEntries(children[i], short[i], lay)])

Byte(what, part) == [what |-> what, part |-> part]
NUL == Byte(<<"nul">>, 0)

Bytes(what, size) == [k \in 1..size |-> Byte(what, k)]

\* Their bytes and the NUL behind them.
build_dir_entries(n, lay) ==
    LET entries == Entries(n, lay)
    IN  Append(FlattenSeq([i \in DOMAIN entries |->
                              Bytes(entries[i], DirEntryBytes)]),
               NUL)

-----------------------------------------------------------------------------
FatInit ==
    /\ pc = "begin"
    /\ tot_sec \in Totals
    /\ tree \in Trees
    /\ host = [n \in DOMAIN tree |-> tree[n].size]
    /\ todo = <<>>
    /\ layout = [first |-> [n \in DOMAIN tree |-> 0],
                 parent |-> [n \in DOMAIN tree |-> 0],
                 dir_n |-> [n \in DOMAIN tree |-> 0]]
    /\ fat = <<>>
    /\ next_clus = ROOT_CLUS
    /\ data = <<>>
    /\ written = [n \in DOMAIN tree |-> 0]
    /\ changes = 0

\* The size is refused, or the tree scanned and an empty image made.
ScanTree ==
    /\ pc = "begin"
    /\ IF clus_count < FAT32_MIN_CLUSTERS
       THEN pc' = "too small" /\ UNCHANGED <<todo, data>>
       ELSE /\ pc' = "layout"
            /\ todo' = Ordered(Nodes)
            /\ data' = [i \in 1..DataBytes |-> NUL]
    /\ UNCHANGED <<tot_sec, tree, host, layout, fat, next_clus, written, changes>>

\* Variant: the last cluster of a run is chained on.
alloc_runNoEnd(m, n, lay) ==
    /\ layout' = IF n = 0 THEN lay ELSE [lay EXCEPT !.first[m] = next_clus]
    /\ next_clus' = next_clus + n
    /\ fat' = [c \in (DOMAIN fat) \union next_clus..(next_clus + n - 1) |-> c + 1]

\* The next n clusters, chained, for node m.
alloc_run(m, n, lay) ==
    /\ layout' = IF n = 0 THEN lay ELSE [lay EXCEPT !.first[m] = next_clus]
    /\ next_clus' = next_clus + n
    /\ LET last == next_clus + n - 1
       IN  fat' = [c \in (DOMAIN fat) \union next_clus..last |->
                      IF c \in DOMAIN fat THEN fat[c]
                      ELSE IF c = last THEN EOC ELSE c + 1]

FirstClusterOf(parent) == IF parent = 0 THEN 0 ELSE layout.first[parent]

DirClusters(n, lay) ==
    Quotient(Len(build_dir_entries(n, lay)), BYTES_PER_CLUSTER)

\* Variant: the parent is recorded when the clusters have been counted.
LayoutParentLate ==
    /\ pc = "layout" /\ todo # <<>>
    /\ LET n   == Head(todo)
           lay == [layout EXCEPT !.parent[n] = FirstClusterOf(tree[n].parent)]
           k   == IF tree[n].dir THEN DirClusters(n, layout)
                  ELSE Quotient(tree[n].size, BYTES_PER_CLUSTER)
       IN  alloc_run(n, k, [lay EXCEPT !.dir_n[n] = k])
    /\ todo' = Tail(todo)
    /\ UNCHANGED <<pc, tot_sec, tree, host, data, written, changes>>

\* Variant: every directory is given one cluster.
LayoutOneCluster ==
    /\ pc = "layout" /\ todo # <<>>
    /\ LET n   == Head(todo)
           lay == [layout EXCEPT !.parent[n] = FirstClusterOf(tree[n].parent)]
           k   == IF tree[n].dir THEN 1
                  ELSE Quotient(tree[n].size, BYTES_PER_CLUSTER)
       IN  alloc_run(n, k, [lay EXCEPT !.dir_n[n] =
                               IF tree[n].dir THEN DirClusters(n, lay) ELSE 0])
    /\ todo' = Tail(todo)
    /\ UNCHANGED <<pc, tot_sec, tree, host, data, written, changes>>

\* Child i of n gets its entry: it has a short name, and struct packs its size.
HasEntry(n, i) ==
    ShortNames(n)[i] # None /\ tree[Children(n)[i]].size < FileSizeSpan

\* layout_dir visits a node: a directory's clusters are counted from its
\* entries, and it or a file is given its run.
LayoutNode ==
    /\ pc = "layout" /\ todo # <<>>
    /\ LET n   == Head(todo)
           lay == [layout EXCEPT !.parent[n] = FirstClusterOf(tree[n].parent)]
           k   == IF tree[n].dir THEN DirClusters(n, lay)
                  ELSE Quotient(tree[n].size, BYTES_PER_CLUSTER)
       IN  /\ \A i \in DOMAIN Children(n) : HasEntry(n, i)
           /\ alloc_run(n, k, [lay EXCEPT !.dir_n[n] = k])
    /\ todo' = Tail(todo)
    /\ UNCHANGED <<pc, tot_sec, tree, host, data, written, changes>>

\* build_dir_entries ends in an exception at the first child without an entry.
LayoutFails ==
    /\ pc = "layout" /\ todo # <<>>
    /\ LET n == Head(todo)
       IN  \E i \in DOMAIN Children(n) :
              /\ ~ HasEntry(n, i) /\ \A j \in 1..(i - 1) : HasEntry(n, j)
              /\ pc' = IF ShortNames(n)[i] = None THEN "no short name"
                       ELSE "size overflows"
    /\ UNCHANGED <<tot_sec, tree, host, todo, layout, fat, next_clus, data,
                   written, changes>>

\* img[off:off + n] = bytes at a cluster, as Python does it: beyond the end it
\* appends, and with other than n bytes what is behind moves.
Assign(cluster, n, bytes) ==
    LET off == Min({(cluster - ROOT_CLUS) * BYTES_PER_CLUSTER, Len(data)})
        end == Min({off + n, Len(data)})
    IN  data' = SubSeq(data, 1, off) \o bytes \o SubSeq(data, end + 1, Len(data))

\* write_dir_entries: a slice for each cluster, the last of which is longer
\* than the bytes left for it.
WriteDirEntries ==
    /\ pc = "dirs" /\ todo # <<>>
    /\ LET n == Head(todo)
       IN  IF DirClusters(n, layout) # layout.dir_n[n]
           THEN pc' = "drift" /\ UNCHANGED data
           ELSE /\ Assign(layout.first[n], layout.dir_n[n] * BYTES_PER_CLUSTER,
                          build_dir_entries(n, layout))
                /\ UNCHANGED pc
    /\ todo' = Tail(todo)
    /\ UNCHANGED <<tot_sec, tree, host, layout, fat, next_clus, written, changes>>

\* write_files: all the file has by now into a slice of the size it had.
WriteFile ==
    /\ pc = "files" /\ todo # <<>>
    /\ LET n == Head(todo)
       IN  IF host[n] = Gone THEN pc' = "no file" /\ UNCHANGED <<data, written>>
           ELSE /\ Assign(layout.first[n], tree[n].size,
                          Bytes(<<"file", n>>, host[n]))
                /\ written' = [written EXCEPT ![n] = host[n]]
                /\ UNCHANGED pc
    /\ todo' = Tail(todo)
    /\ UNCHANGED <<tot_sec, tree, host, layout, fat, next_clus, changes>>

\* The FAT tables have room for what was chained, and out_img is written.
WriteFats ==
    /\ pc = "fats"
    /\ pc' = IF next_clus * FatEntryBytes <= FatSec * SECTOR THEN "written"
             ELSE "fat full"
    /\ UNCHANGED <<tot_sec, tree, host, todo, layout, fat, next_clus, data,
                   written, changes>>

\* A pass is over.
NextPass ==
    /\ pc \in {"layout", "dirs", "files"} /\ todo = <<>>
    /\ \/ pc = "layout" /\ pc' = "dirs" /\ todo' = Ordered(Dirs)
       \/ /\ pc = "dirs" /\ pc' = "files"
          /\ todo' = Ordered({n \in Nodes \ Dirs : layout.first[n] # 0})
       \/ pc = "files" /\ pc' = "fats" /\ UNCHANGED todo
    /\ UNCHANGED <<tot_sec, tree, host, layout, fat, next_clus, data, written,
                   changes>>

\* Something else writes a file, or removes it, once it has been scanned.
HostChanges ==
    /\ pc \in {"layout", "dirs", "files"}
    /\ changes < MaxChanges
    /\ \E n \in Nodes \ Dirs, size \in FileSizes \union {Gone} :
          /\ size # host[n]
          /\ host' = [host EXCEPT ![n] = size]
    /\ changes' = changes + 1
    /\ UNCHANGED <<pc, tot_sec, tree, todo, layout, fat, next_clus, data, written>>

FatNext ==
    \/ ScanTree \/ LayoutNode \/ LayoutFails
    \/ WriteDirEntries \/ WriteFile \/ WriteFats
    \/ NextPass \/ HostChanges

FatSpec == FatInit /\ [][FatNext]_fatVars

-----------------------------------------------------------------------------
(* Reading the image back, as inspect_image does.  What is left out of the *)
(* walk is there for images a guest has written: deleted entries, chains   *)
(* that loop and long names whose checksum is not their short name's.      *)

\* The clusters of a chain.
Chain(clus) ==
    LET after[c \in Int] ==
            IF c \in DOMAIN fat /\ c < EndMark THEN <<c>> \o after[fat[c]] ELSE <<>>
    IN  after[clus]

ReadCluster(c) ==
    LET off == (c - ROOT_CLUS) * BYTES_PER_CLUSTER
    IN  SubSeq(data, Min({off, Len(data)}) + 1,
               Min({off + BYTES_PER_CLUSTER, Len(data)}))

ReadChain(clus) ==
    LET chain == Chain(clus)
    IN  FlattenSeq([i \in DOMAIN chain |-> ReadCluster(chain[i])])

\* A directory's entries up to the NUL; an entry torn apart is Junk.
Junk == <<"junk">>

ReadEntries(clus) ==
    LET bytes == ReadChain(clus)
        slot(i) == SubSeq(bytes, (i - 1) * DirEntryBytes + 1, i * DirEntryBytes)
        whole(i) == slot(i) = Bytes(slot(i)[1].what, DirEntryBytes)
        slots == 1..(Len(bytes) \div DirEntryBytes)
        ends == {i \in slots : slot(i)[1] = NUL}
        n == IF ends = {} THEN Len(bytes) \div DirEntryBytes ELSE Min(ends) - 1
    IN  [i \in 1..n |-> IF whole(i) THEN slot(i)[1].what ELSE Junk]

-----------------------------------------------------------------------------
(* Properties *)

\* The first node whose file was not what had been scanned.
Spoiled == {n \in Nodes \ Dirs :
               layout.first[n] # 0 /\ written[n] # tree[n].size}
FirstSpoiled == IF Spoiled = {} THEN Len(tree) + 1 ELSE Min(Spoiled)

Used == next_clus - ROOT_CLUS

\* Node n can be read: a directory as its entries, which name each child, its
\* kind, size and first cluster; a file as its bytes.
Reads(n) ==
    IF tree[n].dir THEN ReadEntries(layout.first[n]) = Entries(n, layout)
    ELSE SubSeq(ReadChain(layout.first[n]), 1, tree[n].size) =
             Bytes(<<"file", n>>, tree[n].size)

\* An image that was written reads back as the tree that was scanned, up to
\* the first file that changed in between, as long as it has a cluster to
\* spare for every directory: writing one leaves the image up to a cluster
\* shorter, and what is assigned beyond the end goes to the wrong place.  The
\* numbers of its clusters must stay below the one that ends a chain.
ReadBack ==
    pc = "written" /\ next_clus <= EndMark /\ Used + Cardinality(Dirs) <= clus_count =>
        \A n \in Nodes : n < FirstSpoiled => Reads(n)

\* Type invariant; and the chains of the FAT are those of the nodes laid out,
\* each as long as its node needs, no cluster in two of them, as long as their
\* numbers stay below the one that ends a chain.
ChainsApart ==
    /\ Len(data) \in Nat /\ next_clus >= ROOT_CLUS
    /\ DOMAIN fat = ROOT_CLUS..(next_clus - 1)
    /\ next_clus <= EndMark => \A n \in Nodes : layout.first[n] # 0 =>
          /\ Len(Chain(layout.first[n])) =
                 Quotient(IF tree[n].dir THEN Len(build_dir_entries(n, layout))
                          ELSE tree[n].size, BYTES_PER_CLUSTER)
          /\ \A m \in Nodes \ {n} : layout.first[m] # 0 =>
                ToSet(Chain(layout.first[n])) \intersect
                    ToSet(Chain(layout.first[m])) = {}

\* The image is given up only where it must be: for its size, for a file that
\* has gone or is too big for FAT32, for more than the data region holds, or
\* for ten names alike in a directory.  The two passes over a directory never
\* disagree on its length.
GivenUpForCause ==
    /\ pc = "too small" => clus_count < FAT32_MIN_CLUSTERS
    /\ pc = "no file" => \E n \in Nodes : host[n] = Gone
    /\ pc = "fat full" => Used > clus_count
    /\ pc = "no short name" =>
          \E n \in Dirs : Len(Children(n)) >= 10
    /\ pc = "size overflows" =>
          \E n \in Nodes : tree[n].size >= FileSizeSpan
    /\ pc # "drift"

\* mkfatimg.py:176: "~N", N counted up from 1 until the directory has no such
\* name.  There is always one: up to a thousand children find their names.
ShortNameFound ==
    (\A n \in Dirs : Len(Children(n)) < 1000) => pc # "no short name"
=============================================================================
