----------------------------- MODULE MCFatImage -----------------------------
(***************************************************************************)
(* Small trees for TLC, with clusters of two directory entries.            *)
(***************************************************************************)
EXTENDS FatImage

\* A name that is its own short name, and one of other than ASCII characters,
\* whose prefix leaves room for one digit.
Short(stem) == [own |-> TRUE, fits |-> TRUE, stem |-> stem, number |-> 0,
                ext |-> "c", digits |-> 4, lfn |-> 1]
Long == [own |-> FALSE, fits |-> FALSE, stem |-> "guname", number |-> 0,
         ext |-> "c", digits |-> 1, lfn |-> 1]
\* A short name that looks like a numbered one.
Numbered == [Short("guname") EXCEPT !.number = 1, !.digits = 1]

Dir(parent, name) == [parent |-> parent, dir |-> TRUE, size |-> 0, name |-> name]
File(parent, size, name) ==
    [parent |-> parent, dir |-> FALSE, size |-> size, name |-> name]
Root == Dir(0, Short(""))

\* Ten names of other than ASCII characters in a directory.
ManyNames == { <<Root>> \o [i \in 1..10 |-> File(1, 0, Long)] }

SomeTrees == {
    <<Root>>,
    \* files only, one of them empty
    <<Root, File(1, 5, Short("a")), File(1, 0, Short("b")), File(1, 1, Long)>>,
    \* two directories with a file each, the second behind the first's file
    <<Root, Dir(1, Short("d")), File(2, 3, Long), Dir(1, Long),
            File(4, 5, Short("a")), File(1, 4, Short("a"))>>,
    \* one in the other, an empty one, and names that collide
    <<Root, Dir(1, Short("d")), Dir(2, Short("d")), File(3, 1, Long),
            File(3, 1, Numbered), Dir(1, Short("e"))>>,
    \* a file with one byte too many for its entry
    <<Root, Dir(1, Short("d")), File(2, 8, Short("a")), File(1, 1, Long)>> }
    \union ManyNames
=============================================================================
