----------------------------- MODULE CommandLine -----------------------------
(***************************************************************************)
(* What mount is asked to do: the dispatch of UefiMain in                  *)
(* MountPkg/Application/Mount/Mount.c and the format table of FsDriver.c.  *)
(*                                                                         *)
(* A word of the command line is its letters without regard to case, the   *)
(* leading dash apart, and whether every letter has the case the source    *)
(* gives it: StrCmp looks at that, StaticStriCmp does not.                 *)
(***************************************************************************)
EXTENDS Naturals

CONSTANT NoShell   \* no shell parameters: mount was not started by a shell

Word == [dash : BOOLEAN, letters : {"?", "h", "selftest", "ISO", "NTFS", "", "other"},
         exact : BOOLEAN]

Argument == [Argc : Nat, Argv1 : Word]

\* The word as it is written in the source, with its dash and without.
Dashed(letters) == [dash |-> TRUE, letters |-> letters, exact |-> TRUE]
Plain(letters) == [dash |-> FALSE, letters |-> letters, exact |-> TRUE]

\* mFormats; one row stands for all.  The value is the driver of the row.
mFormats == [NTFS |-> "ntfs"]

\* StaticStriCmp: letters compare equal in any case.
MountFindFormat(word) == {f \in DOMAIN mFormats : f = word.letters}

-----------------------------------------------------------------------------
(* The tests of UefiMain, in the order it makes them *)

HelpAsked(params) ==
    \/ params = NoShell
    \/ /\ params # NoShell /\ params.Argc >= 2
       /\ params.Argv1 \in {Dashed("?"), Dashed("h")}

ListAsked(params) == params # NoShell /\ params.Argc < 2

SelfTestAsked(params) ==
    params # NoShell /\ params.Argc >= 2 /\ params.Argv1 = Plain("selftest")

IsoAsked(params) ==
    params # NoShell /\ params.Argc >= 2 /\ params.Argv1 = Dashed("ISO")

\* Everything else that starts with a dash is looked up as a format.
FormatAsked(params) ==
    /\ params # NoShell /\ params.Argc >= 2 /\ params.Argv1.dash
    /\ ~ HelpAsked(params) /\ ~ IsoAsked(params)

UnknownWord(params) ==
    /\ params # NoShell /\ params.Argc >= 2 /\ ~ params.Argv1.dash
    /\ ~ SelfTestAsked(params)
=============================================================================
