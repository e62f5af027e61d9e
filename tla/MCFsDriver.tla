----------------------------- MODULE MCFsDriver -----------------------------
(***************************************************************************)
(* Small instance of FsDriver: two drivers, mount.efi in \tools, and paths *)
(* a user may load from: the same file, another copy, another directory    *)
(* whose name merely ends like it, and another spelling of the same file.  *)
(***************************************************************************)
EXTENDS FsDriver, TLC

CONSTANTS ntfs, iso9660, i1, i2, i3

RelPaths == ntfs :> <<"drivers", "ntfs">> @@ iso9660 :> <<"drivers", "iso9660">>
Tools == <<"tools">>
UserPaths == { <<"tools", "drivers", "ntfs">>, <<"drivers", "ntfs">>,
               <<"xdrivers", "ntfs">>, <<"tools", "DRIVERS", "ntfs">> }

=============================================================================
