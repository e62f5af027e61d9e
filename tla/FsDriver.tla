------------------------------ MODULE FsDriver ------------------------------
(***************************************************************************)
(* Loading a file-system driver, MountPkg/Application/Mount/FsDriver.c:    *)
(* the deduplication against the firmware's table of loaded images, and    *)
(* LoadImage / StartImage with the clean-up each of their failures gets.   *)
(*                                                                         *)
(* External, as the calls use it: the firmware's table of loaded images.   *)
(* LoadImage refused with EFI_SECURITY_VIOLATION still leaves the image    *)
(* loaded (the UEFI contract of that status): its LoadedImage protocol is  *)
(* there until someone unloads it, but StartImage cannot be called on it.  *)
(* The shell's own load and unload commands, and the user copying driver   *)
(* files, happen between runs of mount.efi.                                *)
(***************************************************************************)
EXTENDS Integers, Sequences

CONSTANTS
    Driver,      \* driver files the program names, relative to its directory
    RelPath,     \* the components of each name: L"drivers\\ntfs_x64.efi"
    SelfDir,     \* components of the directory mount.efi was started from
    ShellPath,   \* full paths a user may give the shell's load command
    ImageHandle, \* handles of the firmware's loaded-image table
    Nothing

VARIABLES
    files,   \* what LoadImage makes of each driver file
    images,  \* the loaded-image table: path and state of each image
    load     \* the MountLoadDriver call in progress, or its last result

driverVars == <<files, images, load>>

-----------------------------------------------------------------------------
FileState == {"good",      \* loads, and its entry point succeeds
              "failing",   \* loads, but its entry point returns an error
              "unsigned",  \* Secure Boot refuses it
              "broken",    \* NOT_FOUND, LOAD_ERROR or INVALID_PARAMETER
              "denied"}    \* any other LoadImage error, ACCESS_DENIED for one

ImageState == {"refused", "loaded", "running"}

LoadStatus == {"NONE", "SUCCESS", "INVALID_PARAMETER", "DRIVER_MISSING",
               "SECURE_BOOT"}

Path == {SelfDir \o RelPath[f] : f \in Driver} \union ShellPath

Image == [path : Path, state : ImageState]

ASSUME DriverConstants ==
    /\ RelPath \in [Driver -> Seq(STRING)]
    /\ \A f \in Driver : RelPath[f] # <<>>
    /\ SelfDir \in Seq(STRING)
    /\ ShellPath \subseteq Seq(STRING)
    /\ Nothing \notin Driver \union Image

\* FilePath text ends with the driver's name on a component boundary.
EndsWith(path, rel) ==
    /\ Len(path) >= Len(rel)
    /\ SubSeq(path, Len(path) - Len(rel) + 1, Len(path)) = rel

\* No path counts as two drivers: no driver's name ends with another's.
ASSUME DriverNames ==
    \A f, g \in Driver, p \in Path :
        EndsWith(p, RelPath[f]) /\ EndsWith(p, RelPath[g]) => f = g

Loaded == {i \in ImageHandle : images[i] # Nothing}

Running(f) == \E i \in Loaded : /\ images[i].state = "running"
                                /\ EndsWith(images[i].path, RelPath[f])

\* Variant: only the program's own copy of the driver counts.
OwnCopyLoaded(f) == \E i \in Loaded : images[i].path = SelfDir \o RelPath[f]

MountDriverLoaded(f) == \E i \in Loaded : EndsWith(images[i].path, RelPath[f])

LoadIdle == load.pc = "idle"

LoadReturns(status) == load' = [load EXCEPT !.pc = "idle", !.status = status,
                                            !.image = Nothing]

-----------------------------------------------------------------------------
DriverInit ==
    /\ files \in [Driver -> FileState]
    /\ images = [i \in ImageHandle |-> Nothing]
    /\ load = [pc |-> "idle", file |-> Nothing, image |-> Nothing,
               blind |-> FALSE, status |-> "NONE"]

\* MountLoadDriver up to the dedupe: a silent success, or on to LoadImage.
MountLoadDriver(f) ==
    /\ LoadIdle
    /\ load' = [pc |-> IF MountDriverLoaded(f) THEN "idle" ELSE "load",
                file |-> f, image |-> Nothing, blind |-> FALSE,
                status |-> IF MountDriverLoaded(f) THEN "SUCCESS" ELSE "NONE"]
    /\ UNCHANGED <<files, images>>

\* LocateHandleBuffer or the conversion of a path to text has no memory:
\* MountDriverLoaded says FALSE without having seen every image.
MountLoadDriverBlind(f) ==
    /\ LoadIdle
    /\ MountDriverLoaded(f)
    /\ load' = [pc |-> "load", file |-> f, image |-> Nothing, blind |-> TRUE,
                status |-> "NONE"]
    /\ UNCHANGED <<files, images>>

\* A NULL name is refused.
MountLoadNothing ==
    /\ LoadIdle
    /\ load' = [pc |-> "idle", file |-> Nothing, image |-> Nothing,
                blind |-> FALSE, status |-> "INVALID_PARAMETER"]
    /\ UNCHANGED <<files, images>>

\* MountBuildDriverDevicePath cannot find or build the program's own path.
SelfPathFails ==
    /\ load.pc = "load"
    /\ LoadReturns("DRIVER_MISSING")
    /\ UNCHANGED <<files, images>>

\* Variant: only the errors with a message of their own are caught.
LoadImageFailsUncaught ==
    /\ load.pc = "load"
    /\ files[load.file] \in {"broken", "denied"}
    /\ LoadReturns(IF files[load.file] = "denied" THEN "SUCCESS"
                                                ELSE "DRIVER_MISSING")
    /\ UNCHANGED <<files, images>>

LoadImageFails ==
    /\ load.pc = "load"
    /\ files[load.file] \in {"broken", "denied"}
    /\ LoadReturns("DRIVER_MISSING")
    /\ UNCHANGED <<files, images>>

\* EFI_SECURITY_VIOLATION: the image stays in the table.
LoadImageRefused(i) ==
    /\ load.pc = "load"
    /\ files[load.file] = "unsigned"
    /\ images[i] = Nothing
    /\ images' = [images EXCEPT ![i] =
                     [path |-> SelfDir \o RelPath[load.file],
                      state |-> "refused"]]
    /\ LoadReturns("SECURE_BOOT")
    /\ UNCHANGED files

LoadImageOk(i) ==
    /\ load.pc = "load"
    /\ files[load.file] \in {"good", "failing"}
    /\ images[i] = Nothing
    /\ images' = [images EXCEPT ![i] =
                     [path |-> SelfDir \o RelPath[load.file],
                      state |-> "loaded"]]
    /\ load' = [load EXCEPT !.pc = "start", !.image = i]
    /\ UNCHANGED files

StartImageOk ==
    /\ load.pc = "start"
    /\ files[load.file] = "good"
    /\ images' = [images EXCEPT ![load.image].state = "running"]
    /\ LoadReturns("SUCCESS")
    /\ UNCHANGED files

\* Variant: the image whose entry point failed is not unloaded.
StartImageFailsKeeps ==
    /\ load.pc = "start"
    /\ files[load.file] = "failing"
    /\ LoadReturns("DRIVER_MISSING")
    /\ UNCHANGED <<files, images>>

\* Do not leave a resident image whose DriverBinding never started.
StartImageFails ==
    /\ load.pc = "start"
    /\ files[load.file] = "failing"
    /\ images' = [images EXCEPT ![load.image] = Nothing]
    /\ LoadReturns("DRIVER_MISSING")
    /\ UNCHANGED files

LoadStep ==
    \/ SelfPathFails
    \/ LoadImageFails
    \/ \E i \in ImageHandle : LoadImageRefused(i) \/ LoadImageOk(i)
    \/ StartImageOk
    \/ StartImageFails

-----------------------------------------------------------------------------
(* Between runs: the shell and its user *)

ShellLoad(p, i) ==
    /\ LoadIdle
    /\ images[i] = Nothing
    /\ images' = [images EXCEPT ![i] = [path |-> p, state |-> "running"]]
    /\ UNCHANGED <<files, load>>

ShellUnload(i) ==
    /\ LoadIdle
    /\ i \in Loaded
    /\ images' = [images EXCEPT ![i] = Nothing]
    /\ UNCHANGED <<files, load>>

CopyFile(f, s) ==
    /\ LoadIdle
    /\ files[f] # s
    /\ files' = [files EXCEPT ![f] = s]
    /\ UNCHANGED <<images, load>>

Shell ==
    \/ \E p \in ShellPath, i \in ImageHandle : ShellLoad(p, i)
    \/ \E i \in ImageHandle : ShellUnload(i)
    \/ \E f \in Driver, s \in FileState : CopyFile(f, s)

DriverNext ==
    \/ \E f \in Driver : MountLoadDriver(f) \/ MountLoadDriverBlind(f)
    \/ MountLoadNothing
    \/ LoadStep
    \/ Shell

DriverSpec == DriverInit /\ [][DriverNext]_driverVars

-----------------------------------------------------------------------------
(* Properties *)

\* Type invariant of the image table and of the call.
DriverTypeOK ==
    /\ files \in [Driver -> FileState]
    /\ images \in [ImageHandle -> Image \union {Nothing}]
    /\ load \in [pc : {"idle", "load", "start"}, file : Driver \union {Nothing},
                 image : ImageHandle \union {Nothing}, blind : BOOLEAN,
                 status : LoadStatus]

\* The call leaves no image behind that was loaded and never started: the
\* one image in that state is the one the call is about to start.
NoHalfStartedImage ==
    \A i \in Loaded : images[i].state = "loaded" <=>
                          load.pc = "start" /\ load.image = i

\* Between the dedupe and StartImage the call is about one of the program's
\* drivers; the image it starts is the program's own copy, and unless the
\* search failed it is the only image under the driver's name.
LoadConsistent ==
    load.pc # "idle" =>
        /\ load.file \in Driver
        /\ load.pc = "start" =>
              /\ load.image \in Loaded
              /\ images[load.image].path = SelfDir \o RelPath[load.file]
        /\ ~ load.blind =>
              \A i \in Loaded : EndsWith(images[i].path, RelPath[load.file])
                                   => load.pc = "start" /\ i = load.image

\* What holds between the image table and the call at all times: the types,
\* that no path of MountLoadDriver leaves a half-started image, and what the
\* call knows of the table.
DriverInv == DriverTypeOK /\ NoHalfStartedImage /\ LoadConsistent

\* Unless the search itself failed, mount.efi never runs a second copy of a
\* driver, whoever loaded the first and from whatever directory: when its own
\* image starts running, no other image matches the driver's name.
NeverLoadedTwice ==
    [][StartImageOk /\ ~ load.blind =>
         \A i \in Loaded : EndsWith(images[i].path, RelPath[load.file])
                              => i = load.image]_driverVars

\* A MountLoadDriver call returns EFI_SUCCESS, from the dedupe or after
\* StartImage.
Succeeds ==
    /\ load'.pc = "idle" /\ load'.status = "SUCCESS"
    /\ load.pc # "idle" \/ \E f \in Driver : MountLoadDriver(f)

\* Success means the driver runs, except for what an earlier Secure Boot
\* refusal left in the image table.
SuccessMeansRunningOrRefused ==
    [][Succeeds =>
         \/ Running(load.file)'
         \/ \E i \in Loaded : /\ images[i].state = "refused"
                              /\ EndsWith(images[i].path, RelPath[load'.file])
      ]_driverVars

\* What FsDriver.c says of MountLoadDriver: EFI_SUCCESS once the driver's
\* entry point has run.
SuccessMeansRunning == [][Succeeds => Running(load.file)']_driverVars

\* The abstract state of a driver.
StateOf(f) ==
    IF Running(f) THEN "running"
    ELSE IF \E i \in Loaded : /\ images[i].state = "refused"
                             /\ EndsWith(images[i].path, RelPath[f])
         THEN "stale" ELSE "absent"

DriverStates == [f \in Driver |-> StateOf(f)]

LoadingFile == IF LoadIdle THEN Nothing ELSE load.file

Table == INSTANCE DriverTable WITH None <- Nothing, driver <- DriverStates,
                                   loading <- LoadingFile,
                                   blind <- load.blind

\* The image table, searched by path suffix, and the dedupe in front of it
\* implement the table of driver states: a call that could look loads only
\* what is absent, and no call takes away a driver or touches another one.
TableSpec == Table!TableSpec
=============================================================================
