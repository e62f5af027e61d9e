# Verification of the mount tool

`mount.efi` is a UEFI shell application. It mounts an ISO image as a read-only
loop device (`mount -ISO image.iso`), loads a file-system driver for a disk
format (`mount -NTFS` and so on), lists the shell's mappings, and tests itself
(`mount selftest`). A loop device must outlive the process that made it, so it
belongs to a resident driver, `loop_x64.efi`, with which the application talks
through a factory protocol. Two Python tools serve its tests: `mkfatimg.py` makes
the FAT32 image a virtual machine boots from, and `qmp_drive.py` presses the keys
of that machine and takes pictures of its screen.

This directory holds TLA+ modules of that program, TLC configurations that check
them on small instances, and proofs that TLAPS checks for every instance.
Paths below are relative to `src/`; `PROJECT.json` gives, for every definition,
the lines of code it stands for.

## The system

| Component | Code | State it keeps | Operations |
|---|---|---|---|
| Loop factory | `MountPkg/Drivers/LoopDxe/LoopDxe.c` | the `LOOP_DISK` structures and their pool memory, the sequence counter `mLoopSeq`, what each handle publishes | driver entry, `Create`, `Destroy` |
| Loop block I/O | same file | the position of the backing file, shared by every caller | `ReadBlocks`, `WriteBlocks`, `FlushBlocks`, the `Ex` forms with a token |
| Loop creation | `MountPkg/Application/Mount/LoopDisk.c` | the open image file, its info buffer and device path, the driver image being loaded | `LoopCreate`, `MountLoopFactoryGet`, `LoopSniff` |
| Driver loading | `MountPkg/Application/Mount/FsDriver.c` | none of its own: the firmware's table of loaded images | `MountDriverLoaded`, `MountLoadDriver` |
| Mount flows | `LoopDisk.c`, `FsDriver.c` | a snapshot of the volumes, the new loop handle | `MountRunIso`, `MountRunFormat` |
| Rescan, refresh, report | `MountPkg/Application/Mount/MapReport.c` | none of its own: the firmware's handles and the shell's `fsN:` table | `MapSnapshotFsHandles`, `MapConnectAllControllers`, `MapRefreshShell`, `MapPrintNewVolumes` |
| Self-test | `SelfTest.c`, `LoopDisk.c` | failure count, temporary file, its loop device | `MountSelfTest`, `LoopDiskSelfTest`, `MountOpenDriverFile` |
| Self directory | `FsDriver.c` | none | `MountGetSelfDir`, `MountJoinSelfPath` |
| Command line, format table | `Mount.c`, `FsDriver.c` | none | `UefiMain`, `MountFindFormat` |
| FAT builder | `tools/mkfatimg.py` | the FAT and directory chains of an image | scan, layout, the passes of `create_image`, short names, `inspect_image` |
| QMP driver | `tools/qmp_drive.py` | a socket and its buffered replies, where it is in its script | connect, call, reconnect, screenshot |
| ext4 test image | `test_images/mkext4img.py` | one fixed image | layout |
| Scripts, debug library, prebuilt drivers | `tools/*.ps1`, `MountPkg/Library`, `drivers/` | none of interest | - |

How they interact. The application opens the image and *lends* the file object to
the factory: from a successful `Create` to a successful `Destroy` the factory owns
it, and after `Destroy` the caller must close it. The firmware calls into the
driver and the application from the services they call: an install notifies
drivers, which bind the new `BlockIo` and read from it before `Create` has
returned; an uninstall first disconnects those drivers, which may refuse. The
mount flows create the device, load a driver if the content sniff asks for one,
connect, rescan, name the volumes in the shell's table and report those that are
new. State that outlives a process is the factory's, the firmware's image and
handle tables, and the shell's map.

What is hard here. There is one processor and no thread, but there is nesting:
a notification at a higher task priority level runs inside any service (`LoopIo`),
and drivers come and go inside `Create` and `Destroy` (`LoopFactory`). Every
function is a ladder of early returns with its own list of things to release
(`LoopCreate`, `SelfTest`). Media, drivers and names change between the steps of
a run (`MountRun`), and state left by an earlier process is found by a later one
(`FsDriver`, `SelfTest`). The firmware dead-loops when `ConnectController` meets a
device that no driver claims, so mount must be careful what it connects. Several
sizes sit at a boundary: the 16-block minimum, the six-block sniff, the one-byte
sequence number, paths of 256 characters. In the UEFI part nothing is persisted and
nothing travels over a channel, so there is no crash recovery and no message loss
to model there. The QMP driver is the opposite: its connection drops in the middle of
anything, and it mends it and repeats itself (`QmpDrive`). The FAT builder computes
in one pass what it relies on in a later one, while the host's files may change
(`FatImage`).

What makes each component correct:

* factory: what is published is complete and alive, memory and files are never
  lost nor freed twice, `Create` is all or nothing, `Destroy` that fails changes
  nothing;
* block I/O: reads stay inside the device and give the blocks asked for, a token
  tells its owner how the request went;
* creation: every exit releases what it touched, the device is exactly as long as
  the whole blocks of its file, the sniff sees what is there;
* driver loading: no second copy of a driver, no half-started image, success means
  that the driver runs;
* flows: a run ends, delivers its volume, gives every volume one name and takes
  no name from another, reports what is new and exits with the status of what it did;
* self-test: a pass is a real round trip and driver files that really are beside
  the program, and nothing is left behind;
* QMP driver: commands reach the machine in order, are lost or repeated only where a
  connection was, a run ends, and fails only for a reason;
* FAT builder: the image reads back as the tree, no cluster has two owners, an image
  is given up only where it must be.

## Modules

| Module | Models | In brief |
|---|---|---|
| `LoopRegistry` | the contract of `MountLoopFactory.h` | abstract table of mounts: atomic `Mount` and `Unmount` over open, unshared files |
| `LoopFactory` | `LoopDxe.c`: entry, `Create`, `Destroy` | one action per firmware service; implements `LoopRegistry` |
| `LoopFactoryProofs` | - | theorems about `LoopFactory` |
| `Words` | - | the width of the target's integers, shared by `LoopImage` and `LoopIo` |
| `LoopIo` | `LoopDxe.c`: the services of one device | a stack of nested calls over one file position |
| `LoopIoProofs` | - | theorems about `LoopIo` |
| `LoopImage` | image arithmetic and `LoopSniff` | operators, no state |
| `LoopCreate` | `LoopCreate`, `MountLoopFactoryGet` | one action per service call or early return; uses `LoopImage` |
| `LoopCreateProofs` | - | theorems about `LoopCreate` |
| `DriverTable` | what `MountLoadDriver` promises | abstract table: absent, running or stale |
| `FsDriver` | `MountDriverLoaded`, `MountLoadDriver` | calls over the firmware's image table; implements `DriverTable` |
| `FsDriverProofs` | - | theorems about `FsDriver` |
| `CommandLine` | `UefiMain`'s dispatch, `MountFindFormat` | operators, no state |
| `MountRun` | `UefiMain`, `MountRunIso`, `MountRunFormat`, `MapReport.c` | whole runs and the environment between their steps; uses `CommandLine`, `LoopImage` and the states of `DriverTable` |
| `MountRunProofs` | - | theorems about `MountRun` |
| `SelfPath` | `MountGetSelfDir`, `MountJoinSelfPath` | operators on path texts, no state |
| `SelfTest` | `MountSelfTest`, `MountOpenDriverFile`, `LoopDiskSelfTest` | repeated tests; uses `SelfPath`, and the factory as `LoopRegistry` allows |
| `SelfTestProofs` | - | theorems about `SelfTest` |
| `LoopDevices` | what a boot does with loop devices | `LoopCreate`, `LoopIo`, `FsDriver` and `SelfTest` put together: a device is made, given its driver and used |
| `QmpDrive` | `tools/qmp_drive.py` | client, connection and machine |
| `QmpDriveProofs` | - | theorems about `QmpDrive` |
| `FatImage` | `tools/mkfatimg.py` | `create_image` node by node, and reading back |
| `FatImageProofs` | - | theorems about `FatImage`, with its induction and lemmas |
| `MC...` | - | the small instances TLC checks |

A definition marked as a *variant* is an erroneous form of the action next to it,
the kind of slip a change to that code could introduce. It belongs to no
next-state relation; it documents, and lets one check, that the properties notice.

### LoopFactory

`heap[d]` is the `LOOP_DISK` in pool slot `d`, `allocated` and `pathPool` are what
`AllocateZeroPool` and `AppendDevicePathNode` have handed out, `blockIo[h]` the
interface behind `EFI_BLOCK_IO_PROTOCOL` on a handle, `bound` the structures whose
`BlockIo` pointer a driver holds, `owner[f]` who must close a file, `call` the
factory call in progress. `Create` is `CreateBegin`, `AppendPath`, `InstallOk`,
`CreateReturn`, with the exits `CreateInvalid`, `CreateNoMemory`, `AppendFailed`,
`InstallFailed`; `Destroy` is `DestroyBegin`, `UninstallOk`, `HandBack`, with the exits
`DestroyNotFound` and `UninstallFailed`. `Bind` and `Unbind` may happen between any
two of these. The three protocols of a device go up and down together, since the
firmware does that in one service. A duplicate device path makes the install fail,
as the UEFI specification has it; that is why uniqueness of the vendor node matters.
Abstracted: a device path is the image file and the sequence byte, the constant
fields of `LOOP_DISK` (revision, media flags, `LastBlock`) are left out; `LastBlock`
is in `LoopCreate` and `LoopIo`.

### LoopIo

`stack` is the calls in progress on one device, outermost first, with strictly
increasing task priority levels, which is how UEFI nests. Only the top moves. A
read is `Check`, `Seek`, `Read`, `LoopCompleteToken`, `Return`: the code neither raises
the priority nor holds a lock between `SetPosition` and `Read`. `disturbed` is a
history variable: somebody above has moved the position in between. `Shrink` is
the image file being truncated under the mount. Resets succeed and touch nothing,
a step from `Check` to `Return`.

`transaction[t]` is the `TransactionStatus` of a token, memory of its owner's, which
keeps what an earlier use has left there. `LoopCompleteToken` is two steps, as in the
code: `StoreStatus`, then `SignalEvent`, whose notification may run at once, read the
token and submit it again, so that it is completed once more before the outer
service returns. `told` is what a notification found in the token it was waiting for,
`reused` that a token was submitted again under a call still in progress; both are
history.

### LoopImage and LoopCreate

An image is its size and the standard identifiers of the sectors 16 to 21, which
is all the code looks at. `LastBlock` is in UINT64 arithmetic, so that a missing
size check would wrap. `call` carries every local of `LoopCreate` that an exit must
deal with. Calls repeat, and the loop driver stays resident between them.

Of the loop driver's image `call.image` says whether there is none of it, or one that
is loaded but not started, or one that runs. `StartLoopFails` is a failed `StartImage`,
which is unloaded; `NoFactoryPublished` the driver that starts, publishes no factory
and is left running; `LoadLoopRefused` the image that `LoadImage` refuses with
`EFI_SECURITY_VIOLATION` after having loaded it, and that nobody unloads.

### FsDriver and DriverTable

`images` is the firmware's loaded-image table. A file path is its sequence of
components, and `EndsWith` compares whole components, as `MountDriverLoaded` does
with its backslash test. The comparison in the code is case-sensitive, hence another
spelling of the same file in the instance. `LoadImage` refused with
`EFI_SECURITY_VIOLATION` still leaves an entry in the table; that state is `refused`
here and `stale` in `DriverTable`. The shell's own `load` and `unload` and the user
replacing driver files happen between calls. Names are compared as the code does,
so the refinement maps the table of images to one state per driver. The search itself
may fail for lack of memory and then says "not loaded" (`MountLoadDriverBlind`); what
is promised of such a call is less, and `load.blind` remembers it.

### MountRun

A run begins with a command line: `CommandLine` has the tests of `UefiMain` in their
order, with what each compares (`StrCmp` looks at case, the format look-up does not),
and every word ends in one of `PrintHelp`, `Refuse`, `MountSelfTest`, `MountRunIso` and
`MountRunFormat`. `Exit` gives the status the shell sees.

`media`, `loops`, `volumes`, `map`, `driver` are the state of the world, `run` the
locals of the run in progress. A slot of `Dev` stands for a device path: what is
plugged into a port again has the same one, and gets back the `fsN:` name the shell
still has for it. A new loop device has a path without a name (its vendor node is new;
that the byte wraps after 256 devices is the subject of `loop_factory_nodes`). The
rescan is one step per handle over the list it located, the refresh one step per
volume. `hung` is the dead loop of the firmware; once it is set nothing moves, which
is why this run has deadlock checking off.

The report compares handle *values*. `run.old` is the devices whose value is in the
snapshot, `run.freed` the number of values in it whose handle has gone; a new handle
may be given one of those (`NewHandle`), is then in the snapshot, and is not reported.
`run.before`, `run.blind`, `run.reused`, `run.steady`, `run.unnamed` and `run.read` are
history, for the properties. What `LoopCreate`, `MountLoadDriver` and the self-test do
inside is in their own modules; here they have the outcomes these modules establish,
every status of `LoopCreate` and a load after a failed search included. Statuses the
code ignores are choices here: a failed first snapshot leaves the list of old volumes
empty, a failed handle search makes the rescan empty, a `ConnectController` may end
with an error although a running driver claims the volume (`run.denied` remembers it). Printing,
labels and `blk` aliases are left out.

### SelfPath and SelfTest

A path text is its names and whether it begins with a backslash; of a name only its
length counts. `MountGetSelfDir` takes the directory out of the last FILEPATH node
of the image's path, and leaves it empty when `StrnCpyS` refuses it; `Cut` is what
`UnicodeSPrint` makes of a joined path that is too long, which may by chance be a path
that exists. `Beside` is what is meant: the file in the directory `mount.efi` is in, by
the texts of *all* nodes. `Resolvable` is where the two must agree.

Before the loop test `MountSelfTest` opens each driver file. `place` is where the
program was started and what is on that volume; it does not change.

`open` and `mounted` are the variables of `LoopRegistry`. A status is only
what `EFI_ERROR` makes of it: MOUNT's own `STATUS_*` codes are small numbers without
the error bit, so `MountSelfTest` can rely on `EFI_ERROR` only because
`LoopDiskSelfTest` never returns them (`DeleteTemp` turns everything into
`EFI_DEVICE_ERROR`). A device that one test failed to destroy is there, with its
file open, in all later ones.

### LoopDevices

`LoopDevices` joins four components in the order in which a boot uses them: self-tests
over the leftovers of others; `LoopCreate` over all images and with all its
failures; and for the device of the image `Followed`, once it is made, either loads of
its driver or the reads, writes and resets of whoever connects to it. What one hands
to the next is the device: the last block and the file's size `LoopIo` starts from are
those `LoopCreate` has computed (`FollowedAssumption`), with the block size and image
of the real code. The parts share no variable, and a step of one leaves those of the
others alone; so they are not interleaved but taken one after the other, each from
the state the others rest in, and every state of a part is reached here just when it
is reached in its own specification. That is why one run checks the properties of all
four, and why the theorems about each of them, which are proved for its own
specification, speak of the same states.

### QmpDrive

`client` is the locals of `main` and of the `Qmp` object, `requests` and `replies` what is
on its way, `qemu` what the machine has got to, `files` the pictures. Each call is
`Send`, then `Receive` until something other than an event has come. An `OSError` leads to
`Lost`: inside `__init__` to the next attempt, in a call to `Reopen`, which sends
`qmp_capabilities` and then the command again, in a call that is itself the retry to
the end of the run. The greeting is never read for itself: it has neither `event` nor
`error`, so it is taken for the first return, and from then on a call gets the reply
to the one before (`LagIsOne`). Other exceptions are not caught: a line cut in the middle
(`partial`), an error reply, a picture half written. The machine (external) answers in
order, may refuse some commands, sends events, writes pictures after its answer, and
exits; the connection loses any suffix of what is under way. `Refusable` numbers the
commands of the script and the pictures taken behind it. Sleeps are left out; the
intervals at which `main` takes pictures are items that follow the script.

### FatImage

One action per pass and node: `ScanTree`, `LayoutNode`, `WriteDirEntries`, `WriteFile`,
`WriteFats`. The image is the bytes of its data region, each named by the thing it is
part of, and `Assign` is Python's slice assignment: it changes the length when the
bytes do not have the length of the slice, and appends beyond the end. A file of
the host may change or vanish after the scan (`HostChanges`). A file too large for the
32-bit size of its entry ends `create_image` where its directory is laid out, for that
is where `dir_entry` is first called (`LayoutFails`, "size overflows"). A name is reduced to
what `short_name` makes of it; `LeadingDigits` is its cut to eight characters. The
other half of the module reads an image as `inspect_image` does, by which
`ReadBack` compares. Following a chain needs cluster numbers below the value that ends
one, so what `ReadBack` and `ChainsApart` say of chains is said while `next_clus` has not
passed it; an image that large is beyond FAT32.

## Runs

| Run | Question | Properties | Instance |
|---|---|---|---|
| `loop_factory` | do `Create` and `Destroy` keep devices, memory and file ownership consistent on every path, and implement the mount table? | `IInv`, `PublishedIntact`, `NoLeak`, `OneOwner`, `RefusedOnlyAfterWrap`, `CreateAllOrNothing`, `StableWhilePublished`, `RegistrySpec` | 2 pool slots, 3 handles (one with another driver's `BlockIo`), 3 file objects over 2 images, a sequence byte of 2 values, 5 creates |
| `loop_factory_nodes` | is the vendor node unique for ever? (no) | `VendorNodesUnique` | the real 256 values, 257 creates, 2 slots |
| `loop_devices` | does creation release what it should and make the device its file allows; do reads stay inside, deliver, and tell their tokens; does loading keep the image table clean, never load twice, and implement the driver table; is ALL PASS a round trip and drivers beside the program? | `CreateInv`, `ExitsSettled`, `DeviceInsideFile`, `SniffExact`; `IoInv`, `UndisturbedReadDelivers`, `ShortReadMeansShrunk`, `TokenTells`; `DriverInv`, `NeverLoadedTwice`, `SuccessMeansRunningOrRefused`, `TableSpec`; `SelfTestInv`, `PassMeansRoundTrip`, `PassMeansDriversBeside`, `RegistryUse` | images: sizes one below, at and above each boundary, 0 to 5 descriptors before an extended area with either NSR descriptor or none; I/O: the 23 blocks of the device made, 2 priority levels, 2 tokens of which 1 has an event, reads inside, at, across and beyond the end; loads: 2 drivers, 3 image handles, 4 paths a user may load from, every file state; tests: 3 handles, 3 file objects (two leftovers and a third test), 2 drivers, paths of 12 characters, directories on either side of every limit, drivers beside, in the root, in both, or one missing |
| `loop_create_frees` | does a failed creation free everything it touched? (no) | `FailureFreesAll` | the images of `loop_devices` |
| `fs_driver_contract` | does success mean that the driver runs? (no) | `SuccessMeansRunning` | the loads of `loop_devices` |
| `mount_run` | does a run end, deliver and name its volume, leave names alone, report what is new and exit with the right status? | `RunInv`, `NeverClobbered`, `ReportedVolumesNamed`, `MountDelivered`, `OwnConnectSafe`, `ReportIsDiff`, `ExitStatus`, `RunEnds` | 2 device slots, 6 images, 3 kinds of media, 11 command lines |
| `mount_run_kept` | is what an ISO run keeps unconnected unclaimable? (no) | `KeptIsUnclaimable` | same |
| `qmp_drive` | in which order, how often and how surely do commands arrive, when does a run fail, does it end? | `QmpInv`, `LossBound`, `FailsForCause`, `LagIsOne`, `DriverEnds` | a script of 3 commands with 2 pictures, 3 of the 4 commands refusable, the picture at the interval among them, 2 attempts to connect, 2 drops, 1 event |
| `qmp_drive_exit` | does exit 0 mean that no command was refused? (no) | `CleanExit` | same, 1 picture, no drop |
| `qmp_drive_retry` | is a run failed by the connection only after a retry? (no) | `RetriedFirst` | same, 1 drop |
| `fat_image` | does an image read back as its tree, and when is it given up? | `ReadBack`, `ChainsApart`, `GivenUpForCause` | 6 trees, one with a file too large for its entry, 10 sizes from too small to ample, clusters of two entries, 1 change of a file |
| `fat_short_name` | is there always a short name? (no) | `ShortNameFound` | ten names that are not ASCII in a directory |

Why these bounds are enough. In `LoopFactory` one call runs at a time, so two slots
give a device under construction next to a finished one; two opens of one image
and one of another give equal and different paths; with a sequence byte of two
values the third create meets the node of the first, and five creates let devices
be destroyed and recreated around a refusal. The real width matters only for
`VendorNodesUnique`, which has a run of its own, with pool slots and handles
interchangeable. In `LoopIo` two levels are the ones callers of block I/O run at
(APPLICATION and CALLBACK; file-system calls are not allowed above CALLBACK), so a
stack of two is the deepest; requests reach the first block, the last, across the end
and beyond it, and the word has room for the device and for what is added to it.
`TokenTells` needs a token used twice, by two uses one after the other or by a
notification, and a token without an event next to one that has it. `LoopCreate` depends on the
size only through `size / 2048` and three comparisons. Word spans are smaller than
2^64 because only their being larger than any device matters; a subtraction that
wraps gives a number larger than every size either way.
TLC takes image handles for interchangeable: they are told apart only by what they
carry, and no property or action of the run names one. Three image handles hold two
drivers and an extra copy. In `SelfTest` 12 stands for 256: the code only compares
lengths with it, and the directories of the instance make the copy or the join fit,
fit exactly, fail, or be cut in the middle of a name and between two. In `MountRun` one slot is for the run's own loop device,
another for a device that comes and goes; runs follow one another, so the second
run finds what the first one left.

In `QmpDrive` a drop can hit the first command, a
retry, or the retry of another, which two drops do; more of them only repeat this at
later commands. A key with another to come, a last key and a picture go three
ways through `main`. In `FatImage` two entries to a cluster make a directory with `.` and
`..` and one child cross a cluster, which with the real 256 takes a large one; the
FAT takes more sectors as sizes grow, and the smallest sizes are refused. `FileSizeSpan`
is 8 in place of 2^32: only the comparison with it matters, and one file of the trees has
just that size.

`MaxSeq` (creates in one boot session), `MaxDrops`, `MaxEvents` (of a QMP connection), `MaxChanges` (of the host's
files) and the sets of slots are the only bounds on what would be unbounded; each
appears in a guard or in a constant. `QmpDrive`, `FatImage` and, once hung, `MountRun`
stop, which is why their runs do not look for deadlocks; that `QmpDrive` stops only at
an end is `DriverEnds`, and that `FatImage` does, `GivenUpForCause` and `ReadBack` rest
on.

Fairness. `MountRun` has the liveness property `RunEnds`, under weak fairness of
`RunStep`. The program is a single thread of control which the firmware keeps
running: an enabled step of it is taken in the end. Nothing is assumed of the
environment, which may plug and unplug media for ever, nor of which of the
outcomes of a step is taken. The property does not follow from a bounded number of
steps: handles appear and go while the loops run over them. `QmpDrive` has `DriverEnds`,
under weak fairness of `ClientStep`, a process that the host runs, and of `Obey`: QEMU
answers what it has received while it is connected. The client needs the second,
for it reads without a timeout. That pictures are ever written is not assumed
(the client gives up after a hundred looks), nor that the connection recovers.

## What the checks found

Seven runs end in a counterexample, each against a sentence the repository states.
`PROJECT.json` quotes them under `findings`.

* `loop_factory_nodes`: the device path is made unique by `(UINT8)Disk->Seq`
  (`LoopDxe.c:298`), which comes round after 256 creates. `RefusedOnlyAfterWrap`
  proves that it cannot happen earlier.
* `fs_driver_contract`: after a Secure Boot refusal the image stays in the table,
  so a second `mount -NTFS` takes the driver for loaded and succeeds silently.
  `SuccessMeansRunningOrRefused` shows that this is the only way.
* `mount_run_kept`: the sniff takes a UDF bridge whose extended area starts late for
  pure ISO9660, so its device is kept unconnected although UDF would claim it.
* `fat_short_name`: the number of a short name is cut with it (`mkfatimg.py:192`), so
  behind a prefix of six characters `~10` is `~1` again and the tenth child of a
  directory cannot be named.
* `loop_create_frees`: "on failure everything touched here is closed/freed"
  (`LoopDisk.c:175-176`); when Secure Boot refuses the loop driver, `LoopCreate` fails
  and the refused image stays loaded (`LoopDisk.c:78-81`). `ExitsSettled` shows that
  this is the only failure which leaves an image that does not run.
* `qmp_drive_exit`: "Exit code 0 on clean completion, 1 on unrecoverable QMP error"
  (`qmp_drive.py:10`); a call gets the reply to the command before, so nobody reads
  the error of the last one and the run exits with 0. The theorem `UnheardBounded` has how
  many refusals can go unheard: that one and two for each lost connection.
* `qmp_drive_retry`: "Every command now retries once on a fresh TCP connection before
  the run is failed" (`qmp_drive.py:18-20`); a reply the drop has cut in the middle is a
  `ValueError` of `json.loads`, which is no `OSError`, so the run fails at once.
  `FailsForCause` has the other way: where a connection ends the run, the retry was made.

Weaknesses that are not against a sentence, or need no run to see, are conditions of
properties that hold; each is reachable, and the property says that there is no
other:

* `SniffExact`: `LOOP_MIN_SIZE` is 16 blocks, but sector 16 is the 17th, and an
  image of 16 to 21 blocks is accepted and never recognised.
* `OwnConnectSafe` has five exceptions: the sniff's read failed; the image is too short
  for it; the image is neither of the formats, so that the sniff finds nothing and mount
  connects it as it would a bridge; the image is ISO9660 with one UDF identifier but no
  extended area, such as a lone `NSR02` in sector 18, for which the sniff skips the ISO9660
  driver while the firmware's UDF driver sees nothing; or the driver found in front
  of the connect is stale. The instance has an image for each.
* `UndisturbedReadDelivers`: a caller at a higher priority level can move the file
  position between `SetPosition` and `Read`; the read of the outer caller then
  succeeds with other blocks.
* `ReportIsDiff`: a failed snapshot makes every volume new, a handle value used again
  hides a new volume.
* `PassMeansDriversBeside`: outside `Resolvable` the self-test may look at, and the
  load may load, drivers from the root of the volume instead.
* `TokenTells`: once the notification of a token's event has submitted it again, the
  token of the outer call holds the status of another request when that call returns.
* `LossBound`, `QmpInv`: a drop can lose one command without notice, or press a key
  twice.
* `ReadBack`: each directory leaves the image up to a cluster shorter (the last slice of
  a directory is longer than its bytes), so that in an image nearly full data go
  to the wrong place without an error; there is no check that the clusters suffice.
  A file that changes between scan and write moves everything behind it.

## Proofs

`LoopFactoryProofs` proves, for any handles, files, images and pool slots, any width
of the sequence byte and any number of creates, from `ConstantsAssumption` alone
(foreign handles are handles, every file object has an image, the sequence byte has
at least one value, the null values are distinct from everything else):

| Theorem | Says |
|---|---|
| `Invariance` | `IInv` holds in every reachable state |
| `TypeCorrect` | the type invariant, a part of `IInv` |
| `DevicesIntact` | everything published is alive, complete and over an open file |
| `NothingLeaks` | allocated memory is published or belongs to the call in progress |
| `FileOwnership` | a file is the factory's exactly while one device is backed by it |
| `NoEarlyRefusal` | a duplicate path needs a sequence byte that has wrapped |
| `CreateAtomic` | `Create` is all or nothing (an action property) |
| `PublishedStable` | a published device never changes and is not withdrawn from under a driver |
| `Refinement` | the driver implements `LoopRegistry` |

The argument. None of the properties is inductive alone. That a published
structure is intact after `AppendFailed` or `HandBack` needs to know that the
structure being freed is not published, and that the file handed back is nobody
else's. `IInv` therefore adds three parts to them: `Linked` (a structure is in use
exactly if it has a file; what is in use is published or belongs to the call; a
structure under construction or being handed back is not published), `SeqUnique`
(sequence numbers in use are distinct and already drawn, from which
`RefusedOnlyAfterWrap` follows by `NodeInjective`: within the first 256 numbers
the byte is injective) and `CallConsistent` (what the locals of the call say at each
of its points). There is one lemma per action or group of actions that touch the
same state, one step per conjunct below it; `StepInv` puts them together. The
refinement maps a handle to the file of the structure it publishes: `InstallOk` is
`Mount`, `UninstallOk` is `Unmount`, opening and closing are themselves, and every
other step stutters. The run `loop_factory` checks `IInv` and all the others on the small
instance too.

`LoopIoProofs`, for any block size, device size, priority levels and set of requests, from
`IoAssumption` (the device's byte size fits a word; requests have natural arguments):

| Theorem | Says |
|---|---|
| `IoInvariance` | `IoInv` holds in every reachable state |
| `InsideTheDevice` | requests that pass the checks stay inside, and the offset does not wrap (a part of `IoInv`) |
| `Delivery` | a successful read delivers, unless a nested call moved the position |
| `ShortReads` | an undisturbed short read means the file has shrunk |
| `TokensTell` | notification, signal and return of a request agree with its token |

`IoInv` is `CallSound` of every call on the stack, `OuterDisturbed` and `OuterReused`. A call between its
`SetPosition` and its `Read` finds the position where it left it, or is marked as
disturbed, and of two such calls the outer one is always disturbed. The second part
is needed because the read of the inner one moves the position again: the outer one
must have lost its claim before that. For the tokens `OuterReused` says
that of two calls with one token the outer one is marked as reused, and `CallSound` that a
call not so marked has its status in its token from `StoreStatus` on: a token is
submitted again only behind its notification (`TokenFree`), so nothing comes between
the two steps of `LoopCompleteToken`. `AcceptedInside` is the arithmetic of the range
check, where the first comparison is what makes the subtraction of the second safe.

`LoopCreateProofs`, for any set of images, from `ImagesAssumption` and `WordAssumption`:

| Theorem | Says |
|---|---|
| `CreateInvariance` | `CreateInv` holds in every reachable state |
| `SettledExits` | what every exit leaves: no buffer, the file closed or lent, no driver image or a running one, with two exceptions, each told by its status |
| `ExactDevice` | a device has exactly the whole blocks of its file |
| `ExactSniff` | what the sniff sees, on images it can read |

`CreateInv` adds what is held at each point of the call (`CallHolds`), in particular that
past the size check the file is big enough, from which `LastBlockExact` follows.

`FsDriverProofs`, for any drivers, paths and image handles, from `DriverConstants` and
`DriverNames` (no file a user may load from counts as two of the drivers; the table of the
program has two different names):

| Theorem | Says |
|---|---|
| `DriverInvariance` | `DriverInv` holds in every reachable state |
| `LoadedOnce` | never two copies of a driver, unless the search failed |
| `SuccessSound` | success means running, or refused earlier |
| `DriverRefinement` | the image table implements `DriverTable` |

`DriverInv` adds to the types and to `NoHalfStartedImage` what the call knows of the table
(`LoadConsistent`): the image it has loaded is its own and under the name it looks
for, and past a search that did not fail no other image has that name. The
refinement maps the image table to one state per driver; that a step on one entry changes the
state of one driver only is where `DriverNames` is needed.

`SelfTestProofs`, for any handles, file objects and drivers and any place of the program,
from `SelfTestAssumption`:

| Theorem | Says |
|---|---|
| `SelfTestInvariance` | `SelfTestInv` holds in every reachable state |
| `PassIsRoundTrip` | ALL PASS means that the round trip was made and the device is gone |
| `DriversBeside` | ALL PASS means that the driver files are beside the program, where its path is `Resolvable` |
| `SelfTestRefinement` | the self-test uses the factory as `LoopRegistry` allows |

`SelfTestInv` is `TestIInv` and that nothing else is left. `TestIInv` says which files are open (`FilesHeld`), what the
count of failures can be at each point (`TestConsistent`), and that the test's own device is
over its own file (`DeviceConsistent`), which must survive any leftovers of earlier tests.
`DriversSeen` adds to it what a test has learned of the drivers it has been through: as
long as none is missing, each one's path, as the code makes it, is that of a file on the
volume. `DriversBeside` then is about paths: `LookedUpBeside` shows that for one FILEPATH
node and a path that is short enough, copying, joining and cutting give exactly the
directory of the program and the name. Behind it are facts about texts of any length, by
induction on their lengths: prefixes of a text are shorter than it (`Shorter`), so
nothing is cut (`NotCut`), and a path with one node flattens to that node's names
(`OneNode`).

`MountRunProofs`, for any number of devices, images, media and command lines, from
`RunAssumption` and `WordAssumption`:

| Theorem | Says |
|---|---|
| `RunInvariance` | `RunInv` holds in every reachable state |
| `NamesKept` | a run moves no name that is in use |
| `ReportNames` | what the refresh listed is named by the report |
| `Delivered` | the image's file system is a volume, if claimed |
| `OwnConnect` | the five cases in which the connect of the run's own device may hang |
| `ReportDiff` | the report is the difference to the state before |
| `StatusTrue` | the exit status says what is left behind |

`RunInv` relates the run to the world around it, part by part: the snapshot to the volumes of
then (`SnapshotHolds`), the locals to the point of the code (`RunHolds`), the new device to
its image (`DeviceHolds`), the rescan to what it has achieved (`Achieved`) and the refresh to what
it has still to visit (`NamingHolds`). Each must survive media coming and going. `NamesKept`
rests on a counting argument: names are one to one, there are as many as
devices, so a device without a name leaves one free (`FreeName`), and the least free
one exists (`FirstFreeIsFree`).

`QmpDriveProofs`, for any script and any number of drops, events, attempts and pictures,
from `QmpAssumption`:

| Theorem | Says |
|---|---|
| `QmpInvariance` | `QmpInv` holds in every reachable state |
| `LagOfOne` | the return a call gets is that of the command before its own |
| `LossBounded` | a lost connection costs at most one command unnoticed |
| `FailureExplained` | what a run fails for |
| `UnheardBounded` | how many refusals a run that exits with 0 has not heard |

`QmpInv` is `ScriptOrder`, what the machine has seen, strengthened by what may still
reach it: the requests under way are behind all that and in order (`RequestsOrdered`), the
command of a call that may send it again has been seen at most once (`ItemFresh`), and a
command under way or to be sent again that was seen before has its lost connection
still to its credit (`DoublesPaid`). `LagOfOne` and `LossBounded` rest on an
invariant that is stated only for the proof, `LossInv`: the replies still to be read can be
numbered so that each has the place of the command it answers, the first of them the
place before that of the call's command (`Numbering`); so on a live connection at most
one command is under way whose call is over (`Outstanding`), which is the one a drop can
lose, and on a dead one a call can return only on a reply that was left, after which
the next one notices (`Paid`).

`FailureExplained` and `UnheardBounded` need two more. `CauseInv` has how a connection begins (`Handshake`):
unless it dropped inside `__init__`, the first command on it is `qmp_capabilities` and no
later one is, so that the machine refuses nothing but commands of the script; and it has
what a bad line stands for (`Causes`): an error still to be read, that a command was
refused, a line cut short or a connection gone, that one was lost. `RefusalsPaid` counts
the refused commands whose error nobody will read. With the numbering of the replies,
the errors still to be read on a connection are those of the last two commands sent
on it (`LastErrors`); so a drop loses at most two (`AllButTwo`), and when `main` is
done only the error of its last command is left. When QEMU exits there is no drop to
pay for what is lost with it, and none is needed: a client that goes on has only read
what was left, and what comes behind that is at most its last command (`Owed`).

`FatImageProofs`, for any trees, sizes and geometry of the image and any changes of the
host's files, from `FatAssumption` (the sizes are positive, a sector holds whole FAT
entries and a cluster whole directory entries, a parent comes before its children):

| Theorem | Says |
|---|---|
| `FatInvariance` | `FatInv` holds in every reachable state |
| `GivenUp` | the image is given up only for its cause: size, a file gone or too large, too few clusters, ten children |
| `NodesChained` | the chain of a node is as long as it needs and shares no cluster |
| `DataInvariance` | `DataInv` holds in every reachable state |
| `ImageReadsBack` | a written image reads back as the tree that was scanned |

`FatInv` says that every entry of the FAT is the next cluster or the end (`Linked`), that
a node laid out has a run of the clusters it needs, behind the runs of the nodes before it
(`Runs`), and how far each pass is (`Progress`). That the passes over a directory agree on its
length, and that the FAT is large enough for the clusters, are facts about the
operators: `SectorsNeededType` and `LargerFatNeedsLess` show that `fat_sz_for`, which
computes the FAT's size for a data region that size has yet to shrink, gives a FAT with
room for every cluster (`FatFits`); `ShortNamesAre` says what the names of a directory
are, `NamesRunOut` by a pigeonhole that ten children with the same stem are needed
before one has no name. `ChainIs` shows that following the FAT through a run gives its
clusters in order.

`DataInv` says what is in the data region during the passes: everything written so far
is in its place (`Placed`) up to the first file whose size has changed, and each
directory has shortened the image by less than a cluster, for which the spare
clusters of `ReadBack` pay. Each write is a slice assignment (`AssignIs`), and the regions
of two nodes are apart (`Regions`), so that a write leaves those before it alone
(`PlacedBefore`) and those behind where they are if it keeps the length.
`ReadsContent` then puts the clusters of a chain together again: whole ones
(`ReadClusterIs`), one behind the other (`ReadChainIs`).

Both this module and `SelfTestProofs` prove what recursive definitions compute for every
input. The definitions are recursive functions, not `RECURSIVE` operators, so the provers
keep their backends; induction is the lemma `Induction`, a set that has 0 and with each
number the next has all numbers, which follows from the well-foundedness of `<`, and
`Recursion`, which gives a function from its steps. Folds, flattened
sequences, chains and sorted lists are each shown to have the properties the
proofs use (`FlattenParts`, `FlattenBlocks`, `OrderedIs`, `DigitsAre`), once.

Every invariant and every action property of a passing run, and the three refinements, are
theorems, then. Only model-checked is liveness (`RunEnds`, `DriverEnds`): the prover has
no rule for the fairness of actions whose enabledness it would have to reason about.
The seven properties that fail are counterexamples on an instance.
The auxiliary invariants that only proofs use (`FatInv`, `DataInv`, `LossInv`, `CauseInv`,
`RefusalsPaid`) are not in a configuration; they hold on the instances of the runs, too.

## Not modelled, and why

* The PowerShell scripts run external tools in a straight line; `mkext4img.py` writes one
  fixed image in a straight line; the debug library returns constants; the
  prebuilt efifs drivers are third-party binaries, present only as what they claim.
* `inspect_image` on images a guest has written: deleted entries, chains that loop,
  foreign long names. The constant fields of boot sector, FSInfo and backup are left
  out of `FatImage`, too.
* The shell's and the firmware's own code are external: modelled from how the calls
  use them, and marked so in the map. So is QEMU.
* What a FAT driver does when the temporary file is deleted while a device is still
  over it is not determined by this code.
* `ConnectController` on leftover loop devices during a rescan may hang the
  firmware. That is a documented limitation (`README_en.md:72`); the model has it.
* Printing: help, messages, labels and `blk` aliases.

## Plan

Done: survey; factory, block I/O and creation; driver loading; flows from command line to
exit status; self-test with its paths; QMP driver; FAT builder; for each of these the
runs, and proofs of everything they check but liveness. What is left:

1. `MountRun` takes the outcomes of `LoopCreate`, `MountLoadDriver` and the self-test as
   their own modules establish them; that these outcomes are all there are could be
   stated as theorems about those modules and cited.
2. The operators of `CommandLine`: which word ends in which action, for every list of
   formats.
3. `RunEnds` has a measure (the handles still to visit in each loop); what of it can be
   said without fairness is that no step but the environment's increases it.
