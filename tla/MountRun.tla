------------------------------ MODULE MountRun ------------------------------
(***************************************************************************)
(* One run of mount.efi from command line to exit status: UefiMain of      *)
(* Mount.c, MountRunIso of LoopDisk.c, MountRunFormat of FsDriver.c and    *)
(* the three halves of MapReport.c they share, in                          *)
(* MountPkg/Application/Mount.  Runs follow one another for ever; between  *)
(* and during them the firmware's handles come and go.                     *)
(*                                                                         *)
(* Composed of what the other modules establish: LoopCreate either makes a *)
(* device over the image or leaves nothing, its sniff is that of           *)
(* LoopImage, and a driver is absent, running or stale as in DriverTable.  *)
(*                                                                         *)
(* External, as the code and its comments use them: the firmware connects  *)
(* a driver to a handle that holds a file system one of its running        *)
(* drivers claims, or fails to, and may dead-loop on any other block       *)
(* device (LoopDisk.c:305-307, README_en.md:72); the shell keeps the table *)
(* of fsN: names.                                                          *)
(***************************************************************************)
EXTENDS LoopImage, CommandLine, FiniteSets

CONSTANTS
    Dev,       \* slots for block devices: a slot stands for a device path
    Images,    \* image files mount -ISO may be given
    Media,     \* what a medium plugged in may hold: sets of file systems
    Params,    \* what a run may find as its shell parameters
    None

Driver == {"iso9660", "ntfs"}

FileSystem == {"fat", "ntfs", "iso", "udf"}

DriverState == {"absent", "stale", "running"}

\* fs0:, fs1:, ...; one name per slot is enough for names that are unique.
Name == 0..(Cardinality(Dev) - 1)

ASSUME RunAssumption ==
    /\ IsFiniteSet(Dev)
    /\ Images \subseteq ImageFile
    /\ Media \subseteq SUBSET FileSystem
    /\ Params \subseteq Argument \union {NoShell}
    /\ None \notin Dev /\ \A fs \in SUBSET FileSystem : fs # None

VARIABLES
    media,     \* what each block device holds, None where there is none
    loops,     \* the devices among them that are loop devices
    volumes,   \* the devices with a SimpleFileSystem
    map,       \* the shell's fsN: table
    driver,    \* the state of the loadable drivers
    hung,      \* the firmware is in its dead loop
    run        \* the run in progress: its locals, and some history

world == <<media, loops, volumes, map, driver, hung>>
runVars == <<world, run>>

-----------------------------------------------------------------------------
NoRun == [pc      |-> "idle",
          what    |-> "none",
          status  |-> "none",  \* of the last run, until the next
          img     |-> None,
          loop    |-> None,    \* LoopHandle
          old     |-> {},      \* devices whose handle value is in OldFs
          freed   |-> 0,       \* values in OldFs no handle has any more
          before  |-> {},      \* history: volumes since before the snapshot
          blind   |-> FALSE,   \* history: the first snapshot failed
          reused  |-> {},      \* history: handles with a freed value
          todo    |-> {},      \* handles a loop of the code has still to visit
          steady  |-> {},      \* history: listed for naming, volumes since
          denied  |-> FALSE,   \* history: connecting loop failed
          unnamed |-> {},      \* history: SetMap refused these
          read    |-> FALSE]   \* history: the sniff met no error

At(p) == run.pc = p /\ ~ hung

Present == {d \in Dev : media[d] # None}

\* The file systems the firmware claims now, and those of an image.
Served == {"fat", "udf"}
             \union (IF driver["iso9660"] = "running" THEN {"iso"} ELSE {})
             \union (IF driver["ntfs"] = "running" THEN {"ntfs"} ELSE {})

Claimed(d) == media[d] # None /\ media[d] \intersect Served # {}

Holds(img) == (IF HoldsIso(img) THEN {"iso"} ELSE {})
                 \union (IF HoldsUdf(img) THEN {"udf"} ELSE {})

Named(d) == \E n \in Name : map[n] = d

FirstFree == CHOOSE n \in Name : map[n] = None /\ \A m \in 0..(n-1) : map[m] # None

\* gBS->ConnectController on a block device: a driver that claims it binds,
\* or fails to.
ConnectController(d) ==
    \/ /\ Claimed(d)
       /\ volumes' \in {volumes, volumes \union {d}}
       /\ UNCHANGED hung
    \/ /\ d \in Present /\ ~ Claimed(d)
       /\ hung' \in BOOLEAN
       /\ UNCHANGED volumes
    \/ /\ d \notin Present
       /\ UNCHANGED <<volumes, hung>>

\* The image is of no more use once its device is connected.
Goto(p) == run' = [run EXCEPT !.pc = p,
                              !.img = IF p = "connect" THEN @ ELSE None,
                              !.read = p = "connect" /\ @]

Exit(status) == run' = [NoRun EXCEPT !.status = status]

\* r after a new handle for d: the firmware may give it a value it had before.
NewHandle(r, d) ==
    {r} \union {[r EXCEPT !.old = @ \union {d}, !.reused = @ \union {d},
                         !.freed = @ - 1] : n \in 1..r.freed}

-----------------------------------------------------------------------------
RunInit ==
    /\ media = [d \in Dev |-> None]
    /\ loops = {}
    /\ volumes = {}
    /\ map = [n \in Name |-> None]
    /\ driver = [f \in Driver |-> "absent"]
    /\ hung = FALSE
    /\ run = NoRun

\* Variant: a snapshot of the BlockIo handles.
SnapshotBlockIo(r) == {[r EXCEPT !.old = Present, !.before = volumes],
                       [r EXCEPT !.before = volumes, !.blind = TRUE]}

\* MapSnapshotFsHandles; when it fails the list stays empty.
Snapshot(r) == {[r EXCEPT !.old = volumes, !.before = volumes],
                [r EXCEPT !.before = volumes, !.blind = TRUE]}

PrintHelp(params) ==
    /\ At("idle")
    /\ HelpAsked(params) \/ ListAsked(params)
    /\ Exit("SUCCESS")
    /\ UNCHANGED world

\* A format that is not in the table, -ISO without a file, any other word.
Refuse(params) ==
    /\ At("idle")
    /\ \/ FormatAsked(params) /\ MountFindFormat(params.Argv1) = {}
       \/ IsoAsked(params) /\ params.Argc < 3
       \/ UnknownWord(params)
    /\ Exit("INVALID_PARAMETER")
    /\ UNCHANGED world

\* SelfTest says what happens inside; here the verdict, and the loop device
\* a Destroy that failed leaves behind.
MountSelfTest(params) ==
    /\ At("idle")
    /\ SelfTestAsked(params)
    /\ \E status \in {"SUCCESS", "DEVICE_ERROR"} : Exit(status)
    /\ \/ UNCHANGED <<media, loops>>
       \/ \E d \in Dev : /\ run'.status = "DEVICE_ERROR"
                         /\ media[d] = None /\ ~ Named(d)
                         /\ media' = [media EXCEPT ![d] = {}]
                         /\ loops' = loops \union {d}
    /\ UNCHANGED <<volumes, map, driver, hung>>

MountRunIso(params, img) ==
    /\ At("idle")
    /\ IsoAsked(params) /\ params.Argc >= 3
    /\ run' \in Snapshot([NoRun EXCEPT !.pc = "create", !.what = "iso", !.img = img])
    /\ UNCHANGED world

MountRunFormat(params) ==
    /\ At("idle")
    /\ FormatAsked(params)
    /\ \E f \in MountFindFormat(params.Argv1) :
          run' \in Snapshot([NoRun EXCEPT !.pc = "driver", !.what = mFormats[f]])
    /\ UNCHANGED world

\* Its own codes, and any error of MountGetSelfDir or Create, passed on.
CreateStatus == {"ISO_ERROR", "DRIVER_MISSING", "SECURE_BOOT",
                 "OUT_OF_RESOURCES", "EFI_ERROR"}

LoopCreateFails ==
    /\ At("create")
    /\ \E status \in CreateStatus : Exit(status)
    /\ UNCHANGED world

\* A pure ISO9660 image, as sniffed, goes by way of the ISO9660 driver.
LoopCreateOk(d) ==
    /\ At("create")
    /\ BigEnough(run.img.size)
    /\ media[d] = None /\ ~ Named(d)   \* a path nobody had before
    /\ media' = [media EXCEPT ![d] = Holds(run.img)]
    /\ loops' = loops \union {d}
    /\ \E read \in BOOLEAN, r \in NewHandle(run, d) :
          run' = [r EXCEPT
                     !.pc = IF read /\ Iso9660(run.img) /\ ~ Udf(run.img)
                            THEN "driver" ELSE "connect",
                     !.loop = d, !.read = read]
    /\ UNCHANGED <<volumes, map, driver, hung>>

Needed == IF run.what = "iso" THEN "iso9660" ELSE run.what

\* A refused image stays behind; a driver that was there is still there.
AfterFailedLoad ==
    \E s \in IF driver[Needed] = "absent" THEN {"absent", "stale"}
                                         ELSE {driver[Needed]} :
        driver' = [driver EXCEPT ![Needed] = s]

AfterDriver == Goto(IF run.what = "iso" THEN "connect" ELSE "rescan")

\* MountDriverLoaded
DriverKnown ==
    /\ At("driver")
    /\ driver[Needed] # "absent"
    /\ AfterDriver
    /\ UNCHANGED world

\* The driver is absent, or the search for it failed.
DriverLoads ==
    /\ At("driver")
    /\ driver' = [driver EXCEPT ![Needed] = "running"]
    /\ AfterDriver
    /\ UNCHANGED <<media, loops, volumes, map, hung>>

\* Variant: mount -ISO only warns about the driver and connects regardless.
DriverFailsWarns ==
    /\ At("driver")
    /\ AfterFailedLoad
    /\ AfterDriver
    /\ UNCHANGED <<media, loops, volumes, map, hung>>

\* Variant: the status of the load is that of the run, whatever it keeps.
DriverFailsReturnsStatus ==
    /\ At("driver")
    /\ AfterFailedLoad
    /\ \E status \in {"DRIVER_MISSING", "SECURE_BOOT"} : Exit(status)
    /\ UNCHANGED <<media, loops, volumes, map, hung>>

\* Missing, broken or refused by Secure Boot: a format run fails, an ISO run
\* keeps its loop device unconnected, and that is a success.
DriverFails ==
    /\ At("driver")
    /\ AfterFailedLoad
    /\ \E status \in IF run.what = "iso" THEN {"SUCCESS"}
                      ELSE {"DRIVER_MISSING", "SECURE_BOOT"} : Exit(status)
    /\ UNCHANGED <<media, loops, volumes, map, hung>>

\* Variant: the connect of the new device is left to the rescan.
ConnectLeftToRescan ==
    /\ At("connect")
    /\ Goto("rescan")
    /\ UNCHANGED world

\* Its status is not looked at.
ConnectLoop ==
    /\ At("connect")
    /\ ConnectController(run.loop)
    /\ run' = [run EXCEPT !.pc = "rescan", !.img = None, !.read = FALSE,
                          !.denied = Claimed(run.loop) /\ run.loop \notin volumes']
    /\ UNCHANGED <<media, loops, map, driver>>

-----------------------------------------------------------------------------
(* MapConnectAllControllers.  No status is looked at, here or there. *)

Rescan ==
    /\ At("rescan")
    /\ \E handles \in {Present, {}} :
          run' = [run EXCEPT !.pc = "scan", !.todo = handles]
    /\ UNCHANGED world

\* Variant: a handle that is not connected yet is tried again.
ScanHandleRetries(d) ==
    /\ At("scan")
    /\ d \in run.todo
    /\ \/ d \in volumes /\ UNCHANGED <<volumes, hung>>
       \/ d \notin volumes /\ ConnectController(d)
    /\ run' = [run EXCEPT !.todo = IF d \in volumes' THEN @ \ {d} ELSE @]
    /\ UNCHANGED <<media, loops, map, driver>>

ScanHandle(d) ==
    /\ At("scan")
    /\ d \in run.todo
    /\ \/ d \in volumes /\ UNCHANGED <<volumes, hung>>
       \/ d \notin volumes /\ ConnectController(d)
    /\ run' = [run EXCEPT !.todo = @ \ {d}]
    /\ UNCHANGED <<media, loops, map, driver>>

ScanDone ==
    /\ At("scan")
    /\ run.todo = {}
    /\ Goto("refresh")
    /\ UNCHANGED world

-----------------------------------------------------------------------------
(* MapRefreshShell *)

Refresh ==
    /\ At("refresh")
    /\ run' = [run EXCEPT !.pc = "name", !.todo = volumes, !.steady = volumes]
    /\ UNCHANGED world

\* No shell protocol, or no snapshot.
RefreshFails ==
    /\ At("refresh")
    /\ Goto("report")
    /\ UNCHANGED world

\* The handle has no device path any more, or its path has an fs alias.
NameSkip(d) ==
    /\ At("name")
    /\ d \in run.todo
    /\ media[d] = None \/ Named(d)
    /\ run' = [run EXCEPT !.todo = @ \ {d}]
    /\ UNCHANGED world

\* Variant: the name is the number of volumes the run has seen named.
NameByCount(d) ==
    /\ At("name")
    /\ d \in run.todo
    /\ media[d] # None /\ ~ Named(d)
    /\ map' = [map EXCEPT ![Cardinality({v \in volumes : Named(v)})
                               % Cardinality(Name)] = d]
    /\ run' = [run EXCEPT !.todo = @ \ {d}]
    /\ UNCHANGED <<media, loops, volumes, driver, hung>>

\* Variant: the aliases a volume already has are not looked at.
NameVolumeAgain(d) ==
    /\ At("name")
    /\ d \in run.todo
    /\ media[d] # None
    /\ map' = [map EXCEPT ![FirstFree] = d]
    /\ run' = [run EXCEPT !.todo = @ \ {d}]
    /\ UNCHANGED <<media, loops, volumes, driver, hung>>

NameVolume(d) ==
    /\ At("name")
    /\ d \in run.todo
    /\ media[d] # None /\ ~ Named(d)
    /\ map' = [map EXCEPT ![FirstFree] = d]
    /\ run' = [run EXCEPT !.todo = @ \ {d}]
    /\ UNCHANGED <<media, loops, volumes, driver, hung>>

\* Variant: the first refusal ends the refresh.
SetMapFailsStops(d) ==
    /\ At("name")
    /\ d \in run.todo
    /\ media[d] # None /\ ~ Named(d)
    /\ run' = [run EXCEPT !.todo = {}, !.unnamed = @ \union {d}]
    /\ UNCHANGED world

SetMapFails(d) ==
    /\ At("name")
    /\ d \in run.todo
    /\ media[d] # None /\ ~ Named(d)
    /\ run' = [run EXCEPT !.todo = @ \ {d}, !.unnamed = @ \union {d}]
    /\ UNCHANGED world

NameDone ==
    /\ At("name")
    /\ run.todo = {}
    /\ Goto("report")
    /\ UNCHANGED world

-----------------------------------------------------------------------------
\* The volumes MapPrintNewVolumes has a line for: MapIsInSnapshot compares
\* handle values.
Listed == volumes \ run.old

\* MapPrintNewVolumes prints a line for each of Listed and changes nothing;
\* the run is over.
Report ==
    /\ At("report")
    /\ Exit("SUCCESS")
    /\ UNCHANGED world

\* No snapshot, no report; the run is a success all the same.
ReportFails ==
    /\ At("report")
    /\ Exit("SUCCESS")
    /\ UNCHANGED world

RunStep ==
    \/ LoopCreateFails \/ \E d \in Dev : LoopCreateOk(d)
    \/ DriverKnown \/ DriverLoads \/ DriverFails
    \/ ConnectLoop
    \/ Rescan \/ ScanDone \/ \E d \in Dev : ScanHandle(d)
    \/ Refresh \/ RefreshFails \/ NameDone
    \/ \E d \in Dev : NameSkip(d) \/ NameVolume(d) \/ SetMapFails(d)
    \/ Report \/ ReportFails

-----------------------------------------------------------------------------
(* The firmware and the shell's user (external) *)

\* A medium arrives at any time; the bus driver connects it or does not.
Plug(d, fs) ==
    /\ ~ hung
    /\ media[d] = None
    /\ media' = [media EXCEPT ![d] = fs]
    /\ volumes' \in {volumes, IF fs \intersect Served # {}
                              THEN volumes \union {d} ELSE volumes}
    /\ run' \in NewHandle(run, d)
    /\ UNCHANGED <<loops, map, driver, hung>>

\* A loop device has no plug: only its factory takes it away.
Unplug(d) ==
    /\ ~ hung
    /\ d \in Present \ loops
    /\ media' = [media EXCEPT ![d] = None]
    /\ volumes' = volumes \ {d}
    /\ run' = [run EXCEPT !.steady = @ \ {d}, !.before = @ \ {d},
                          !.old = @ \ {d}, !.reused = @ \ {d},
                          !.freed = IF d \in run.old THEN @ + 1 ELSE @]
    /\ UNCHANGED <<loops, map, driver, hung>>

\* map -r: every volume gets one name, nothing else has one.
ShellMapR ==
    /\ At("idle")
    /\ map' \in [Name -> volumes \union {None}]
    /\ \A d \in volumes : \E n \in Name : map'[n] = d
    /\ \A m, n \in Name : map'[m] = map'[n] /\ m # n => map'[n] = None
    /\ UNCHANGED <<media, loops, volumes, driver, hung, run>>

\* load: the driver runs and the shell connects of what is claimed by now
\* what it can.
ShellLoad(f) ==
    /\ At("idle")
    /\ driver' = [driver EXCEPT ![f] = "running"]
    /\ UNCHANGED <<media, loops, map, hung, run>>
    /\ \E new \in SUBSET {d \in Dev : Claimed(d)'} : volumes' = volumes \union new

\* unload: the driver's volumes go with it.
ShellUnload(f) ==
    /\ At("idle")
    /\ driver' = [driver EXCEPT ![f] = "absent"]
    /\ UNCHANGED <<media, loops, map, hung, run>>
    /\ volumes' = {d \in volumes : Claimed(d)'}

Environment ==
    \/ \E d \in Dev, fs \in Media : Plug(d, fs)
    \/ \E d \in Dev : Unplug(d)
    \/ ShellMapR
    \/ \E f \in Driver : ShellLoad(f) \/ ShellUnload(f)

UefiMain(params) ==
    \/ PrintHelp(params) \/ Refuse(params) \/ MountSelfTest(params)
    \/ \E img \in Images : MountRunIso(params, img)
    \/ MountRunFormat(params)

RunNext ==
    \/ \E params \in Params : UefiMain(params)
    \/ RunStep
    \/ Environment

\* The program is a single thread of control the firmware goes on running.
RunSpec == RunInit /\ [][RunNext]_runVars /\ WF_runVars(RunStep)

-----------------------------------------------------------------------------
(* Properties *)

\* What a run may hold.
Run == [pc : {"idle", "create", "driver", "connect", "rescan", "scan",
              "refresh", "name", "report"},
        what : {"none", "iso", "ntfs"},
        status : CreateStatus \union
                    {"none", "SUCCESS", "INVALID_PARAMETER", "DEVICE_ERROR"},
        img : Images \union {None}, loop : Dev \union {None},
        old : SUBSET Dev, freed : 0..Cardinality(Dev), before : SUBSET Dev,
        blind : BOOLEAN, reused : SUBSET Dev, todo : SUBSET Dev,
        steady : SUBSET Dev, denied : BOOLEAN, unnamed : SUBSET Dev,
        read : BOOLEAN]

\* Type invariant; volumes and loop devices are devices, and what the
\* history calls a volume since some moment is one.
RunTypeOK ==
    /\ media \in [Dev -> (SUBSET FileSystem) \union {None}]
    /\ loops \subseteq Present
    /\ volumes \subseteq Present
    /\ map \in [Name -> Dev \union {None}]
    /\ driver \in [Driver -> DriverState]
    /\ hung \in BOOLEAN
    /\ run \in Run
    /\ run.loop \in loops \union {None}
    /\ run.steady \subseteq volumes /\ run.before \subseteq volumes

\* The refresh names only volumes that have no fsN: name, so no two names
\* share a volume, however shell and runs take turns at the table.
NamesOneToOne ==
    \A m, n \in Name : map[m] = map[n] /\ map[n] # None => m = n

\* The snapshot against the volumes it was taken of: no value is lost sight
\* of, and a value that stands for a handle is old or used again.
SnapshotHolds ==
    /\ run.freed + Cardinality(run.old) <= Cardinality(Dev)
    /\ run.blind \/ run.before \subseteq run.old
    /\ run.old \subseteq run.before \union run.reused

\* What the locals of the run say at each of its points.
RunHolds ==
    /\ run.pc = "idle" <=> run.what = "none"
    /\ run.pc = "idle" => run.old = {} /\ run.freed = 0 /\ run.before = {}
    /\ run.pc = "create" => run.what = "iso" /\ run.img \in Images
                            /\ run.loop = None
    /\ run.what = "iso" <=> run.loop # None \/ run.pc = "create"
    /\ run.pc \notin {"name", "report"} => run.steady = {}

\* The new loop device is there with the file systems of its image, and by
\* the time it is connected a pure ISO9660 has a driver, or what counts as one.
DeviceHolds ==
    /\ run.pc = "connect" => run.what = "iso"
    /\ run.pc \in {"driver", "connect"} /\ run.what = "iso" =>
          run.img \in Images /\ media[run.loop] = Holds(run.img)
    /\ run.pc = "connect" /\ run.read /\ Iso9660(run.img) /\ ~ Udf(run.img)
          => driver["iso9660"] # "absent"

\* What the run has achieved once it gets to the rescan.
Achieved ==
    run.pc \in {"rescan", "scan", "refresh", "name", "report"} =>
        /\ run.what = "iso" /\ Claimed(run.loop)
              => run.loop \in volumes \/ run.denied
        /\ run.what = "ntfs" => driver["ntfs"] # "absent"

\* What the refresh has still to name it has still to visit.
NamingHolds ==
    \A d \in run.steady :
        \/ d \in run.unnamed \/ Named(d)
        \/ run.pc = "name" /\ d \in run.todo

\* What holds of a run, the devices and the mapping table at all times: the
\* types, that no volume is named twice, and how the run's locals and the
\* state it works on belong together.  It is inductive.
RunInv ==
    /\ RunTypeOK /\ NamesOneToOne
    /\ SnapshotHolds /\ RunHolds /\ DeviceHolds /\ Achieved /\ NamingHolds

\* The refresh takes a free name: a name somebody is using is never moved to
\* another volume by a run, not even one that stands for a medium pulled out
\* long ago.
NeverClobbered ==
    [][run.pc # "idle" =>
          \A n \in Name : map[n] # None => map'[n] = map[n]]_runVars

\* MapPrintNewVolumes relies on the refresh before it: a volume that was
\* there when the refresh listed them, and has been since, has an fsN: name
\* by the time of the report, unless the shell refused that very one.
ReportedVolumesNamed ==
    [][Report => \A d \in run.steady \ run.unnamed : Named(d)]_runVars

\* A mount -ISO that gets to its report has made the image's file system a
\* volume if anything running claims it, whatever the rescan met, unless the
\* driver that claims it failed to bind.
MountDelivered ==
    [][Report /\ run.what = "iso" /\ Claimed(run.loop)
          => run.loop \in volumes \/ run.denied]_runVars

\* What the sniff says of the image is all there is to say: it is ISO9660, it
\* is long enough for the sniff's one read, and an identifier of UDF means
\* UDF.  (Of an image that is no ISO9660 the sniff finds nothing, and mount
\* connects it like a bridge.)
SniffTells(img) ==
    SniffReads(img) /\ HoldsIso(img) /\ (Udf(img) => HoldsUdf(img))

\* The connect of the run's own loop device (LoopDisk.c:329) does not
\* dead-loop the firmware, with five exceptions: the sniff's read failed; the
\* image is too short for it; the image is not ISO9660; a stray descriptor
\* makes the sniff see a UDF that is not there; the driver found in front of
\* it is stale, an image that Secure Boot refused.
OwnConnectSafe ==
    [][ConnectLoop /\ hung' =>
          ~ run.read \/ ~ SniffTells(run.img) \/ driver["iso9660"] = "stale"
      ]_runVars

\* The report is the diff against the state before the run, however media
\* came and went: what it lists was not a volume then, unless the snapshot
\* failed; what has become one since is listed, unless the firmware gave its
\* handle the value of one that is gone.
ReportIsDiff ==
    [][Report => /\ run.blind \/ Listed \intersect run.before = {}
                 /\ volumes \ run.before \subseteq Listed \union run.reused
      ]_runVars

Exits == run.pc # "idle" /\ run'.pc = "idle"

\* The exit status says what the run leaves behind.  Success: an ISO run has
\* made a loop device, which is there to stay, and a format run has its
\* driver, or what counts as one.  Anything else: no loop device of this run
\* and no volume by its doing.
ExitStatus ==
    [][Exits =>
         IF run'.status = "SUCCESS"
         THEN IF run.what = "iso" THEN run.loop \in loops'
                                  ELSE driver'[Needed] # "absent"
         ELSE run.loop = None /\ volumes' = volumes]_runVars

\* A run ends, unless the firmware hangs under it, however media come and go.
RunEnds == (run.pc # "idle") ~> (run.pc = "idle" \/ hung)

\* LoopDisk.c:303: the device an ISO run keeps unconnected, "pure ISO9660
\* with no ISO9660 driver loaded", is provably unclaimable.
KeptIsUnclaimable ==
    [][DriverFails /\ run.what = "iso" => ~ Claimed(run.loop)]_runVars
=============================================================================
