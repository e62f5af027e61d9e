------------------------------ MODULE SelfTest ------------------------------
(***************************************************************************)
(* mount selftest: MountSelfTest of MountPkg/Application/Mount/SelfTest.c, *)
(* which opens every driver file by MountOpenDriverFile of FsDriver.c, and *)
(* LoopDiskSelfTest of LoopDisk.c, which writes a temporary file, has a    *)
(* loop device made over it, reads it back, takes the device away and      *)
(* deletes the file.  Tests follow one another; a device a failed Destroy  *)
(* leaves behind is still there, with its file open, for all later ones.   *)
(*                                                                         *)
(* LoopCreate and Destroy are the steps LoopRegistry promises; a driver    *)
(* that holds the device makes Destroy fail.  The temporary file can be    *)
(* deleted while a device is over it: the shell does not ask the factory.  *)
(***************************************************************************)
EXTENDS SelfPath, FiniteSets

CONSTANTS
    Handle,   \* the firmware's handles
    File,     \* open-file objects over fs0:\loop_selftest.bin
    DriverFile, \* mFormats[I].DriverFile, as the names in it
    Places,   \* where mount.efi may be, and what is there
    None

ASSUME SelfTestAssumption ==
    /\ None \notin Handle \union File
    /\ DriverFile \in Seq(Seq(DOMAIN Length))
    /\ \A p \in Places : p.path \in DevicePaths

VARIABLES
    open,      \* the open-file objects in use
    mounted,   \* the file object behind each loop device
    temp,      \* the temporary file exists
    place,     \* the path of mount.efi and the files of its volume
    test       \* the locals of both functions, or the last result

selfVars == <<open, mounted, temp, place, test>>

-----------------------------------------------------------------------------
\* MOUNT's own STATUS_* codes are small integers without the error bit.
EfiError(status) == status \in {"DEVICE_ERROR", "OUT_OF_RESOURCES",
                                "NOT_FOUND", "EFI_ERROR"}

\* LoopCreate's codes, and any error of MountGetSelfDir or Create, passed on.
CreateStatus == {"ISO_ERROR", "DRIVER_MISSING", "SECURE_BOOT",
                 "OUT_OF_RESOURCES", "EFI_ERROR"}

NewTest == [pc       |-> "idle",
            failures |-> 0,        \* mFailures
            driver   |-> 1,        \* I of the second item, from 1
            all      |-> TRUE,     \* All
            root     |-> FALSE,    \* Root of MountOpenDriverFile is open
            dfile    |-> FALSE,    \* the driver's File is open
            buffers  |-> FALSE,    \* Pattern and ReadBack are held
            file     |-> None,     \* File
            handle   |-> None,     \* LoopHandle
            ok       |-> FALSE,    \* Ok
            trip     |-> FALSE,    \* history: all reads gave back the pattern
                                   \* and the write was refused
            result   |-> "none"]

At(p) == test.pc = p

SelfTestInit ==
    /\ open = {}
    /\ mounted = [h \in Handle |-> None]
    /\ temp = FALSE
    /\ place \in Places
    /\ test = NewTest

\* The format table is as it is compiled in, so item 1 passes.
MountSelfTest ==
    /\ At("idle")
    /\ test' = [NewTest EXCEPT !.pc = "drivers"]
    /\ UNCHANGED <<open, mounted, temp, place>>

MoreDrivers == At("drivers") /\ test.driver <= Len(DriverFile)

Target == LookedUp(place.path, DriverFile[test.driver])

NextDriver(all) ==
    test' = [test EXCEPT !.pc = "drivers", !.driver = @ + 1, !.all = all,
                         !.root = FALSE, !.dfile = FALSE]

\* MountOpenDriverFile: the directory is found and its volume opened.
OpenVolume ==
    /\ MoreDrivers
    /\ Target # {}
    /\ test' = [test EXCEPT !.pc = "lookup", !.root = TRUE]
    /\ UNCHANGED <<open, mounted, temp, place>>

\* No directory to be found, no file system on its volume, or no root.
OpenVolumeFails ==
    /\ MoreDrivers
    /\ NextDriver(FALSE)
    /\ UNCHANGED <<open, mounted, temp, place>>

\* A directory opens as a file does.  The root is closed either way.
OpenDriver ==
    /\ At("lookup")
    /\ Target \subseteq place.tree
    /\ test' = [test EXCEPT !.pc = "present", !.root = FALSE, !.dfile = TRUE]
    /\ UNCHANGED <<open, mounted, temp, place>>

\* Variant: a driver that does not open leaves the root open.
OpenDriverFailsKeepsRoot ==
    /\ At("lookup")
    /\ test' = [test EXCEPT !.pc = "drivers", !.driver = @ + 1, !.all = FALSE]
    /\ UNCHANGED <<open, mounted, temp, place>>

OpenDriverFails ==
    /\ At("lookup")
    /\ NextDriver(FALSE)
    /\ UNCHANGED <<open, mounted, temp, place>>

CloseDriver ==
    /\ At("present")
    /\ NextDriver(test.all)
    /\ UNCHANGED <<open, mounted, temp, place>>

DriversDone ==
    /\ At("drivers")
    /\ test.driver > Len(DriverFile)
    /\ test' = [test EXCEPT !.pc = "allocate",
                            !.failures = @ + (IF test.all THEN 0 ELSE 1)]
    /\ UNCHANGED <<open, mounted, temp, place>>

AllocateBuffers ==
    /\ At("allocate")
    /\ test' = [test EXCEPT !.pc = "open", !.buffers = TRUE]
    /\ UNCHANGED <<open, mounted, temp, place>>

\* LoopDiskSelfTest returns; the caller counts the item by its error bit and
\* prints the verdict.
Finish(status) ==
    LET failures == test.failures + (IF EfiError(status) THEN 1 ELSE 0)
    IN  test' = [test EXCEPT
                    !.pc = "idle", !.buffers = FALSE, !.file = None,
                    !.failures = failures,
                    !.result = IF failures = 0 THEN "ALL PASS" ELSE "FAILED"]

AllocateFails ==
    /\ At("allocate")
    /\ Finish("OUT_OF_RESOURCES")
    /\ UNCHANGED <<open, mounted, temp, place>>

OpenTemp(f) ==
    /\ At("open")
    /\ f \notin open
    /\ open' = open \union {f}
    /\ temp' = TRUE
    /\ test' = [test EXCEPT !.pc = "write", !.file = f]
    /\ UNCHANGED <<mounted, place>>

OpenTempFails ==
    /\ At("open")
    /\ Finish("NOT_FOUND")
    /\ UNCHANGED <<open, mounted, temp, place>>

\* Either way the file is closed after the write.
WriteTemp ==
    /\ At("write")
    /\ open' = open \ {test.file}
    /\ test' = [test EXCEPT !.pc = "create", !.file = None]
    /\ UNCHANGED <<mounted, temp, place>>

\* An error or a short write: close, delete (which may fail too), give up.
WriteTempFails ==
    /\ At("write")
    /\ open' = open \ {test.file}
    /\ temp' \in {FALSE, temp}
    /\ Finish("DEVICE_ERROR")
    /\ UNCHANGED <<mounted, place>>

\* LoopCreate opens the file again, as an image this time.
OpenAsImage(f) ==
    /\ At("create")
    /\ f \notin open
    /\ open' = open \union {f}
    /\ test' = [test EXCEPT !.pc = "mount", !.file = f]
    /\ UNCHANGED <<mounted, temp, place>>

LoopCreateOk(h) ==
    /\ At("mount")
    /\ mounted[h] = None
    /\ mounted' = [mounted EXCEPT ![h] = test.file]
    /\ test' = [test EXCEPT !.pc = "read", !.handle = h, !.file = None]
    /\ UNCHANGED <<open, temp, place>>

\* Variant: LoopCreate's own status is what LoopDiskSelfTest returns.
LoopCreateFailsRaw(status) ==
    /\ At("create") \/ At("mount")
    /\ open' = open \ {test.file}
    /\ temp' \in {FALSE, temp}
    /\ Finish(status)
    /\ UNCHANGED <<mounted, place>>

\* LoopCreate closes what it opened; LoopHandle stays NULL and Ok FALSE.
LoopCreateFails(status) ==
    /\ At("create") \/ At("mount")
    /\ open' = open \ {test.file}
    /\ test' = [test EXCEPT !.pc = "delete", !.file = None]
    /\ UNCHANGED <<mounted, temp, place>>

\* Three reads and a refused write; any one of them may go wrong.
ReadBack ==
    /\ At("read")
    /\ \E good \in BOOLEAN :
          test' = [test EXCEPT !.pc = "destroy", !.ok = good, !.trip = good]
    /\ UNCHANGED <<open, mounted, temp, place>>

\* Destroy hands the file back.
DestroyOk ==
    /\ At("destroy")
    /\ mounted' = [mounted EXCEPT ![test.handle] = None]
    /\ test' = [test EXCEPT !.pc = "close", !.file = mounted[test.handle]]
    /\ UNCHANGED <<open, temp, place>>

\* Variant: the Destroy that failed is followed by the close all the same.
DestroyFailsCloses ==
    /\ At("destroy")
    /\ test' = [test EXCEPT !.pc = "close", !.file = mounted[test.handle],
                            !.ok = FALSE]
    /\ UNCHANGED <<open, mounted, temp, place>>

\* No factory, or a driver that holds the device.
DestroyFails ==
    /\ At("destroy")
    /\ test' = [test EXCEPT !.pc = "delete", !.ok = FALSE]
    /\ UNCHANGED <<open, mounted, temp, place>>

CloseTemp ==
    /\ At("close")
    /\ open' = open \ {test.file}
    /\ test' = [test EXCEPT !.pc = "delete", !.file = None]
    /\ UNCHANGED <<mounted, temp, place>>

\* ShellDeleteFileByName, whose status nobody looks at; then both buffers.
DeleteTemp ==
    /\ At("delete")
    /\ temp' \in {FALSE, temp}
    /\ Finish(IF test.ok THEN "SUCCESS" ELSE "DEVICE_ERROR")
    /\ UNCHANGED <<open, mounted, place>>

TestStep ==
    \/ OpenVolume \/ OpenVolumeFails
    \/ OpenDriver \/ OpenDriverFails \/ CloseDriver \/ DriversDone
    \/ AllocateBuffers \/ AllocateFails
    \/ \E f \in File : OpenTemp(f)
    \/ OpenTempFails
    \/ WriteTemp \/ WriteTempFails
    \/ \E f \in File : OpenAsImage(f)
    \/ \E h \in Handle : LoopCreateOk(h)
    \/ \E s \in CreateStatus : LoopCreateFails(s)
    \/ ReadBack
    \/ DestroyOk \/ DestroyFails
    \/ CloseTemp
    \/ DeleteTemp

SelfTestNext == MountSelfTest \/ TestStep

SelfTestSpec == SelfTestInit /\ [][SelfTestNext]_selfVars

-----------------------------------------------------------------------------
(* Properties *)

Test == [pc : {"idle", "drivers", "lookup", "present", "allocate", "open",
               "write", "create", "mount", "read", "destroy", "close", "delete"},
         failures : 0..2, driver : 1..(Len(DriverFile) + 1),
         all : BOOLEAN, root : BOOLEAN, dfile : BOOLEAN, buffers : BOOLEAN,
         file : File \union {None}, handle : Handle \union {None},
         ok : BOOLEAN, trip : BOOLEAN, result : {"none", "ALL PASS", "FAILED"}]

\* Type invariant; a test counts at most two failed items, its own, whatever
\* the tests before it counted.
SelfTestTypeOK ==
    /\ open \subseteq File
    /\ mounted \in [Handle -> File \union {None}]
    /\ temp \in BOOLEAN
    /\ place \in Places
    /\ test \in Test

\* ALL PASS is printed only if the whole round trip was made: device made,
\* pattern read back, write refused, device taken away.
PassMeansRoundTrip ==
    test.result = "ALL PASS" =>
        test.trip /\ test.handle # None /\ mounted[test.handle] = None

\* ALL PASS means that every driver file is in the directory of mount.efi,
\* where "mount.efi and drivers\ together" have been copied to, as far as
\* MOUNT_MAX_PATH and a path of one node carry: no file in another directory
\* passes for it.
PassMeansDriversBeside ==
    test.result = "ALL PASS" =>
        \A i \in DOMAIN DriverFile :
            Resolvable(place.path, DriverFile[i]) =>
                Beside(place.path, DriverFile[i]) \in place.tree

\* Between tests every file object still open is the one behind a device
\* some test could not destroy; volume roots and driver files are closed and
\* the buffers are free.
NothingElseLeft ==
    At("idle") =>
        /\ open = {f \in File : \E h \in Handle : mounted[h] = f}
        /\ ~ test.buffers /\ ~ test.root /\ ~ test.dfile

\* A file object is open exactly if a device is over it or it is the one a
\* test holds, never both, and no two devices are over one.
FilesHeld ==
    /\ open = ({mounted[h] : h \in Handle} \union {test.file}) \ {None}
    /\ \A h, k \in Handle : mounted[h] = mounted[k] /\ mounted[h] # None => h = k
    /\ test.file # None => \A h \in Handle : mounted[h] # test.file

\* What a test holds, where it is; a verdict is there only at its end.
TestConsistent ==
    /\ test.root <=> At("lookup")
    /\ test.dfile <=> At("present")
    /\ test.buffers => test.pc \notin {"idle", "drivers", "lookup", "present",
                                      "allocate"}
    /\ test.file # None <=> test.pc \in {"write", "mount", "close"}
    /\ test.pc \in {"lookup", "present"} => test.driver <= Len(DriverFile)
    /\ test.pc \in {"drivers", "lookup", "present"} => test.failures = 0
    /\ ~ At("idle") => test.failures <= 1 /\ test.result = "none"

\* Ok and the device: Ok is TRUE from a round trip to a Destroy that fails.
DeviceConsistent ==
    /\ test.pc \in {"read", "destroy"} =>
          test.handle # None /\ mounted[test.handle] # None
    /\ At("destroy") /\ test.ok => test.trip
    /\ test.pc \in {"close", "delete"} /\ test.ok =>
          test.trip /\ test.handle # None /\ mounted[test.handle] = None
    /\ test.pc \notin {"idle", "destroy", "close", "delete"} => ~ test.ok

\* The driver with this number is found where it is looked for.
Found(i) ==
    LET target == LookedUp(place.path, DriverFile[i])
    IN  target # {} /\ target \subseteq place.tree

\* What the second item knows of the drivers it has been through.
DriversSeen ==
    /\ test.pc \in {"drivers", "lookup", "present"} /\ test.all =>
          \A i \in 1..(test.driver - 1) : Found(i)
    /\ At("lookup") => Target # {}
    /\ At("present") => Found(test.driver)
    /\ \/ test.result = "ALL PASS"
       \/ /\ test.pc \notin {"idle", "drivers", "lookup", "present"}
          /\ test.failures = 0
       => \A i \in DOMAIN DriverFile : Found(i)

\* The inductive invariant.
TestIInv == SelfTestTypeOK /\ FilesHeld /\ TestConsistent /\ DeviceConsistent

\* What holds of the tests at all times: the types, with the count of failed
\* items, what a test knows of the drivers, and that it leaves nothing but
\* devices it could not destroy.
SelfTestInv == TestIInv /\ NothingElseLeft /\ DriversSeen

\* A test uses the factory as its contract says: single Mount and Unmount
\* steps on files that are open, and no file closed while a device is over
\* it, whatever earlier tests left behind.
Registry == INSTANCE LoopRegistry

RegistryUse == Registry!RegSpec
=============================================================================
