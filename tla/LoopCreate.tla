----------------------------- MODULE LoopCreate -----------------------------
(***************************************************************************)
(* LoopCreate and MountLoopFactoryGet of                                   *)
(* MountPkg/Application/Mount/LoopDisk.c: validate an image file, find or  *)
(* load the resident loop driver, ask its factory for a device.  One       *)
(* action per service call or early return; what is at stake is what each  *)
(* of the many exits releases and what the device is told.                 *)
(*                                                                         *)
(* The calls repeat: every mount -ISO and every selftest makes one.  The   *)
(* factory's own steps are in LoopFactory; here Create succeeds or fails.  *)
(***************************************************************************)
EXTENDS LoopImage

CONSTANT
    Images       \* the image files a caller may name

ASSUME ImagesAssumption ==
    /\ Images \subseteq ImageFile
    /\ Images # {}

VARIABLES
    call,      \* the LoopCreate call: its locals and outputs
    resident   \* the loop driver is resident: its factory can be located

createVars == <<call, resident>>

NoDevice == -1     \* no device has been created: *LoopHandle is NULL

\* Outputs cleared, nothing opened or allocated.
NewCall(i) ==
    [pc        |-> "idle",
     img       |-> i,          \* the file IsoPath names
     file      |-> "closed",   \* "open", or "lent" once the factory owns it
     info      |-> FALSE,      \* the EFI_FILE_INFO buffer is held
     path      |-> FALSE,      \* the file's device path is held
     read      |-> FALSE,      \* LoopSniff met no file-system error
     sniff     |-> [iso |-> FALSE, udf |-> FALSE],   \* *Iso9660, *Udf
     image     |-> "none",     \* the driver image LoadImage made for this
                               \* call: "loaded", "running", or unloaded
     lastBlock |-> NoDevice,   \* of the device created
     status    |-> "NONE"]

CallAt(p) == call.pc = p

-----------------------------------------------------------------------------
CreateInit ==
    /\ call = NewCall(CHOOSE i \in Images : TRUE)     \* any: none is named yet
    /\ resident = FALSE

OpenImage(i) ==
    /\ CallAt("idle")
    /\ call' = [NewCall(i) EXCEPT !.pc = "stat", !.file = "open"]
    /\ UNCHANGED resident

OpenFails(i) ==
    /\ CallAt("idle")
    /\ call' = [NewCall(i) EXCEPT !.status = "ISO_ERROR"]
    /\ UNCHANGED resident

AllocateInfo ==
    /\ CallAt("stat")
    /\ call' = [call EXCEPT !.pc = "getinfo", !.info = TRUE]
    /\ UNCHANGED resident

AllocateInfoFails ==
    /\ CallAt("stat")
    /\ call' = [call EXCEPT !.pc = "idle", !.file = "closed",
                            !.status = "OUT_OF_RESOURCES"]
    /\ UNCHANGED resident

GetInfoOk ==
    /\ CallAt("getinfo")
    /\ call' = [call EXCEPT !.pc = "validate", !.info = FALSE]
    /\ UNCHANGED resident

GetInfoFails ==
    /\ CallAt("getinfo")
    /\ call' = [call EXCEPT !.pc = "idle", !.info = FALSE, !.file = "closed",
                            !.status = "ISO_ERROR"]
    /\ UNCHANGED resident

TooSmall ==
    /\ CallAt("validate")
    /\ ~ BigEnough(call.img.size)
    /\ call' = [call EXCEPT !.pc = "idle", !.file = "closed",
                            !.status = "ISO_ERROR"]
    /\ UNCHANGED resident

\* A tail shorter than a block is only warned about.  A file-system error
\* while sniffing leaves both flags clear and does not stop the call.
LoopSniff ==
    /\ CallAt("validate")
    /\ BigEnough(call.img.size)
    /\ \/ call' = [call EXCEPT !.pc = "path", !.read = TRUE,
                               !.sniff = [iso |-> Iso9660(call.img),
                                          udf |-> Udf(call.img)]]
       \/ call' = [call EXCEPT !.pc = "path"]
    /\ UNCHANGED resident

MountIsoFileDevicePath ==
    /\ CallAt("path")
    /\ call' = [call EXCEPT !.pc = "locate", !.path = TRUE]
    /\ UNCHANGED resident

PathFails ==
    /\ CallAt("path")
    /\ call' = [call EXCEPT !.pc = "idle", !.file = "closed",
                            !.status = "ISO_ERROR"]
    /\ UNCHANGED resident

-----------------------------------------------------------------------------
(* MountLoopFactoryGet *)

LocateFactory ==
    /\ CallAt("locate")
    /\ call' = [call EXCEPT !.pc = IF resident THEN "create" ELSE "load"]
    /\ UNCHANGED resident

\* What LoopCreate does when no factory could be had, or Create failed; img
\* is what has become of the driver image.
FailsLeaving(s, img) ==
    call' = [call EXCEPT !.pc = "idle", !.path = FALSE, !.file = "closed",
                         !.image = img, !.status = s]

Fails(s) == FailsLeaving(s, call.image)

LoopPathFails ==
    /\ CallAt("load")
    /\ Fails("OTHER_ERROR")
    /\ UNCHANGED resident

LoadLoopOk ==
    /\ CallAt("load")
    /\ call' = [call EXCEPT !.pc = "start", !.image = "loaded"]
    /\ UNCHANGED resident

\* Variant: the firmware's own status reaches the caller.
LoadLoopFailsRaw ==
    /\ CallAt("load")
    /\ Fails("LOAD_ERROR")
    /\ UNCHANGED resident

LoadLoopFails ==
    /\ CallAt("load")
    /\ Fails("DRIVER_MISSING")
    /\ UNCHANGED resident

\* EFI_SECURITY_VIOLATION leaves the image loaded; nobody unloads it.
LoadLoopRefused ==
    /\ CallAt("load")
    /\ FailsLeaving("SECURE_BOOT", "loaded")
    /\ UNCHANGED resident

\* The entry point installs the factory and the image stays.
StartLoopOk ==
    /\ CallAt("start")
    /\ call' = [call EXCEPT !.pc = "create", !.image = "running"]
    /\ resident' = TRUE

\* Variant: the image whose entry point failed is not unloaded.
StartLoopFailsKeeps ==
    /\ CallAt("start")
    /\ Fails("DRIVER_MISSING")
    /\ UNCHANGED resident

\* The entry point failed: UnloadImage.
StartLoopFails ==
    /\ CallAt("start")
    /\ FailsLeaving("DRIVER_MISSING", "none")
    /\ UNCHANGED resident

\* The file of that name is some other driver: it runs, publishes no factory,
\* and stays.
NoFactoryPublished ==
    /\ CallAt("start")
    /\ FailsLeaving("DRIVER_MISSING", "running")
    /\ UNCHANGED resident

-----------------------------------------------------------------------------
FactoryCreateOk ==
    /\ CallAt("create")
    /\ call' = [call EXCEPT !.pc = "idle", !.path = FALSE, !.file = "lent",
                            !.lastBlock = LastBlockOf(call.img.size),
                            !.status = "SUCCESS"]
    /\ UNCHANGED resident

FactoryCreateFails ==
    /\ CallAt("create")
    /\ Fails("OTHER_ERROR")
    /\ UNCHANGED resident

MountLoopFactoryGet ==
    \/ LocateFactory
    \/ LoopPathFails \/ LoadLoopOk \/ LoadLoopFails \/ LoadLoopRefused
    \/ StartLoopOk \/ StartLoopFails \/ NoFactoryPublished

CreateNext ==
    \/ \E i \in Images : OpenImage(i) \/ OpenFails(i)
    \/ AllocateInfo \/ AllocateInfoFails
    \/ GetInfoOk \/ GetInfoFails
    \/ TooSmall
    \/ LoopSniff
    \/ MountIsoFileDevicePath \/ PathFails
    \/ MountLoopFactoryGet
    \/ FactoryCreateOk \/ FactoryCreateFails

CreateSpec == CreateInit /\ [][CreateNext]_createVars

-----------------------------------------------------------------------------
(* Properties *)

Created == call.pc = "idle" /\ call.status = "SUCCESS"

\* What a call's locals and outputs may be.
CreateCall ==
    [pc : {"idle", "stat", "getinfo", "validate", "path", "locate", "load",
           "start", "create"},
     img : Images, file : {"closed", "open", "lent"},
     info : BOOLEAN, path : BOOLEAN, read : BOOLEAN,
     sniff : [iso : BOOLEAN, udf : BOOLEAN],
     image : {"none", "loaded", "running"},
     lastBlock : Nat \union {NoDevice},
     status : {"NONE", "SUCCESS", "OUT_OF_RESOURCES", "ISO_ERROR",
               "DRIVER_MISSING", "SECURE_BOOT", "OTHER_ERROR"}]

\* Type invariant; every exit has a status the caller's EFI_ERROR or STATUS_*
\* test understands, and the block count fits a UINT64.
CreateTypeOK ==
    /\ call \in CreateCall
    /\ call.lastBlock < WordSpan
    /\ resident \in BOOLEAN

\* What every exit leaves: both buffers freed; the file the factory's,
\* exactly when there is a device, and closed otherwise; the driver image
\* unloaded, or running with its factory there to be found.  Two exits leave
\* more, each told by its status: the image Secure Boot refused stays loaded
\* although it can never run, and a driver that publishes no factory goes on
\* running.
ExitsSettled ==
    call.pc = "idle" =>
        /\ ~ call.info /\ ~ call.path
        /\ call.file = IF Created THEN "lent" ELSE "closed"
        /\ Created <=> call.lastBlock # NoDevice
        /\ call.image = "loaded" <=> call.status = "SECURE_BOOT"
        /\ call.image = "running" => resident \/ call.status = "DRIVER_MISSING"

\* The comment in front of LoopCreate: on failure everything touched here is
\* closed or freed.
FailureFreesAll ==
    call.pc = "idle" /\ ~ Created =>
        ~ call.info /\ ~ call.path /\ call.file = "closed"
        /\ call.image # "loaded"

\* A device never reaches beyond its file, never drops a whole block of it,
\* and LastBlockOf never wraps: the size check comes before the subtraction.
DeviceInsideFile ==
    Created =>
        LET blocks == call.lastBlock + 1
        IN  /\ blocks * LOOP_BLOCK_SIZE <= call.img.size
            /\ call.img.size < (blocks + 1) * LOOP_BLOCK_SIZE

\* Of an image that has the six blocks it reads, the sniff reports ISO9660
\* exactly, finds every UDF whose extended area starts no later than
\* sector 18, and reports UDF only where a BEA01 or NSR descriptor stands.
SniffExact ==
    call.read /\ SniffReads(call.img) =>
        /\ call.sniff.iso <=> HoldsIso(call.img)
        /\ (\E s \in 16..18 : ExtendedAreaAt(call.img, s)) => call.sniff.udf
        /\ call.sniff.udf => \E s \in 16..19 : call.img.id[s] \in
                                               {"BEA01", "NSR02", "NSR03"}

-----------------------------------------------------------------------------
(* The inductive invariant behind the properties above *)

\* What the locals of the call say at each of its points.
CallHolds ==
    /\ call.pc = "start" <=> call.image = "loaded" /\ call.pc # "idle"
    /\ call.image = "running" /\ call.pc # "idle" => resident
    /\ call.info <=> call.pc = "getinfo"
    /\ call.path <=> call.pc \in {"locate", "load", "start", "create"}
    /\ call.pc # "idle" => /\ call.file = "open"
                           /\ call.lastBlock = NoDevice
                           /\ call.status = "NONE"
    /\ call.pc \in {"path", "locate", "load", "start", "create"} =>
          BigEnough(call.img.size)
    /\ call.read => /\ call.sniff.iso <=> Iso9660(call.img)
                    /\ call.sniff.udf <=> Udf(call.img)

CreateInv == CreateTypeOK /\ CallHolds /\ ExitsSettled /\ DeviceInsideFile
=============================================================================
