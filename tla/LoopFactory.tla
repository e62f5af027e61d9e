---------------------------- MODULE LoopFactory ----------------------------
(***************************************************************************)
(* The resident loop-device driver, MountPkg/Drivers/LoopDxe/LoopDxe.c:    *)
(* the factory that installs a read-only block device over an open image   *)
(* file and takes it away again, together with the two parties that share  *)
(* its state: the application that owns the file before Create and after   *)
(* Destroy, and the firmware drivers that bind the published BlockIo.      *)
(*                                                                         *)
(* Boot services are single-threaded, so at most one factory call is       *)
(* running; but the firmware runs protocol-notify callbacks and driver     *)
(* Start/Stop inside the Install and Uninstall services a call makes.  A   *)
(* call is therefore a sequence of steps, one per service call, and        *)
(* drivers may bind or let go of a device between any two of them.         *)
(***************************************************************************)
EXTENDS Integers, FiniteSets

CONSTANTS
    Handle,         \* the firmware's handles
    ForeignHandle,  \* those that carry the BlockIo of some other driver
    File,           \* open-file objects (EFI_FILE_PROTOCOL instances)
    Image,          \* image files, named by their full device path
    ImageOf,        \* the image file each open-file object reads
    Disk,           \* pool allocations a LOOP_DISK can live in
    NodeSpan,       \* values of the vendor node's sequence byte: 256
    MaxSeq,         \* bound of the model: Create calls in one boot session
    None,           \* NULL
    ForeignIo       \* a BlockIo interface that is not a LOOP_DISK's

ASSUME ConstantsAssumption ==
    /\ ForeignHandle \subseteq Handle
    /\ ImageOf \in [File -> Image]
    /\ NodeSpan \in Nat \ {0}
    /\ MaxSeq \in Nat
    /\ None \notin Handle \union File \union Disk
    /\ None \notin Image \X (0..(NodeSpan - 1))
    /\ ForeignIo \notin Disk \union {None}

VARIABLES
    resident,   \* the factory protocol is installed (mFactoryHandle)
    mLoopSeq,   \* the driver-global sequence counter
    allocated,  \* the Disk slots AllocateZeroPool has handed out
    pathPool,   \* the slots whose appended device path is allocated
    heap,       \* the LOOP_DISK structure in each slot, zeroes when free
    blockIo,    \* the interface behind EFI_BLOCK_IO_PROTOCOL on each handle
    bound,      \* LOOP_DISKs whose BlockIo pointer a firmware driver holds
    owner,      \* who must close each file: "closed", "caller", "factory"
    call        \* the factory call in progress, or the last one's result

vars == <<resident, mLoopSeq, allocated, pathPool, heap, blockIo, bound,
          owner, call>>

-----------------------------------------------------------------------------
(* Data *)

VendorNodeNoCast(seq) == seq             \* variant: the cast is forgotten

VendorNode(seq) == seq % NodeSpan        \* Data4[7] = (UINT8)Disk->Seq

DevicePath == Image \X (0..(NodeSpan - 1))

LoopDisk == [BackingFile : File \union {None},
             Seq         : 0..MaxSeq,
             DevicePath  : DevicePath \union {None},
             Handle      : Handle \union {None}]

\* A LOOP_DISK as Create first fills it, and as AllocateZeroPool left it.
NewDisk(f, seq) == [BackingFile |-> f, Seq |-> seq, DevicePath |-> None,
                    Handle |-> None]

ZeroDisk == NewDisk(None, 0)

Status == {"NONE", "SUCCESS", "INVALID_PARAMETER", "OUT_OF_RESOURCES",
           "ALREADY_STARTED", "NOT_FOUND", "ACCESS_DENIED"}

\* Where a call stands: about to append the vendor node, to install the
\* protocols, to return the handle; to uninstall, to hand the file back.
CreatePc  == {"append", "install", "return"}
DestroyPc == {"uninstall", "handback"}

Call == [pc     : {"idle"} \union CreatePc \union DestroyPc,
         op     : {"none", "create", "destroy"},
         disk   : Disk \union {None},
         file   : File \union {None},
         handle : Handle \union {None},
         status : Status]

NoCall == [pc |-> "idle", op |-> "none", disk |-> None, file |-> None,
           handle |-> None, status |-> "NONE"]

Idle == call.pc = "idle"

Running(pc, op, disk, file, handle) ==
    [pc |-> pc, op |-> op, disk |-> disk, file |-> file, handle |-> handle,
     status |-> "NONE"]

\* The result a call leaves behind: what the caller learns of it.
Returned(op, file, handle, status) ==
    [pc |-> "idle", op |-> op, disk |-> None, file |-> file,
     handle |-> handle, status |-> status]

Published(d) == \E h \in Handle : blockIo[h] = d

PublishedPaths == {heap[d].DevicePath : d \in {e \in Disk : Published(e)}}

FreeDisk(d) ==
    /\ allocated' = allocated \ {d}
    /\ heap' = [heap EXCEPT ![d] = ZeroDisk]

-----------------------------------------------------------------------------
Init ==
    /\ resident = FALSE
    /\ mLoopSeq = 0
    /\ allocated = {}
    /\ pathPool = {}
    /\ heap = [d \in Disk |-> ZeroDisk]
    /\ blockIo = [h \in Handle |->
                     IF h \in ForeignHandle THEN ForeignIo ELSE None]
    /\ bound = {}
    /\ owner = [f \in File |-> "closed"]
    /\ call = NoCall

\* LoopDxeEntry: publish the factory.  A failed install leaves nothing and
\* unloads the image, which is a stuttering step here.
LoopDxeEntry ==
    /\ ~resident
    /\ resident' = TRUE
    /\ UNCHANGED <<mLoopSeq, allocated, pathPool, heap, blockIo, bound,
                   owner, call>>

-----------------------------------------------------------------------------
(* LoopFactoryCreate *)

\* A NULL file is refused before anything is touched.
CreateInvalid ==
    /\ Idle /\ resident
    /\ call' = Returned("create", None, None, "INVALID_PARAMETER")
    /\ UNCHANGED <<resident, mLoopSeq, allocated, pathPool, heap, blockIo,
                   bound, owner>>

CreateNoMemory(f) ==
    /\ Idle /\ resident
    /\ owner[f] = "caller"
    /\ call' = Returned("create", f, None, "OUT_OF_RESOURCES")
    /\ UNCHANGED <<resident, mLoopSeq, allocated, pathPool, heap, blockIo,
                   bound, owner>>

\* Variant: the counter is read but not advanced.
CreateBeginSameSeq(f, d) ==
    /\ Idle /\ resident
    /\ owner[f] = "caller"
    /\ d \notin allocated
    /\ allocated' = allocated \union {d}
    /\ heap' = [heap EXCEPT ![d] = NewDisk(f, mLoopSeq)]
    /\ call' = Running("append", "create", d, f, None)
    /\ UNCHANGED <<resident, mLoopSeq, pathPool, blockIo, bound, owner>>

\* Allocate the LOOP_DISK, draw the next sequence number, fill the fields.
CreateBegin(f, d) ==
    /\ Idle /\ resident
    /\ owner[f] = "caller"
    /\ d \notin allocated
    /\ mLoopSeq < MaxSeq
    /\ mLoopSeq' = mLoopSeq + 1
    /\ allocated' = allocated \union {d}
    /\ heap' = [heap EXCEPT ![d] = NewDisk(f, mLoopSeq + 1)]
    /\ call' = Running("append", "create", d, f, None)
    /\ UNCHANGED <<resident, pathPool, blockIo, bound, owner>>

\* AppendDevicePathNode: the image's own path plus the vendor node.
AppendPath ==
    /\ call.pc = "append"
    /\ pathPool' = pathPool \union {call.disk}
    /\ heap' = [heap EXCEPT ![call.disk].DevicePath =
                   <<ImageOf[call.file], VendorNode(heap[call.disk].Seq)>>]
    /\ call' = [call EXCEPT !.pc = "install"]
    /\ UNCHANGED <<resident, mLoopSeq, allocated, blockIo, bound, owner>>

AppendFailed ==
    /\ call.pc = "append"
    /\ FreeDisk(call.disk)
    /\ call' = Returned("create", call.file, None, "OUT_OF_RESOURCES")
    /\ UNCHANGED <<resident, mLoopSeq, pathPool, blockIo, bound, owner>>

\* InstallMultipleProtocolInterfaces on a fresh handle.  The firmware puts
\* the three protocols up at TPL_NOTIFY, so nobody sees some of them, and
\* refuses a device path another handle already has.
InstallOk(h) ==
    /\ call.pc = "install"
    /\ blockIo[h] = None
    /\ heap[call.disk].DevicePath \notin PublishedPaths
    /\ blockIo' = [blockIo EXCEPT ![h] = call.disk]
    /\ heap' = [heap EXCEPT ![call.disk].Handle = h]
    /\ call' = [call EXCEPT !.pc = "return"]
    /\ UNCHANGED <<resident, mLoopSeq, allocated, pathPool, bound, owner>>

\* Variant: the error path forgets FreePool (Disk->DevicePath).
InstallFailedLeaks(status) ==
    /\ call.pc = "install"
    /\ status = "ALREADY_STARTED" =>
          heap[call.disk].DevicePath \in PublishedPaths
    /\ FreeDisk(call.disk)
    /\ call' = Returned("create", call.file, None, status)
    /\ UNCHANGED <<resident, mLoopSeq, pathPool, blockIo, bound, owner>>

\* Variant: the error path keeps the file it was lent.
InstallFailedKeepsFile(status) ==
    /\ call.pc = "install"
    /\ status = "ALREADY_STARTED" =>
          heap[call.disk].DevicePath \in PublishedPaths
    /\ pathPool' = pathPool \ {call.disk}
    /\ FreeDisk(call.disk)
    /\ owner' = [owner EXCEPT ![call.file] = "closed"]
    /\ call' = Returned("create", call.file, None, status)
    /\ UNCHANGED <<resident, mLoopSeq, blockIo, bound>>

\* The service failed: both pools are freed and its status is returned.
InstallFailed(status) ==
    /\ call.pc = "install"
    /\ status = "ALREADY_STARTED" =>
          heap[call.disk].DevicePath \in PublishedPaths
    /\ pathPool' = pathPool \ {call.disk}
    /\ FreeDisk(call.disk)
    /\ call' = Returned("create", call.file, None, status)
    /\ UNCHANGED <<resident, mLoopSeq, blockIo, bound, owner>>

\* *LoopHandle = Disk->Handle: from here on the factory owns the file.
CreateReturn ==
    /\ call.pc = "return"
    /\ owner' = [owner EXCEPT ![call.file] = "factory"]
    /\ call' = Returned("create", call.file, heap[call.disk].Handle,
                        "SUCCESS")
    /\ UNCHANGED <<resident, mLoopSeq, allocated, pathPool, heap, blockIo,
                   bound>>

-----------------------------------------------------------------------------
(* LoopFactoryDestroy *)

\* No BlockIo on the handle, or one whose Signature is not LOOP_DISK_SIG.
DestroyNotFound(h) ==
    /\ Idle /\ resident
    /\ blockIo[h] \notin Disk
    /\ call' = Returned("destroy", None, h, "NOT_FOUND")
    /\ UNCHANGED <<resident, mLoopSeq, allocated, pathPool, heap, blockIo,
                   bound, owner>>

DestroyBegin(h) ==
    /\ Idle /\ resident
    /\ blockIo[h] \in Disk
    /\ call' = Running("uninstall", "destroy", blockIo[h], None, h)
    /\ UNCHANGED <<resident, mLoopSeq, allocated, pathPool, heap, blockIo,
                   bound, owner>>

\* Variant: the status of the uninstall service is ignored.
UninstallFailedIgnored ==
    /\ call.pc = "uninstall"
    /\ call.disk \in bound
    /\ call' = [call EXCEPT !.pc = "handback"]
    /\ UNCHANGED <<resident, mLoopSeq, allocated, pathPool, heap, blockIo,
                   bound, owner>>

\* Variant: *BackingFile is set before the uninstall is known to succeed.
UninstallFailedHandsBack ==
    /\ call.pc = "uninstall"
    /\ call.disk \in bound
    /\ owner' = [owner EXCEPT ![heap[call.disk].BackingFile] = "caller"]
    /\ call' = Returned("destroy", heap[call.disk].BackingFile, call.handle,
                        "ACCESS_DENIED")
    /\ UNCHANGED <<resident, mLoopSeq, allocated, pathPool, heap, blockIo,
                   bound>>

\* A driver that holds the interface refuses to stop: the firmware puts
\* every protocol back and Destroy returns with nothing changed.
UninstallFailed ==
    /\ call.pc = "uninstall"
    /\ call.disk \in bound
    /\ call' = Returned("destroy", None, call.handle, "ACCESS_DENIED")
    /\ UNCHANGED <<resident, mLoopSeq, allocated, pathPool, heap, blockIo,
                   bound, owner>>

\* UninstallMultipleProtocolInterfaces disconnects every driver first.
UninstallOk ==
    /\ call.pc = "uninstall"
    /\ blockIo' = [blockIo EXCEPT ![heap[call.disk].Handle] = None]
    /\ bound' = bound \ {call.disk}
    /\ call' = [call EXCEPT !.pc = "handback"]
    /\ UNCHANGED <<resident, mLoopSeq, allocated, pathPool, heap, owner>>

\* Variant: the LOOP_DISK is freed, the file is never handed back.
HandBackNothing ==
    /\ call.pc = "handback"
    /\ pathPool' = pathPool \ {call.disk}
    /\ FreeDisk(call.disk)
    /\ call' = Returned("destroy", None, call.handle, "SUCCESS")
    /\ UNCHANGED <<resident, mLoopSeq, blockIo, bound, owner>>

\* *BackingFile = Disk->BackingFile, then both pools are freed.  No caller
\* passes a NULL BackingFile, so the file always finds an owner.
HandBack ==
    /\ call.pc = "handback"
    /\ owner' = [owner EXCEPT ![heap[call.disk].BackingFile] = "caller"]
    /\ pathPool' = pathPool \ {call.disk}
    /\ FreeDisk(call.disk)
    /\ call' = Returned("destroy", heap[call.disk].BackingFile, call.handle,
                        "SUCCESS")
    /\ UNCHANGED <<resident, mLoopSeq, blockIo, bound>>

-----------------------------------------------------------------------------
(* The application and the firmware's drivers *)

\* ShellOpenFileByName in LoopCreate.
OpenFile(f) ==
    /\ Idle
    /\ owner[f] = "closed"
    /\ owner' = [owner EXCEPT ![f] = "caller"]
    /\ UNCHANGED <<resident, mLoopSeq, allocated, pathPool, heap, blockIo,
                   bound, call>>

\* ShellCloseFile: after a failed Create, and after Destroy gave it back.
CloseFile(f) ==
    /\ Idle
    /\ owner[f] = "caller"
    /\ owner' = [owner EXCEPT ![f] = "closed"]
    /\ UNCHANGED <<resident, mLoopSeq, allocated, pathPool, heap, blockIo,
                   bound, call>>

\* ConnectController: a driver opens the BlockIo it finds on the handle.
Bind(h) ==
    /\ blockIo[h] \in Disk \ bound
    /\ bound' = bound \union {blockIo[h]}
    /\ UNCHANGED <<resident, mLoopSeq, allocated, pathPool, heap, blockIo,
                   owner, call>>

\* DisconnectController: the driver stops and lets go of the interface.
Unbind(d) ==
    /\ d \in bound
    /\ bound' = bound \ {d}
    /\ UNCHANGED <<resident, mLoopSeq, allocated, pathPool, heap, blockIo,
                   owner, call>>

-----------------------------------------------------------------------------
Create ==
    \/ CreateInvalid
    \/ \E f \in File : CreateNoMemory(f)
    \/ \E f \in File, d \in Disk : CreateBegin(f, d)
    \/ AppendPath
    \/ AppendFailed
    \/ \E h \in Handle : InstallOk(h)
    \/ \E s \in {"ALREADY_STARTED", "OUT_OF_RESOURCES"} : InstallFailed(s)
    \/ CreateReturn

Destroy ==
    \/ \E h \in Handle : DestroyNotFound(h)
    \/ \E h \in Handle : DestroyBegin(h)
    \/ UninstallFailed
    \/ UninstallOk
    \/ HandBack

Environment ==
    \/ \E f \in File : OpenFile(f)
    \/ \E f \in File : CloseFile(f)
    \/ \E h \in Handle : Bind(h)
    \/ \E d \in Disk : Unbind(d)

Next == LoopDxeEntry \/ Create \/ Destroy \/ Environment

Spec == Init /\ [][Next]_vars

-----------------------------------------------------------------------------
(* Properties *)

\* Type invariant: in particular the vendor node's sequence field is one
\* byte wide and no structure carries a sequence number not yet drawn.
TypeOK ==
    /\ resident \in BOOLEAN
    /\ mLoopSeq \in 0..MaxSeq
    /\ allocated \in SUBSET Disk
    /\ pathPool \in SUBSET Disk
    /\ heap \in [Disk -> LoopDisk]
    /\ blockIo \in [Handle -> Disk \union {None, ForeignIo}]
    /\ bound \in SUBSET Disk
    /\ owner \in [File -> {"closed", "caller", "factory"}]
    /\ call \in Call

\* Whatever a handle publishes is a live, completely filled LOOP_DISK that
\* points back at the handle, over a file nobody has closed.  The code
\* fills the structure before the install and frees it after the
\* uninstall; a read callback may run at any moment in between.
PublishedIntact ==
    \A h \in Handle : blockIo[h] \in Disk =>
        LET disk == heap[blockIo[h]]
        IN  /\ blockIo[h] \in allocated \intersect pathPool
            /\ disk.Handle = h
            /\ disk.BackingFile \in File
            /\ owner[disk.BackingFile] # "closed"
            /\ disk.DevicePath = <<ImageOf[disk.BackingFile],
                                   VendorNode(disk.Seq)>>

\* A firmware driver never holds the BlockIo of a LOOP_DISK that has been
\* freed or is no longer published: Destroy frees only after a successful
\* uninstall, and a refused one leaves the device alone.
BindingsLive == \A d \in bound : Published(d) /\ d \in allocated

\* No pool leaks: what is allocated is published, or belongs to the call
\* in progress, on every error path of Create and of Destroy.
NoLeak ==
    allocated \union pathPool \subseteq
        {d \in Disk : Published(d)} \union {call.disk}

\* A file is the factory's to keep open exactly while one LOOP_DISK is
\* backed by it (a Create that has not returned still only borrows it),
\* and no two LOOP_DISKs ever share a file.
OneOwner ==
    /\ \A d, e \in Disk : heap[d].BackingFile = heap[e].BackingFile
                            /\ heap[d].BackingFile # None => d = e
    /\ \A f \in File :
           owner[f] = "factory" <=>
               \E d \in Disk : /\ heap[d].BackingFile = f
                              /\ ~ (call.disk = d /\ call.pc \in CreatePc)

\* The firmware can refuse a Create for a duplicate device path only after
\* the driver has used up every value of the sequence byte once.
RefusedOnlyAfterWrap ==
    call.status = "ALREADY_STARTED" => mLoopSeq > NodeSpan

\* Create either hands over the file and returns a handle that publishes
\* it, or returns no handle and leaves the caller owning a file that no
\* LOOP_DISK refers to (LoopCreate then closes it).
CreateAllOrNothing ==
    [][call.pc \in CreatePc /\ call'.pc = "idle" =>
         IF call'.status = "SUCCESS"
         THEN /\ call'.handle \in Handle
              /\ blockIo'[call'.handle] \in Disk
              /\ heap'[blockIo'[call'.handle]].BackingFile = call.file
              /\ owner'[call.file] = "factory"
         ELSE /\ call'.handle = None
              /\ owner'[call.file] = "caller"
              /\ \A d \in Disk : heap'[d].BackingFile # call.file]_vars

\* While a device stays published its LOOP_DISK never changes under the
\* drivers that use it, and it is withdrawn only when none of them does.
StableWhilePublished ==
    [][\A h \in Handle : blockIo[h] \in Disk =>
         \/ blockIo'[h] = blockIo[h] /\ heap'[blockIo[h]] = heap[blockIo[h]]
         \/ blockIo'[h] = None /\ blockIo[h] \notin bound']_vars

\* What the comments say of the vendor node ("nodes stay unique across any
\* number of mount.efi processes"): two live loop devices never carry the
\* same one.  The cast to UINT8 makes it false.
VendorNodesUnique ==
    \A d, e \in Disk : Published(d) /\ Published(e) /\ d # e =>
        VendorNode(heap[d].Seq) # VendorNode(heap[e].Seq)

-----------------------------------------------------------------------------
(* Refinement: the driver seen from outside *)

MountedFile == [h \in Handle |->
    IF blockIo[h] \in Disk THEN heap[blockIo[h]].BackingFile ELSE None]

OpenFiles == {f \in File : owner[f] # "closed"}

Registry == INSTANCE LoopRegistry
                WITH open <- OpenFiles, mounted <- MountedFile

\* The driver implements the table of mounts: whatever the interleaving of
\* factory steps, error paths and driver bindings, the outside sees single
\* Mount and Unmount steps on open, unshared files.
RegistrySpec == Registry!RegSpec

-----------------------------------------------------------------------------
(* The inductive invariant behind the properties above *)

\* The structures in use, and what each step of a call relies on.
Linked ==
    /\ \A d \in Disk : d \in allocated <=> heap[d].BackingFile # None
    /\ \A d \in allocated : Published(d) \/ d = call.disk
    /\ pathPool \subseteq allocated
    /\ call.pc \in {"append", "install", "handback"} => ~ Published(call.disk)

\* Every structure in use has its own sequence number, already drawn.
SeqUnique ==
    /\ \A d \in allocated : heap[d].Seq \in 1..mLoopSeq
    /\ \A d, e \in allocated : heap[d].Seq = heap[e].Seq => d = e

CallConsistent ==
    /\ call.pc = "idle" => call.disk = None
    /\ call.pc # "idle" => /\ call.disk \in allocated
                           /\ call.status = "NONE"
    /\ call.pc \in CreatePc =>
          /\ call.file = heap[call.disk].BackingFile
          /\ owner[call.file] = "caller"
    /\ call.pc = "append" => call.disk \notin pathPool
    /\ call.pc \in {"install", "return"} =>
          /\ call.disk \in pathPool
          /\ heap[call.disk].DevicePath =
                <<ImageOf[call.file], VendorNode(heap[call.disk].Seq)>>
    /\ call.pc \in {"return", "uninstall"} =>
          /\ heap[call.disk].Handle \in Handle
          /\ blockIo[heap[call.disk].Handle] = call.disk

IInv ==
    /\ TypeOK
    /\ Linked
    /\ SeqUnique
    /\ CallConsistent
    /\ PublishedIntact
    /\ BindingsLive
    /\ OneOwner
    /\ RefusedOnlyAfterWrap
=============================================================================
