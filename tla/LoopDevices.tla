---------------------------- MODULE LoopDevices ----------------------------
(***************************************************************************)
(* What mount.efi does with loop devices in one boot, put together from    *)
(* the components of MountPkg/Application/Mount: "mount selftest", and     *)
(* MountRunIso of LoopDisk.c for one image: LoopCreate makes the device,   *)
(* MountLoadDriver provides the driver for its file system, and whoever    *)
(* connects to the device reads it through its BlockIo.                    *)
(*                                                                         *)
(* The parts share no variable.  What one hands to the next is the device: *)
(* the number of its blocks and the size of its file are those LoopCreate  *)
(* has found.  As no step of one part can disturb another, they are taken  *)
(* one after the other: self-tests, or LoopCreate over all images and with *)
(* all its failures; and once the image Followed is mounted, its driver or *)
(* its data.  A state of a part is reached here just when it is reached in *)
(* that part's own specification.                                          *)
(***************************************************************************)
EXTENDS LoopCreate, LoopIo, FsDriver, SelfTest

CONSTANTS
    Followed,    \* the image whose device is read
    Home         \* the place of mount.efi when it mounts that image

ASSUME FollowedAssumption ==
    /\ Followed \in Images
    /\ BlockSize = LOOP_BLOCK_SIZE
    /\ LastBlock = LastBlockOf(Followed.size)
    /\ BackingSize = Followed.size
    /\ Home \in Places

deviceVars == <<createVars, driverVars, ioVars, selfVars>>

-----------------------------------------------------------------------------
\* A driver disk as shipped: every file loads.  (The user may change it.)
FilesShipped == files = [f \in Driver |-> "good"]

DriversAtRest == DriverInit /\ FilesShipped

\* LoopCreate has returned, with the loop driver it loaded for this call.
Mounted == Created /\ call.img = Followed /\ call.read /\ call.image = "running"

DevicesInit == CreateInit /\ DriversAtRest /\ IoInit /\ SelfTestInit

RunSelfTest ==
    /\ CreateInit
    /\ SelfTestNext
    /\ UNCHANGED <<createVars, driverVars, ioVars>>

MakeDevice ==
    /\ SelfTestInit /\ place = Home
    /\ DriversAtRest /\ IoInit
    /\ CreateNext
    /\ UNCHANGED <<driverVars, ioVars, selfVars>>

ProvideDriver ==
    /\ Mounted /\ IoInit
    /\ DriverNext
    /\ UNCHANGED <<createVars, ioVars, selfVars>>

UseDevice ==
    /\ Mounted /\ DriversAtRest
    /\ IoNext
    /\ UNCHANGED <<createVars, driverVars, selfVars>>

DevicesNext == RunSelfTest \/ MakeDevice \/ ProvideDriver \/ UseDevice

DevicesSpec == DevicesInit /\ [][DevicesNext]_deviceVars
=============================================================================
