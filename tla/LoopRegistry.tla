---------------------------- MODULE LoopRegistry ----------------------------
(***************************************************************************)
(* What the loop-device driver promises, without how it keeps it: a table  *)
(* of mounts.  Mount and Unmount are single steps that either happen or    *)
(* do not; a file backs at most one mount, and while it does it is open    *)
(* and cannot be closed.  MOUNT_LOOP_FACTORY_PROTOCOL in                   *)
(* MountPkg/Include/Protocol/MountLoopFactory.h states this contract.      *)
(***************************************************************************)
CONSTANTS Handle, File, None

VARIABLES
    open,     \* the files that are open
    mounted   \* the file behind each handle, None where there is no mount

regVars == <<open, mounted>>

Unmounted(f) == \A h \in Handle : mounted[h] # f

RegInit ==
    /\ open = {}
    /\ mounted = [h \in Handle |-> None]

Open(f) ==
    /\ open' = open \union {f}
    /\ UNCHANGED mounted

Close(f) ==
    /\ Unmounted(f)
    /\ open' = open \ {f}
    /\ UNCHANGED mounted

Mount(h, f) ==
    /\ f \in open
    /\ Unmounted(f)
    /\ mounted[h] = None
    /\ mounted' = [mounted EXCEPT ![h] = f]
    /\ UNCHANGED open

Unmount(h) ==
    /\ mounted' = [mounted EXCEPT ![h] = None]
    /\ UNCHANGED open

RegNext ==
    \/ \E f \in File : Open(f) \/ Close(f)
    \/ \E h \in Handle, f \in File : Mount(h, f)
    \/ \E h \in Handle : Unmount(h)

RegSpec == RegInit /\ [][RegNext]_regVars
=============================================================================
