---------------------------- MODULE DriverTable ----------------------------
(***************************************************************************)
(* What MountLoadDriver of MountPkg/Application/Mount/FsDriver.c promises, *)
(* without the firmware's image table: each driver is absent, running, or  *)
(* stale - refused by Secure Boot, yet counted as loaded from then on.     *)
(* A call works on one driver, only if that driver is absent (or the call  *)
(* could not look), and nothing else happens to any driver before the call *)
(* returns.  A call never makes a driver absent.                           *)
(***************************************************************************)
CONSTANTS Driver, None

VARIABLES
    driver,   \* the state of each driver
    loading,  \* the driver a call is loading, None when there is no call
    blind     \* the last call could not see what is loaded

tableVars == <<driver, loading, blind>>

DriverState == {"absent", "stale", "running"}

TableInit ==
    /\ driver = [f \in Driver |-> "absent"]
    /\ loading = None
    /\ blind = FALSE

\* A driver that is there already needs no load.
NothingToLoad ==
    /\ loading = None
    /\ blind' = FALSE
    /\ UNCHANGED <<driver, loading>>

BeginLoad(f) ==
    /\ loading = None
    /\ loading' = f
    /\ blind' = (driver[f] # "absent")
    /\ UNCHANGED driver

\* The call returns: the driver runs, was refused, or nothing has changed.
EndLoad ==
    /\ loading # None
    /\ loading' = None
    /\ \E s \in DriverState :
          /\ driver[loading] # "absent" => s \in {driver[loading], "running"}
          /\ driver' = [driver EXCEPT ![loading] = s]
    /\ UNCHANGED blind

\* The shell's user loads or unloads a driver between calls.
ShellChange(f, s) ==
    /\ loading = None
    /\ driver' = [driver EXCEPT ![f] = s]
    /\ UNCHANGED <<loading, blind>>

TableNext ==
    \/ NothingToLoad
    \/ \E f \in Driver : BeginLoad(f)
    \/ EndLoad
    \/ \E f \in Driver, s \in DriverState : ShellChange(f, s)

TableSpec == TableInit /\ [][TableNext]_tableVars
=============================================================================
