--------------------------- MODULE MountRunProofs ---------------------------
(***************************************************************************)
(* Proofs about the runs of mount.efi, for any devices, images, media and  *)
(* command lines.  RunInv of MountRun is inductive; there is one lemma for *)
(* each group of actions that touch the same state.                        *)
(***************************************************************************)
EXTENDS MountRun, FiniteSetTheorems, WellFoundedInduction, TLAPS

\* What does not depend on the run.
WorldOK ==
    /\ media \in [Dev -> (SUBSET FileSystem) \union {None}]
    /\ loops \subseteq Present
    /\ volumes \subseteq Present
    /\ map \in [Name -> Dev \union {None}]
    /\ driver \in [Driver -> DriverState]
    /\ hung \in BOOLEAN
    /\ NamesOneToOne

Status == CreateStatus \union
             {"none", "SUCCESS", "INVALID_PARAMETER", "DEVICE_ERROR"}

LEMMA WorldPart == RunInv => WorldOK
BY DEF RunInv, RunTypeOK, WorldOK

-----------------------------------------------------------------------------
(* Counting: devices, names and handle values *)

LEMMA DevCount == IsFiniteSet(Dev) /\ Cardinality(Dev) \in Nat
BY RunAssumption, FS_CardinalityType

\* There is a name for each slot.
LEMMA NameCount ==
    /\ IsFiniteSet(Name) /\ Cardinality(Name) = Cardinality(Dev)
    /\ Name \subseteq Nat
<1>1. Cardinality(Dev) - 1 \in Int
  BY DevCount
<1>2. /\ IsFiniteSet(0..(Cardinality(Dev) - 1))
      /\ Cardinality(0..(Cardinality(Dev) - 1)) =
            IF 0 > Cardinality(Dev) - 1 THEN 0 ELSE Cardinality(Dev) - 1 - 0 + 1
  BY <1>1, FS_Interval
<1> QED
  BY <1>2, DevCount DEF Name

\* Of a device nobody has named, one name is free: the names that are taken
\* are of different devices, and there are as many names as devices.
LEMMA FreeName ==
    ASSUME WorldOK, NEW d \in Dev, ~ Named(d)
    PROVE  \E n \in Name : map[n] = None
<1> SUFFICES ASSUME \A n \in Name : map[n] # None
             PROVE  FALSE
  OBVIOUS
<1>1. map \in [Name -> Dev \ {d}]
  BY DEF WorldOK, Named
<1>2. /\ IsFiniteSet(Dev \ {d})
      /\ Cardinality(Dev \ {d}) = Cardinality(Dev) - 1
  BY DevCount, FS_RemoveElement
<1>3. Cardinality(Dev \ {d}) < Cardinality(Name)
  BY <1>2, NameCount, DevCount
<1>4. \E m, n \in Name : m # n /\ map[m] = map[n]
  BY <1>1, <1>2, <1>3, NameCount, FS_PigeonHole
<1> QED
  BY <1>4 DEF WorldOK, NamesOneToOne

\* A set of naturals that is not empty has a least element.
LEMMA Least ==
    ASSUME NEW T \in SUBSET Nat, T # {}
    PROVE  \E n \in T : \A m \in T : n <= m
<1>1. \E x \in T : \A y \in T : ~ (<<y, x>> \in OpToRel(<, Nat))
  BY NatLessThanWellFounded, WFMin
<1>2. PICK x \in T : \A y \in T : ~ (<<y, x>> \in OpToRel(<, Nat))
  BY <1>1
<1>3. ASSUME NEW y \in T
      PROVE  x <= y
  <2>1. ~ (<<y, x>> \in OpToRel(<, Nat))
    BY <1>2
  <2>2. x \in Nat /\ y \in Nat
    OBVIOUS
  <2>3. ~ y < x
    BY <2>1, <2>2 DEF OpToRel
  <2> QED
    BY <2>2, <2>3
<1> QED
  BY <1>3

\* The name the refresh gives to a device is free.
LEMMA FirstFreeIsFree ==
    ASSUME WorldOK, NEW d \in Dev, ~ Named(d)
    PROVE  FirstFree \in Name /\ map[FirstFree] = None
<1> DEFINE T == {n \in Name : map[n] = None}
<1>1. T # {} /\ T \in SUBSET Nat
  BY FreeName, NameCount
<1> HIDE DEF T
<1>2. PICK n \in T : \A m \in T : n <= m
  BY <1>1, Least
<1> USE DEF T
<1>3. n \in Name /\ map[n] = None
  BY <1>2
<1>4. \A m \in 0..(n - 1) : m \in Name /\ ~ n <= m
  BY <1>3, DevCount DEF Name
<1>5. \A m \in 0..(n - 1) : map[m] # None
  BY <1>2, <1>4
<1> QED
  BY <1>3, <1>5 DEF FirstFree

-----------------------------------------------------------------------------
(* The firmware's state *)

\* What an image holds are file systems.
LEMMA HoldsType ==
    ASSUME NEW img
    PROVE  Holds(img) \in SUBSET FileSystem
BY DEF Holds, FileSystem

\* A connect adds the volume of a device that is claimed, or nothing.
LEMMA Connected ==
    ASSUME NEW d \in Dev, ConnectController(d), hung \in BOOLEAN, ~ hung
    PROVE  /\ volumes \subseteq volumes' /\ volumes' \subseteq volumes \union {d}
           /\ d \in volumes' => d \in volumes \/ d \in Present
           /\ hung' \in BOOLEAN /\ (hung' => ~ Claimed(d))
BY DEF ConnectController, Claimed, Present

\* Names stay one to one when a device without one gets one nobody has.
LEMMA NameGiven ==
    ASSUME WorldOK, NEW d \in Dev, ~ Named(d), map' = [map EXCEPT ![FirstFree] = d]
    PROVE  /\ map' \in [Name -> Dev \union {None}] /\ NamesOneToOne'
           /\ \A n \in Name : map[n] # None => map'[n] = map[n]
           /\ \A v \in Dev : Named(v)' <=> Named(v) \/ v = d
<1>1. FirstFree \in Name /\ map[FirstFree] = None
  BY FirstFreeIsFree
<1> HIDE DEF FirstFree
<1>2. map \in [Name -> Dev \union {None}] /\ map' \in [Name -> Dev \union {None}]
  BY <1>1 DEF WorldOK
<1>3. \A n \in Name : map'[n] = IF n = FirstFree THEN d ELSE map[n]
  BY <1>1, <1>2
<1>4. NamesOneToOne'
  BY <1>1, <1>3 DEF WorldOK, NamesOneToOne, Named
<1>5. \A v \in Dev : Named(v)' <=> Named(v) \/ v = d
  BY <1>1, <1>3, RunAssumption DEF Named
<1> QED
  BY <1>1, <1>2, <1>3, <1>4, <1>5

\* The types of the firmware's state are kept where only media, loop devices,
\* volumes or drivers change, and change to what they may be.
LEMMA WorldFrame ==
    ASSUME WorldOK, UNCHANGED map,
           media' \in [Dev -> (SUBSET FileSystem) \union {None}],
           loops' \subseteq Present', volumes' \subseteq Present',
           driver' \in [Driver -> DriverState], hung' \in BOOLEAN
    PROVE  WorldOK'
BY DEF WorldOK, NamesOneToOne, Name

\* Every step of the run itself keeps it.
LEMMA WorldRunStep ==
    ASSUME WorldOK, run \in Run, run.what # "none" \/ run.pc # "driver",
           run.pc \in {"connect"} => run.loop \in Dev, RunStep
    PROVE  WorldOK'
<1> USE DEF WorldOK
<1>1. CASE UNCHANGED world
  BY <1>1 DEF world, Present, NamesOneToOne
<1>2. ASSUME NEW d \in Dev, LoopCreateOk(d)
      PROVE  WorldOK'
  <2>1. media' = [media EXCEPT ![d] = Holds(run.img)] /\ media[d] = None
    BY <1>2 DEF LoopCreateOk
  <2>2. media' \in [Dev -> (SUBSET FileSystem) \union {None}]
    BY <2>1, HoldsType
  <2>3. Present' = Present \union {d}
    BY <2>1, HoldsType, RunAssumption DEF Present
  <2> QED
    BY <1>2, <2>2, <2>3, WorldFrame DEF LoopCreateOk
<1>3. CASE DriverLoads \/ DriverFails
  <2>1. Needed \in Driver
    BY <1>3 DEF DriverLoads, DriverFails, At, Needed, Driver, Run
  <2>2. driver' \in [Driver -> DriverState]
    BY <1>3, <2>1 DEF DriverLoads, DriverFails, AfterFailedLoad, DriverState
  <2>3. UNCHANGED <<media, loops, volumes, map, hung>>
    BY <1>3 DEF DriverLoads, DriverFails
  <2> QED
    BY <2>2, <2>3, WorldFrame DEF Present
<1>4. CASE ConnectLoop
  <2>1. volumes' \subseteq Present /\ hung' \in BOOLEAN
    BY <1>4, Connected DEF ConnectLoop, At
  <2> QED
    BY <1>4, <2>1, WorldFrame DEF ConnectLoop, Present
<1>5. ASSUME NEW d \in Dev, ScanHandle(d)
      PROVE  WorldOK'
  <2>1. volumes' \subseteq Present /\ hung' \in BOOLEAN
    BY <1>5, Connected DEF ScanHandle, At
  <2> QED
    BY <1>5, <2>1, WorldFrame DEF ScanHandle, Present
<1>6. ASSUME NEW d \in Dev, NameVolume(d)
      PROVE  WorldOK'
  <2>1. map' \in [Name -> Dev \union {None}] /\ NamesOneToOne'
    BY <1>6, NameGiven DEF NameVolume
  <2> QED
    BY <1>6, <2>1 DEF NameVolume, Present
<1> QED
  BY <1>1, <1>2, <1>3, <1>4, <1>5, <1>6
     DEF RunStep, LoopCreateFails, DriverKnown, Rescan, ScanDone, Refresh,
         RefreshFails, NameDone, NameSkip, SetMapFails, Report, ReportFails

\* So does everything else.
LEMMA WorldEnvironment ==
    ASSUME WorldOK, Environment
    PROVE  WorldOK'
<1> USE DEF WorldOK
<1>1. ASSUME NEW d \in Dev, NEW fs \in Media, Plug(d, fs)
      PROVE  WorldOK'
  <2>1. /\ media' = [media EXCEPT ![d] = fs] /\ media[d] = None
        /\ fs \in SUBSET FileSystem
    BY <1>1, RunAssumption DEF Plug
  <2>2. media' \in [Dev -> (SUBSET FileSystem) \union {None}]
    BY <2>1
  <2>3. Present' = Present \union {d}
    BY <2>1, RunAssumption DEF Present
  <2> QED
    BY <1>1, <2>2, <2>3, WorldFrame DEF Plug
<1>2. ASSUME NEW d \in Dev, Unplug(d)
      PROVE  WorldOK'
  <2>1. media' = [media EXCEPT ![d] = None] /\ d \notin loops
    BY <1>2 DEF Unplug
  <2>2. media' \in [Dev -> (SUBSET FileSystem) \union {None}]
    BY <2>1
  <2>3. Present' = Present \ {d}
    BY <2>1 DEF Present
  <2> QED
    BY <1>2, <2>1, <2>2, <2>3, WorldFrame DEF Unplug
<1>3. CASE ShellMapR
  <2>1. volumes \subseteq Dev
    BY DEF Present
  <2>2. map' \in [Name -> Dev \union {None}] /\ NamesOneToOne'
    BY <1>3, <2>1 DEF ShellMapR, NamesOneToOne
  <2> QED
    BY <1>3, <2>2 DEF ShellMapR, Present
<1>4. ASSUME NEW f \in Driver, ShellLoad(f) \/ ShellUnload(f)
      PROVE  WorldOK'
  <2>1. driver' \in [Driver -> DriverState] /\ UNCHANGED <<media, loops, map, hung>>
    BY <1>4 DEF ShellLoad, ShellUnload, DriverState
  <2>2. \A d \in Dev : Claimed(d)' => d \in Present
    BY <2>1 DEF Claimed, Present
  <2>3. volumes' \subseteq Present
    BY <1>4, <2>2 DEF ShellLoad, ShellUnload
  <2> QED
    BY <2>1, <2>3, WorldFrame DEF Present
<1> QED
  BY <1>1, <1>2, <1>3, <1>4 DEF Environment

\* Of a run that is not there the locals are empty.
LEMMA Idle ==
    /\ NoRun \in Run /\ NoRun.pc = "idle" /\ NoRun.what = "none"
    /\ NoRun.img = None /\ NoRun.loop = None /\ NoRun.old = {} /\ NoRun.freed = 0
    /\ NoRun.before = {} /\ NoRun.reused = {} /\ NoRun.steady = {}
    /\ NoRun.blind = FALSE
<1>1. 0 \in 0..Cardinality(Dev)
  BY DevCount
<1> QED
  BY <1>1 DEF NoRun, Run

\* A call that ends leaves the idle state, in which the invariant says nothing
\* of the run.
LEMMA Ended ==
    ASSUME WorldOK', NEW status \in Status, Exit(status)
    PROVE  RunInv'
<1>1. run' = [NoRun EXCEPT !.status = status]
  BY DEF Exit
<1>2. /\ run'.pc = "idle" /\ run'.what = "none" /\ run'.status = status
      /\ run'.img = None /\ run'.loop = None /\ run'.old = {} /\ run'.freed = 0
      /\ run'.before = {} /\ run'.reused = {} /\ run'.steady = {}
  BY <1>1, Idle
<1>3. run' \in Run
  BY <1>1, Idle DEF Run, Status
<1>4. RunTypeOK' /\ NamesOneToOne'
  BY <1>2, <1>3 DEF WorldOK, RunTypeOK
<1>5. SnapshotHolds'
  BY <1>2, DevCount, FS_EmptySet DEF SnapshotHolds
<1> QED
  BY <1>2, <1>4, <1>5 DEF RunInv, RunHolds, DeviceHolds, Achieved, NamingHolds

-----------------------------------------------------------------------------
(* The steps of a run *)

\* A call that starts with a snapshot.
LEMMA Started ==
    ASSUME RunInv, UNCHANGED world, NEW r \in Run, run' \in Snapshot(r),
           r.loop = None, r.freed = 0, r.old = {}, r.before = {},
           r.steady = {}, r.blind = FALSE,
           \/ r.pc = "create" /\ r.what = "iso" /\ r.img \in Images
           \/ r.pc = "driver" /\ r.what = "ntfs"
    PROVE  RunInv'
<1>1. WorldOK'
  BY WorldPart DEF WorldOK, world, Present, NamesOneToOne
<1>2. volumes \subseteq Dev /\ volumes' = volumes
  BY DEF RunInv, RunTypeOK, Present, world
<1>3. /\ run' \in Run
      /\ run'.pc = r.pc /\ run'.what = r.what /\ run'.img = r.img
      /\ run'.loop = None /\ run'.freed = 0 /\ run'.steady = {}
      /\ run'.before = volumes
      /\ run'.old = volumes \/ (run'.old = {} /\ run'.blind)
  <2>1. CASE run' = [r EXCEPT !.old = volumes, !.before = volumes]
    BY <1>2, <2>1 DEF Run
  <2>2. CASE run' = [r EXCEPT !.before = volumes, !.blind = TRUE]
    BY <1>2, <2>2 DEF Run
  <2> QED
    BY <2>1, <2>2 DEF Snapshot
<1>4. RunTypeOK' /\ NamesOneToOne'
  BY <1>1, <1>2, <1>3 DEF WorldOK, RunTypeOK
<1>5. SnapshotHolds'
  <2>1. Cardinality(run'.old) <= Cardinality(Dev) /\ Cardinality(run'.old) \in Nat
    BY <1>2, <1>3, DevCount, FS_Subset, FS_CardinalityType
  <2> QED
    BY <2>1, <1>3 DEF SnapshotHolds
<1>6. RunHolds' /\ DeviceHolds' /\ Achieved' /\ NamingHolds'
  BY <1>3 DEF RunHolds, DeviceHolds, Achieved, NamingHolds
<1> QED
  BY <1>4, <1>5, <1>6 DEF RunInv

\* The status of the self-test, and what a Destroy that failed leaves.
LEMMA SelfTested ==
    ASSUME RunInv, NEW params \in Params, MountSelfTest(params)
    PROVE  RunInv'
<1> WorldOK
  BY WorldPart
<1>1. PICK status \in {"SUCCESS", "DEVICE_ERROR"} : Exit(status)
  BY DEF MountSelfTest
<1>2. WorldOK'
  <2>1. UNCHANGED <<volumes, map, driver, hung>>
    BY DEF MountSelfTest
  <2>2. CASE UNCHANGED <<media, loops>>
    BY <2>1, <2>2, WorldFrame DEF WorldOK, Present
  <2>3. CASE \E d \in Dev : /\ media[d] = None /\ media' = [media EXCEPT ![d] = {}]
                            /\ loops' = loops \union {d}
    <3>1. PICK d \in Dev : /\ media[d] = None /\ media' = [media EXCEPT ![d] = {}]
                           /\ loops' = loops \union {d}
      BY <2>3
    <3>2. /\ media' \in [Dev -> (SUBSET FileSystem) \union {None}]
          /\ Present' = Present \union {d}
      BY <3>1, RunAssumption DEF WorldOK, Present
    <3> QED
      BY <2>1, <3>1, <3>2, WorldFrame DEF WorldOK
  <2> QED
    BY <2>2, <2>3 DEF MountSelfTest
<1> QED
  BY <1>1, <1>2, Ended DEF Status

LEMMA StepUefiMain ==
    ASSUME RunInv, NEW params \in Params, UefiMain(params)
    PROVE  RunInv'
<1>1. CASE PrintHelp(params) \/ Refuse(params)
  <2>1. WorldOK'
    BY <1>1, WorldPart
       DEF PrintHelp, Refuse, WorldOK, world, Present, NamesOneToOne, Name
  <2> QED
    BY <1>1, <2>1, Ended DEF PrintHelp, Refuse, Status
<1>2. ASSUME NEW img \in Images, MountRunIso(params, img)
      PROVE  RunInv'
  <2> DEFINE r == [NoRun EXCEPT !.pc = "create", !.what = "iso", !.img = img]
  <2>1. r \in Run /\ r.pc = "create" /\ r.what = "iso" /\ r.img = img
    BY Idle DEF Run
  <2>2. /\ r.loop = None /\ r.freed = 0 /\ r.old = {} /\ r.before = {}
        /\ r.steady = {} /\ r.blind = FALSE
    BY Idle
  <2>3. run' \in Snapshot(r) /\ UNCHANGED world
    BY <1>2 DEF MountRunIso
  <2> HIDE DEF r
  <2> QED
    BY <2>1, <2>2, <2>3, Started
<1>3. CASE MountRunFormat(params)
  <2>1. PICK f \in MountFindFormat(params.Argv1) :
               run' \in Snapshot([NoRun EXCEPT !.pc = "driver", !.what = mFormats[f]])
    BY <1>3 DEF MountRunFormat
  <2>2. mFormats[f] = "ntfs"
    BY DEF MountFindFormat, mFormats
  <2> DEFINE r == [NoRun EXCEPT !.pc = "driver", !.what = "ntfs"]
  <2>3. r \in Run /\ r.pc = "driver" /\ r.what = "ntfs"
    BY Idle DEF Run
  <2>4. /\ r.loop = None /\ r.freed = 0 /\ r.old = {} /\ r.before = {}
        /\ r.steady = {} /\ r.blind = FALSE
    BY Idle
  <2>5. run' \in Snapshot(r) /\ UNCHANGED world
    BY <1>3, <2>1, <2>2 DEF MountRunFormat
  <2> HIDE DEF r
  <2> QED
    BY <2>3, <2>4, <2>5, Started
<1> QED
  BY <1>1, <1>2, <1>3, SelfTested DEF UefiMain

\* A new handle may take over the value of one that is gone.
LEMMA Handle ==
    ASSUME NEW r \in Run, NEW d \in Dev, NEW s \in NewHandle(r, d),
           r.freed + Cardinality(r.old) <= Cardinality(Dev),
           r.blind \/ r.before \subseteq r.old, r.old \subseteq r.before \union r.reused
    PROVE  /\ s \in Run
           /\ s.pc = r.pc /\ s.what = r.what /\ s.img = r.img /\ s.loop = r.loop
           /\ s.before = r.before /\ s.todo = r.todo /\ s.steady = r.steady
           /\ s.unnamed = r.unnamed /\ s.read = r.read /\ s.blind = r.blind
           /\ s.denied = r.denied
           /\ s.freed + Cardinality(s.old) <= Cardinality(Dev)
           /\ s.blind \/ s.before \subseteq s.old
           /\ s.old \subseteq s.before \union s.reused
           /\ r.freed = 0 => s = r
<1>1. CASE s = r
  BY <1>1
<1>2. CASE s # r
  <2>1. /\ s = [r EXCEPT !.old = @ \union {d}, !.reused = @ \union {d},
                         !.freed = @ - 1]
        /\ \E n \in 1..r.freed : TRUE
    BY <1>2 DEF NewHandle
  <2>2. r.freed \in 0..Cardinality(Dev) /\ r.old \in SUBSET Dev /\ r.reused \in SUBSET Dev
    BY DEF Run
  <2>3. r.freed - 1 \in 0..Cardinality(Dev) /\ r.freed # 0
    BY <2>1, <2>2, DevCount
  <2>4. s \in Run
    BY <2>1, <2>2, <2>3 DEF Run
  <2>5. /\ s.old = r.old \union {d} /\ s.reused = r.reused \union {d}
        /\ s.freed = r.freed - 1
    BY <2>1
  <2>6. Cardinality(s.old) <= Cardinality(r.old) + 1 /\ Cardinality(s.old) \in Nat
        /\ Cardinality(r.old) \in Nat
    <3>1. IsFiniteSet(r.old)
      BY <2>2, DevCount, FS_Subset
    <3>2. Cardinality(r.old) \in Nat
      BY <3>1, FS_CardinalityType
    <3>3. Cardinality(r.old \union {d}) =
             IF d \in r.old THEN Cardinality(r.old) ELSE Cardinality(r.old) + 1
      BY <3>1, FS_AddElement
    <3> QED
      BY <2>5, <3>2, <3>3
  <2>7. s.freed + Cardinality(s.old) <= Cardinality(Dev)
    BY <2>2, <2>5, <2>6, DevCount
  <2> QED
    BY <2>1, <2>3, <2>4, <2>5, <2>7
<1> QED
  BY <1>1, <1>2

\* A step that moves the run on and leaves its snapshot and its history alone.
LEMMA Moved ==
    ASSUME RunInv, WorldOK', run' \in Run, volumes \subseteq volumes', UNCHANGED loops,
           run'.what = run.what, run'.loop = run.loop, run'.old = run.old,
           run'.freed = run.freed, run'.before = run.before,
           run'.blind = run.blind, run'.reused = run.reused,
           run'.steady \subseteq volumes',
           RunHolds', DeviceHolds', Achieved', NamingHolds'
    PROVE  RunInv'
<1>1. RunTypeOK' /\ NamesOneToOne'
  BY DEF WorldOK, RunInv, RunTypeOK
<1>2. SnapshotHolds'
  BY DEF RunInv, SnapshotHolds
<1> QED
  BY <1>1, <1>2 DEF RunInv

\* What a Goto changes.
LEMMA Went ==
    ASSUME run \in Run, NEW p \in {"connect", "rescan", "refresh", "report"}, Goto(p)
    PROVE  /\ run' \in Run /\ run'.pc = p
           /\ p = "connect" => run'.img = run.img /\ run'.read = run.read
           /\ run'.what = run.what /\ run'.loop = run.loop /\ run'.denied = run.denied
           /\ run'.old = run.old /\ run'.freed = run.freed
           /\ run'.before = run.before /\ run'.blind = run.blind
           /\ run'.reused = run.reused /\ run'.todo = run.todo
           /\ run'.steady = run.steady /\ run'.unnamed = run.unnamed
<1> DEFINE img == IF p = "connect" THEN run.img ELSE None
           read == p = "connect" /\ run.read
<1>1. run' = [run EXCEPT !.pc = p, !.img = img, !.read = read]
  BY DEF Goto
<1>2. img \in Images \union {None}
  BY DEF Run
<1>3. read \in BOOLEAN
  OBVIOUS
<1>4. p = "connect" => img = run.img
  OBVIOUS
<1>5. p # "connect" => img = None
  OBVIOUS
<1> HIDE DEF img
<1>6. p = "connect" => read = run.read
  BY DEF Run
<1> HIDE DEF read
<1>7. /\ run' \in Run /\ run'.pc = p /\ run'.img = img /\ run'.read = read
      /\ run'.what = run.what /\ run'.loop = run.loop
      /\ run'.old = run.old /\ run'.freed = run.freed
      /\ run'.before = run.before /\ run'.blind = run.blind
      /\ run'.reused = run.reused /\ run'.todo = run.todo
      /\ run'.steady = run.steady /\ run'.unnamed = run.unnamed
      /\ run'.denied = run.denied
  BY <1>1, <1>2, <1>3 DEF Run
<1> QED
  BY <1>4, <1>5, <1>6, <1>7

LEMMA RunStepWorld ==
    ASSUME RunInv, RunStep
    PROVE  WorldOK'
<1>1. WorldOK /\ run \in Run /\ (run.what # "none" \/ run.pc # "driver")
  BY WorldPart DEF RunInv, RunTypeOK, RunHolds
<1>2. run.pc \in {"connect"} => run.loop \in Dev
  BY DEF RunInv, RunTypeOK, RunHolds, DeviceHolds, Present
<1> QED
  BY <1>1, <1>2, WorldRunStep

\* The creation of the device.
LEMMA StepCreate ==
    ASSUME RunInv, LoopCreateFails \/ \E d \in Dev : LoopCreateOk(d)
    PROVE  RunInv'
<1>1. WorldOK'
  BY RunStepWorld DEF RunStep
<1>2. CASE LoopCreateFails
  BY <1>1, <1>2, Ended DEF LoopCreateFails, Status
<1>3. ASSUME NEW d \in Dev, LoopCreateOk(d)
      PROVE  RunInv'
  <2>1. PICK read \in BOOLEAN, r \in NewHandle(run, d) :
          run' = [r EXCEPT
                     !.pc = IF read /\ Iso9660(run.img) /\ ~ Udf(run.img)
                            THEN "driver" ELSE "connect",
                     !.loop = d, !.read = read]
    BY <1>3 DEF LoopCreateOk
  <2>2. run \in Run /\ SnapshotHolds
    BY DEF RunInv, RunTypeOK
  <2>3. /\ r \in Run
        /\ r.pc = run.pc /\ r.what = run.what /\ r.img = run.img /\ r.loop = run.loop
        /\ r.before = run.before /\ r.todo = run.todo /\ r.steady = run.steady
        /\ r.unnamed = run.unnamed /\ r.read = run.read /\ r.blind = run.blind
        /\ r.freed + Cardinality(r.old) <= Cardinality(Dev)
        /\ r.blind \/ r.before \subseteq r.old
        /\ r.old \subseteq r.before \union r.reused
    BY <2>2, Handle DEF SnapshotHolds
  <2> DEFINE pc == IF read /\ Iso9660(run.img) /\ ~ Udf(run.img)
                   THEN "driver" ELSE "connect"
  <2>4. pc \in {"driver", "connect"}
        /\ (pc = "connect" => ~ (read /\ Iso9660(run.img) /\ ~ Udf(run.img)))
    OBVIOUS
  <2>5. run' = [r EXCEPT !.pc = pc, !.loop = d, !.read = read]
    BY <2>1
  <2> HIDE DEF pc
  <2>6. /\ run' \in Run /\ run'.pc = pc /\ run'.loop = d /\ run'.read = read
        /\ run'.what = run.what /\ run'.img = run.img /\ run'.before = run.before
        /\ run'.steady = run.steady /\ run'.blind = run.blind
        /\ run'.old = r.old /\ run'.freed = r.freed /\ run'.reused = r.reused
    BY <2>3, <2>4, <2>5 DEF Run
  <2>7. /\ media[d] = None /\ media' = [media EXCEPT ![d] = Holds(run.img)]
        /\ loops' = loops \union {d} /\ volumes' = volumes /\ driver' = driver
        /\ run.pc = "create"
    BY <1>3 DEF LoopCreateOk, At
  <2>8. run.what = "iso" /\ run.img \in Images /\ run.steady = {} /\ d # None
    BY <2>7, RunAssumption DEF RunInv, RunHolds
  <2>9. RunTypeOK' /\ NamesOneToOne'
    BY <1>1, <2>6, <2>7, <2>8 DEF WorldOK, RunTypeOK, RunInv
  <2>10. SnapshotHolds'
    BY <2>3, <2>6 DEF SnapshotHolds
  <2>11. RunHolds'
    BY <2>4, <2>6, <2>8 DEF RunHolds
  <2>12. DeviceHolds'
    <3>1. media'[d] = Holds(run.img)
      BY <2>7 DEF RunInv, RunTypeOK
    <3> QED
      BY <2>4, <2>6, <2>8, <3>1 DEF DeviceHolds
  <2>13. Achieved' /\ NamingHolds'
    BY <2>4, <2>6, <2>8 DEF Achieved, NamingHolds
  <2> QED
    BY <2>9, <2>10, <2>11, <2>12, <2>13 DEF RunInv
<1> QED
  BY <1>2, <1>3

\* The driver a pure ISO9660 or a format needs.
LEMMA StepDriver ==
    ASSUME RunInv, DriverKnown \/ DriverLoads \/ DriverFails
    PROVE  RunInv'
<1>1. WorldOK'
  BY RunStepWorld DEF RunStep
<1>2. /\ run \in Run /\ run.pc = "driver" /\ run.what \in {"iso", "ntfs"}
      /\ run.what = "iso" => run.loop # None /\ run.img \in Images
                             /\ media[run.loop] = Holds(run.img)
      /\ run.what = "ntfs" => run.loop = None
      /\ run.steady = {}
  BY DEF DriverKnown, DriverLoads, DriverFails, At, RunInv, RunTypeOK, RunHolds,
         DeviceHolds, Run
<1>3. CASE DriverFails
  <2>1. PICK status \in {"SUCCESS", "DRIVER_MISSING", "SECURE_BOOT"} : Exit(status)
    BY <1>3 DEF DriverFails
  <2> QED
    BY <1>1, <2>1, Ended DEF Status, CreateStatus
<1>4. CASE DriverKnown \/ DriverLoads
  <2>1. /\ UNCHANGED <<media, loops, volumes>> /\ AfterDriver
        /\ driver'[Needed] # "absent"
    BY <1>2, <1>4 DEF DriverKnown, DriverLoads, world, RunInv, RunTypeOK, Needed, Driver
  <2>2. CASE run.what = "iso"
    <3>1. Goto("connect") /\ driver'["iso9660"] # "absent"
      BY <2>1, <2>2 DEF AfterDriver, Needed
    <3>2. run' \in Run /\ run'.pc = "connect" /\ run'.img = run.img
          /\ run'.what = run.what /\ run'.loop = run.loop /\ run'.steady = run.steady
      BY <3>1, <1>2, Went
    <3>3. RunHolds' /\ DeviceHolds' /\ Achieved' /\ NamingHolds'
      BY <1>2, <2>1, <2>2, <3>1, <3>2 DEF RunHolds, DeviceHolds, Achieved, NamingHolds
    <3> QED
      BY <1>1, <1>2, <2>1, <3>1, <3>2, <3>3, Went, Moved
  <2>3. CASE run.what = "ntfs"
    <3>1. Goto("rescan") /\ driver'["ntfs"] # "absent"
      BY <2>1, <2>3 DEF AfterDriver, Needed
    <3>2. run' \in Run /\ run'.pc = "rescan"
          /\ run'.what = run.what /\ run'.loop = run.loop /\ run'.steady = run.steady
      BY <3>1, <1>2, Went
    <3>3. RunHolds' /\ DeviceHolds' /\ Achieved' /\ NamingHolds'
      BY <1>2, <2>1, <2>3, <3>1, <3>2 DEF RunHolds, DeviceHolds, Achieved, NamingHolds
    <3> QED
      BY <1>1, <1>2, <2>1, <3>1, <3>2, <3>3, Went, Moved
  <2> QED
    BY <1>2, <2>2, <2>3
<1> QED
  BY <1>3, <1>4

\* A device the run's own is not lost to: what is claimed does not change
\* while media, loop devices and drivers do not.
LEMMA ClaimFrame ==
    ASSUME UNCHANGED <<media, driver>>, NEW d, NEW e, d = e
    PROVE  Claimed(d)' <=> Claimed(e)
BY DEF Claimed, Served

\* The connect of the run's own device.
LEMMA StepConnect ==
    ASSUME RunInv, ConnectLoop
    PROVE  RunInv'
<1>1. WorldOK'
  BY RunStepWorld DEF RunStep
<1>2. /\ run \in Run /\ run.pc = "connect" /\ run.what = "iso" /\ run.steady = {}
      /\ run.loop # None /\ run.loop \in Dev /\ hung \in BOOLEAN /\ ~ hung
      /\ ConnectController(run.loop)
      /\ UNCHANGED <<media, loops, map, driver>>
  BY DEF ConnectLoop, At, RunInv, RunTypeOK, RunHolds, DeviceHolds, Present
<1>3. /\ run' \in Run /\ run'.pc = "rescan"
      /\ run'.what = run.what /\ run'.loop = run.loop /\ run'.steady = run.steady
      /\ run'.old = run.old /\ run'.freed = run.freed /\ run'.before = run.before
      /\ run'.blind = run.blind /\ run'.reused = run.reused
      /\ run'.denied = (Claimed(run.loop) /\ run.loop \notin volumes')
  <2>1. PICK b \in BOOLEAN : b = (Claimed(run.loop) /\ run.loop \notin volumes')
    OBVIOUS
  <2>2. run' = [run EXCEPT !.pc = "rescan", !.img = None, !.read = FALSE, !.denied = b]
    BY <2>1 DEF ConnectLoop
  <2> QED
    BY <1>2, <2>1, <2>2 DEF Run
<1>4. volumes \subseteq volumes'
      /\ (Claimed(run.loop) => run.loop \in volumes' \/ run'.denied)
  BY <1>2, <1>3, Connected
<1>5. Achieved'
  <2>1. Claimed(run.loop)' <=> Claimed(run.loop)
    BY <1>2, <1>3, ClaimFrame
  <2> QED
    BY <1>2, <1>3, <1>4, <2>1 DEF Achieved
<1>6. RunHolds' /\ DeviceHolds' /\ NamingHolds'
  BY <1>2, <1>3 DEF RunHolds, DeviceHolds, NamingHolds
<1> QED
  BY <1>1, <1>2, <1>3, <1>4, <1>5, <1>6, Moved

\* From the rescan on, the four points of the code that are left.
Late == {"rescan", "scan", "refresh", "name", "report"}

\* What the run has achieved is kept: volumes only come.
LEMMA StillAchieved ==
    ASSUME RunInv, run.pc \in Late, run'.what = run.what, run'.loop = run.loop,
           run'.denied = run.denied,
           UNCHANGED <<media, driver>>, volumes \subseteq volumes'
    PROVE  Achieved'
<1>1. Claimed(run.loop)' <=> Claimed(run.loop)
  BY ClaimFrame
<1> QED
  BY <1>1 DEF RunInv, Achieved, Late

\* The rescan visits each handle once and adds volumes.
LEMMA StepScan ==
    ASSUME RunInv, Rescan \/ ScanDone \/ \E d \in Dev : ScanHandle(d)
    PROVE  RunInv'
<1>1. WorldOK'
  BY RunStepWorld DEF RunStep
<1>2. /\ run \in Run /\ run.pc \in {"rescan", "scan"} /\ run.steady = {} /\ ~ hung
      /\ Present \subseteq Dev /\ hung \in BOOLEAN
      /\ UNCHANGED <<media, loops, map, driver>>
  BY DEF Rescan, ScanDone, ScanHandle, At, RunInv, RunTypeOK, RunHolds, Present, world
<1>3. volumes \subseteq volumes'
  <2>1. ASSUME NEW d \in Dev, ScanHandle(d)
        PROVE  volumes \subseteq volumes'
    BY <1>2, <2>1, Connected DEF ScanHandle
  <2> QED
    BY <2>1 DEF Rescan, ScanDone, world
<1>4. /\ run' \in Run /\ run'.pc \in {"scan", "refresh"}
      /\ run'.what = run.what /\ run'.loop = run.loop /\ run'.denied = run.denied /\ run'.steady = run.steady
      /\ run'.old = run.old /\ run'.freed = run.freed /\ run'.before = run.before
      /\ run'.blind = run.blind /\ run'.reused = run.reused
  <2>1. CASE ScanDone
    BY <1>2, <2>1, Went DEF ScanDone
  <2>2. ASSUME NEW t \in SUBSET Dev, run' = [run EXCEPT !.todo = t]
        PROVE  /\ run' \in Run /\ run'.pc = run.pc
               /\ run'.what = run.what /\ run'.loop = run.loop /\ run'.denied = run.denied /\ run'.steady = run.steady
               /\ run'.old = run.old /\ run'.freed = run.freed /\ run'.before = run.before
               /\ run'.blind = run.blind /\ run'.reused = run.reused
    BY <1>2, <2>2 DEF Run
  <2>3. CASE \E d \in Dev : ScanHandle(d)
    <3>1. PICK d \in Dev : run' = [run EXCEPT !.todo = run.todo \ {d}]
      BY <2>3 DEF ScanHandle
    <3>2. run.pc = "scan" /\ run.todo \ {d} \in SUBSET Dev
      BY <1>2, <2>3 DEF ScanHandle, At, Run
    <3> QED
      BY <2>2, <3>1, <3>2
  <2>4. CASE Rescan
    <3>1. PICK t \in {Present, {}} : run' = [run EXCEPT !.pc = "scan", !.todo = t]
      BY <2>4 DEF Rescan
    <3>2. t \in SUBSET Dev
      BY <1>2
    <3> QED
      BY <1>2, <3>1, <3>2 DEF Run
  <2> QED
    BY <2>1, <2>3, <2>4
<1>5. Achieved'
  BY <1>2, <1>3, <1>4, StillAchieved DEF Late
<1>6. RunHolds' /\ DeviceHolds' /\ NamingHolds'
  BY <1>2, <1>4 DEF RunInv, RunHolds, DeviceHolds, NamingHolds
<1> QED
  BY <1>1, <1>2, <1>3, <1>4, <1>5, <1>6, Moved

\* The refresh and the report.
LEMMA StepRefresh ==
    ASSUME RunInv, Refresh \/ RefreshFails \/ NameDone
    PROVE  RunInv'
<1>1. WorldOK'
  BY RunStepWorld DEF RunStep
<1>2. /\ run \in Run /\ run.pc \in {"refresh", "name"} /\ UNCHANGED world
      /\ volumes \subseteq Dev /\ run.what # "none"
      /\ UNCHANGED <<media, loops, volumes, map, driver>>
  BY DEF Refresh, RefreshFails, NameDone, At, RunInv, RunTypeOK, RunHolds,
         Present, world
<1>3. \A d \in Dev : Named(d)' <=> Named(d)
  BY <1>2 DEF Named
<1>4. CASE Refresh
  <2>1. run' = [run EXCEPT !.pc = "name", !.todo = volumes, !.steady = volumes]
    BY <1>4 DEF Refresh
  <2>2. /\ run' \in Run /\ run'.pc = "name" /\ run'.todo = volumes
        /\ run'.steady = volumes
        /\ run'.what = run.what /\ run'.loop = run.loop /\ run'.denied = run.denied
        /\ run'.old = run.old /\ run'.freed = run.freed /\ run'.before = run.before
        /\ run'.blind = run.blind /\ run'.reused = run.reused
    BY <1>2, <2>1 DEF Run
  <2>3. Achieved'
    BY <1>2, <2>2, StillAchieved DEF Late
  <2>4. RunHolds' /\ DeviceHolds' /\ NamingHolds'
    BY <1>2, <2>2 DEF RunInv, RunHolds, DeviceHolds, NamingHolds
  <2> QED
    BY <1>1, <1>2, <2>2, <2>3, <2>4, Moved
<1>5. CASE RefreshFails \/ NameDone
  <2>1. /\ Goto("report")
        /\ \A d \in run.steady : d \in run.unnamed \/ Named(d)
    BY <1>5 DEF RefreshFails, NameDone, At, RunInv, NamingHolds
  <2>2. /\ run' \in Run /\ run'.pc = "report" /\ run'.steady = run.steady
        /\ run'.unnamed = run.unnamed
        /\ run'.what = run.what /\ run'.loop = run.loop /\ run'.denied = run.denied
    BY <1>2, <2>1, Went
  <2>3. Achieved'
    BY <1>2, <2>2, StillAchieved DEF Late
  <2>4. RunHolds' /\ DeviceHolds'
    BY <1>2, <2>2 DEF RunInv, RunHolds, DeviceHolds
  <2>5. run.steady \subseteq volumes
    BY DEF RunInv, RunTypeOK
  <2>6. NamingHolds'
    BY <1>2, <1>3, <2>1, <2>2, <2>5 DEF NamingHolds
  <2> QED
    BY <1>1, <1>2, <2>1, <2>2, <2>3, <2>4, <2>5, <2>6, Went, Moved
<1> QED
  BY <1>4, <1>5

\* What the refresh does to one device: it is named, refused, or passed by
\* because it has a name or is gone.
LEMMA StepName ==
    ASSUME RunInv, NEW d \in Dev, NameSkip(d) \/ NameVolume(d) \/ SetMapFails(d)
    PROVE  RunInv'
<1>1. WorldOK'
  BY RunStepWorld DEF RunStep
<1>2. /\ run \in Run /\ run.pc = "name" /\ run.what # "none"
      /\ UNCHANGED <<media, loops, volumes, driver>>
      /\ run.steady \subseteq volumes /\ volumes \subseteq Present
  BY DEF NameSkip, NameVolume, SetMapFails, At, RunInv, RunTypeOK, RunHolds, world
<1>3. /\ \A v \in Dev : Named(v) => Named(v)'
      /\ NameVolume(d) => Named(d)'
  <2>1. CASE NameVolume(d)
    BY <2>1, WorldPart, NameGiven DEF NameVolume
  <2>2. CASE ~ NameVolume(d)
    <3>1. map' = map
      BY <2>2 DEF NameSkip, SetMapFails, world
    <3> QED
      BY <2>2, <3>1 DEF Named
  <2> QED
    BY <2>1, <2>2
<1>4. PICK refused \in SUBSET Dev :
         /\ run' = [run EXCEPT !.todo = run.todo \ {d},
                               !.unnamed = run.unnamed \union refused]
         /\ SetMapFails(d) => d \in refused
  <2>1. CASE SetMapFails(d)
    <3>1. run' = [run EXCEPT !.todo = run.todo \ {d},
                             !.unnamed = run.unnamed \union {d}]
      BY <2>1 DEF SetMapFails
    <3> QED
      BY <3>1
  <2>2. CASE ~ SetMapFails(d)
    <3>1. run' = [run EXCEPT !.todo = run.todo \ {d}]
      BY <2>2 DEF NameSkip, NameVolume
    <3>2. run' = [run EXCEPT !.todo = run.todo \ {d},
                             !.unnamed = run.unnamed \union {}]
      BY <1>2, <3>1
    <3>3. {} \in SUBSET Dev
      OBVIOUS
    <3> HIDE <1>1, <1>2, <1>3, <3>1
    <3> QED
      BY <2>2, <3>2, <3>3, Zenon
  <2> QED
    BY <2>1, <2>2
<1>5. /\ run' \in Run /\ run'.pc = "name" /\ run'.todo = run.todo \ {d}
      /\ run'.unnamed = run.unnamed \union refused /\ run'.steady = run.steady
      /\ run'.what = run.what /\ run'.loop = run.loop /\ run'.denied = run.denied
      /\ run'.old = run.old /\ run'.freed = run.freed /\ run'.before = run.before
      /\ run'.blind = run.blind /\ run'.reused = run.reused
  BY <1>2, <1>4 DEF Run
<1>6. Achieved'
  BY <1>2, <1>5, StillAchieved DEF Late
<1>7. RunHolds' /\ DeviceHolds'
  BY <1>2, <1>5 DEF RunInv, RunHolds, DeviceHolds
<1>8. NamingHolds'
  <2> SUFFICES ASSUME NEW v \in run.steady
               PROVE  v \in run'.unnamed \/ Named(v)' \/ v \in run'.todo
    BY <1>5 DEF NamingHolds
  <2>1. v \in Dev /\ media[v] # None
    BY <1>2 DEF Present
  <2>2. v \in run.unnamed \/ Named(v) \/ v \in run.todo
    BY DEF RunInv, NamingHolds
  <2>3. v = d => d \in refused \/ Named(d)'
    BY <1>3, <1>4, <2>1 DEF NameSkip
  <2> QED
    BY <1>3, <1>5, <2>1, <2>2, <2>3
<1> QED
  BY <1>1, <1>2, <1>5, <1>6, <1>7, <1>8, Moved

LEMMA StepRun ==
    ASSUME RunInv, RunStep
    PROVE  RunInv'
<1>1. CASE Report \/ ReportFails
  BY <1>1, RunStepWorld, Ended DEF Report, ReportFails, Status
<1> QED
  BY <1>1, StepCreate, StepDriver, StepConnect, StepScan, StepRefresh, StepName
     DEF RunStep

-----------------------------------------------------------------------------
(* The steps of everybody else *)

\* A medium arrives on a slot that is free, so on none the run knows as its
\* own; its handle may take over a value of the snapshot.
LEMMA StepPlug ==
    ASSUME RunInv, NEW d \in Dev, NEW fs \in Media, Plug(d, fs)
    PROVE  RunInv'
<1>1. WorldOK'
  BY WorldPart, WorldEnvironment DEF Environment
<1>2. /\ run \in Run /\ SnapshotHolds /\ media \in [Dev -> (SUBSET FileSystem) \union {None}]
      /\ media[d] = None /\ media' = [media EXCEPT ![d] = fs]
      /\ run' \in NewHandle(run, d) /\ UNCHANGED <<loops, map, driver, hung>>
  BY DEF Plug, RunInv, RunTypeOK
<1>3. volumes \subseteq volumes'
  BY DEF Plug
<1>4. /\ run' \in Run /\ run'.pc = run.pc /\ run'.what = run.what
      /\ run'.img = run.img /\ run'.loop = run.loop /\ run'.before = run.before
      /\ run'.denied = run.denied
      /\ run'.todo = run.todo /\ run'.steady = run.steady
      /\ run'.unnamed = run.unnamed /\ run'.read = run.read /\ run'.blind = run.blind
      /\ run.freed = 0 => run' = run
  BY <1>2, Handle DEF SnapshotHolds
<1>5. SnapshotHolds'
  BY <1>2, Handle DEF SnapshotHolds
<1>6. RunTypeOK' /\ NamesOneToOne'
  BY <1>1, <1>2, <1>3, <1>4 DEF WorldOK, RunTypeOK, RunInv
<1>7. RunHolds'
  BY <1>4 DEF RunInv, RunHolds
<1>8. ASSUME run.loop # None
      PROVE  media'[run.loop] = media[run.loop]
  <2>1. run.loop \in Dev /\ media[run.loop] # None
    BY <1>8 DEF RunInv, RunTypeOK, Present
  <2> QED
    BY <1>2, <2>1
<1>9. DeviceHolds' /\ Achieved'
  <2>1. Claimed(run.loop)' => run.what # "iso" \/ run.pc = "create" \/ Claimed(run.loop)
    BY <1>2, <1>4, <1>8 DEF Claimed, Served, RunInv, RunHolds
  <2>2. DeviceHolds'
    BY <1>2, <1>4, <1>8 DEF RunInv, DeviceHolds, RunHolds
  <2>3. Achieved'
    BY <1>2, <1>3, <1>4, <2>1 DEF RunInv, Achieved
  <2> QED
    BY <2>2, <2>3
<1>10. NamingHolds'
  BY <1>2, <1>4 DEF RunInv, NamingHolds, Named
<1> QED
  BY <1>5, <1>6, <1>7, <1>9, <1>10 DEF RunInv

\* A medium is pulled out: its value is free again if the snapshot has it.
LEMMA StepUnplug ==
    ASSUME RunInv, NEW d \in Dev, Unplug(d)
    PROVE  RunInv'
<1>1. WorldOK'
  BY WorldPart, WorldEnvironment DEF Environment
<1>2. /\ run \in Run /\ SnapshotHolds
      /\ media \in [Dev -> (SUBSET FileSystem) \union {None}]
      /\ d \notin loops /\ media' = [media EXCEPT ![d] = None]
      /\ volumes' = volumes \ {d} /\ UNCHANGED <<loops, map, driver, hung>>
  BY DEF Unplug, RunInv, RunTypeOK
<1> DEFINE freed == IF d \in run.old THEN run.freed + 1 ELSE run.freed
<1>3. run' = [run EXCEPT !.steady = run.steady \ {d}, !.before = run.before \ {d},
                         !.old = run.old \ {d}, !.reused = run.reused \ {d},
                         !.freed = freed]
  BY DEF Unplug
<1>4. /\ freed \in 0..Cardinality(Dev)
      /\ freed + Cardinality(run.old \ {d}) <= Cardinality(Dev)
      /\ run.freed = 0 /\ run.old = {} => freed = 0
  <2>1. IsFiniteSet(run.old) /\ run.freed \in 0..Cardinality(Dev)
    BY <1>2, DevCount, FS_Subset DEF Run
  <2>2. /\ Cardinality(run.old) \in Nat /\ Cardinality(run.old \ {d}) \in Nat
        /\ Cardinality(run.old \ {d}) =
              IF d \in run.old THEN Cardinality(run.old) - 1 ELSE Cardinality(run.old)
    BY <2>1, FS_RemoveElement, FS_CardinalityType
  <2>3. run.freed + Cardinality(run.old) <= Cardinality(Dev)
    BY <1>2 DEF SnapshotHolds
  <2> QED
    BY <2>1, <2>2, <2>3, DevCount
<1> HIDE DEF freed
<1>5. /\ run' \in Run /\ run'.pc = run.pc /\ run'.what = run.what
      /\ run'.img = run.img /\ run'.loop = run.loop /\ run'.denied = run.denied
      /\ run'.before = run.before \ {d} /\ run'.steady = run.steady \ {d}
      /\ run'.old = run.old \ {d} /\ run'.reused = run.reused \ {d}
      /\ run'.freed = freed /\ run'.todo = run.todo
      /\ run'.unnamed = run.unnamed /\ run'.read = run.read /\ run'.blind = run.blind
  BY <1>2, <1>3, <1>4 DEF Run
<1>6. RunTypeOK' /\ NamesOneToOne'
  BY <1>1, <1>2, <1>5 DEF WorldOK, RunTypeOK, RunInv
<1>7. SnapshotHolds'
  BY <1>2, <1>4, <1>5 DEF SnapshotHolds
<1>8. RunHolds'
  BY <1>4, <1>5 DEF RunInv, RunHolds
<1>9. ASSUME run.loop # None
      PROVE  media'[run.loop] = media[run.loop] /\ run.loop # d
  <2>1. run.loop \in Dev /\ run.loop \in loops
    BY <1>9 DEF RunInv, RunTypeOK, Present
  <2> QED
    BY <1>2, <2>1
<1>10. DeviceHolds'
  BY <1>2, <1>5, <1>9 DEF RunInv, DeviceHolds, RunHolds
<1>11. Achieved'
  <2>1. Claimed(run.loop)' => run.what # "iso" \/ run.pc = "create" \/ Claimed(run.loop)
    BY <1>2, <1>5, <1>9 DEF Claimed, Served
  <2> QED
    BY <1>2, <1>5, <1>9, <2>1 DEF RunInv, Achieved, RunHolds
<1>12. NamingHolds'
  BY <1>2, <1>5 DEF RunInv, NamingHolds, Named
<1> QED
  BY <1>6, <1>7, <1>8, <1>10, <1>11, <1>12 DEF RunInv

\* The shell has its turn between runs.
LEMMA StepShell ==
    ASSUME RunInv, ShellMapR \/ \E f \in Driver : ShellLoad(f) \/ ShellUnload(f)
    PROVE  RunInv'
<1>1. WorldOK'
  BY WorldPart, WorldEnvironment DEF Environment
<1>2. run' = run /\ run.pc = "idle" /\ UNCHANGED loops
  BY DEF ShellMapR, ShellLoad, ShellUnload, At
<1>3. run.steady = {} /\ run.before = {}
  BY <1>2 DEF RunInv, RunHolds
<1>4. RunTypeOK' /\ NamesOneToOne'
  BY <1>1, <1>2, <1>3 DEF WorldOK, RunTypeOK, RunInv
<1> QED
  BY <1>2, <1>3, <1>4 DEF RunInv, SnapshotHolds, RunHolds, DeviceHolds, Achieved,
                          NamingHolds

-----------------------------------------------------------------------------
(* The invariant and the properties *)

\* A run that has not begun holds nothing.
LEMMA InitInv == RunInit => RunInv
<1> SUFFICES ASSUME RunInit PROVE RunInv
  OBVIOUS
<1>1. run = NoRun /\ run \in Run /\ run.loop = None
      /\ run.steady = {} /\ run.before = {}
  BY Idle DEF RunInit
<1>2. RunTypeOK
  BY <1>1, RunAssumption DEF RunInit, RunTypeOK, DriverState
<1>3. NamesOneToOne
  BY DEF RunInit, NamesOneToOne
<1>4. SnapshotHolds
  BY <1>1, Idle, DevCount, FS_EmptySet DEF SnapshotHolds
<1> QED
  BY <1>1, <1>2, <1>3, <1>4, Idle
     DEF RunInv, RunHolds, DeviceHolds, Achieved, NamingHolds

LEMMA StepInv == RunInv /\ [RunNext]_runVars => RunInv'
<1> SUFFICES ASSUME RunInv, [RunNext]_runVars PROVE RunInv'
  OBVIOUS
<1>1. CASE RunNext
  BY <1>1, StepUefiMain, StepRun, StepPlug, StepUnplug, StepShell
     DEF RunNext, Environment
<1>2. CASE UNCHANGED runVars
  BY <1>2 DEF runVars, world, RunInv, RunTypeOK, Present, NamesOneToOne, SnapshotHolds,
              RunHolds, DeviceHolds, Achieved, Claimed, Served, NamingHolds, Named, Name
<1> QED
  BY <1>1, <1>2

\* In every reachable state the types are right, no two names share a volume
\* (the refresh names only volumes without a name), and the run's locals agree
\* with the firmware's state at each point of the code.
THEOREM RunInvariance == RunSpec => []RunInv
<1>1. RunInit => RunInv
  BY InitInv
<1>2. RunInv /\ [RunNext]_runVars => RunInv'
  BY StepInv
<1> QED
  BY <1>1, <1>2, PTL DEF RunSpec

\* What holds of every step of the specification.
LEMMA ActionProperty ==
    RunSpec => []RunInv /\ [][RunNext]_runVars
BY RunInvariance, PTL DEF RunSpec

LEMMA NeverClobberedStep ==
    ASSUME RunInv, RunNext, run.pc # "idle"
    PROVE  \A n \in Name : map[n] # None => map'[n] = map[n]
<1>1. CASE \E d \in Dev : NameVolume(d)
  BY <1>1, WorldPart, NameGiven DEF NameVolume
<1>2. CASE ~ \E d \in Dev : NameVolume(d)
  <2>1. map' = map
    BY <1>2 DEF RunNext, UefiMain, PrintHelp, Refuse, MountSelfTest, MountRunIso,
                MountRunFormat, RunStep, LoopCreateFails, LoopCreateOk, DriverKnown,
                DriverLoads, DriverFails, ConnectLoop, Rescan, ScanDone, ScanHandle,
                Refresh, RefreshFails, NameDone, NameSkip, SetMapFails, Report,
                ReportFails, Environment, Plug, Unplug, ShellMapR, ShellLoad,
                ShellUnload, At, world
  <2> QED
    BY <2>1
<1> QED
  BY <1>1, <1>2

\* The refresh takes a free name: while it runs, mount never moves a name
\* somebody is using to another volume, since of a volume without a name one
\* name is always free (FreeName).
THEOREM NamesKept == RunSpec => NeverClobbered
<1>1. RunInv /\ [RunNext]_runVars =>
         [run.pc # "idle" =>
             \A n \in Name : map[n] # None => map'[n] = map[n]]_runVars
  BY NeverClobberedStep
<1> QED
  BY <1>1, ActionProperty, PTL DEF NeverClobbered

\* A volume that was there when the refresh listed the volumes, and has been
\* since, has a name by the time of the report, or the shell refused it.
THEOREM ReportNames == RunSpec => ReportedVolumesNamed
<1>1. RunInv /\ [RunNext]_runVars =>
         [Report => \A d \in run.steady \ run.unnamed : Named(d)]_runVars
  BY DEF RunInv, NamingHolds, Report, At
<1> QED
  BY <1>1, ActionProperty, PTL DEF ReportedVolumesNamed

\* A mount -ISO that gets to its report has made the image's file system a
\* volume if anything running claims it, unless the driver failed to bind.
THEOREM Delivered == RunSpec => MountDelivered
<1>1. RunInv /\ [RunNext]_runVars =>
         [Report /\ run.what = "iso" /\ Claimed(run.loop)
             => run.loop \in volumes \/ run.denied]_runVars
  BY DEF RunInv, Achieved, Report, At
<1> QED
  BY <1>1, ActionProperty, PTL DEF MountDelivered

\* The connect of the run's own device.
LEMMA OwnConnectStep ==
    ASSUME RunInv, ConnectLoop, hung'
    PROVE  ~ run.read \/ ~ SniffTells(run.img) \/ driver["iso9660"] = "stale"
<1> SUFFICES ASSUME run.read, SniffReads(run.img), HoldsIso(run.img),
                    ~ Udf(run.img) \/ HoldsUdf(run.img)
             PROVE  driver["iso9660"] = "stale"
  BY DEF SniffTells
<1>1. /\ run.pc = "connect" /\ run.what = "iso" /\ run.loop \in Dev
      /\ media[run.loop] = Holds(run.img) /\ hung \in BOOLEAN /\ ~ hung
      /\ run.loop # None
  BY DEF ConnectLoop, At, RunInv, RunTypeOK, RunHolds, DeviceHolds, Present
<1>2. ~ Claimed(run.loop) /\ media[run.loop] # None
  BY <1>1, Connected, HoldsType, RunAssumption DEF ConnectLoop
<1>3. driver["iso9660"] # "running" /\ ~ HoldsUdf(run.img)
  BY <1>1, <1>2 DEF Claimed, Served, Holds
<1>4. Iso9660(run.img) /\ ~ Udf(run.img)
  BY <1>3 DEF Iso9660, HoldsIso
<1>5. driver["iso9660"] # "absent"
  BY <1>1, <1>4 DEF RunInv, DeviceHolds
<1> QED
  BY <1>3, <1>5 DEF RunInv, RunTypeOK, Driver, DriverState

\* The connect of its own device hangs the firmware under a run only if the
\* sniff's read failed, the image is too short for the sniff or is not
\* ISO9660, a stray identifier made it pass for UDF, or the driver is stale.
THEOREM OwnConnect == RunSpec => OwnConnectSafe
<1>1. RunInv /\ [RunNext]_runVars =>
         [ConnectLoop /\ hung' =>
             ~ run.read \/ ~ SniffTells(run.img) \/ driver["iso9660"] = "stale"
         ]_runVars
  BY OwnConnectStep
<1> QED
  BY <1>1, ActionProperty, PTL DEF OwnConnectSafe

\* The report is the difference to the state before the run, but for a failed
\* snapshot and for handle values that are used again.
THEOREM ReportDiff == RunSpec => ReportIsDiff
<1>1. RunInv /\ [RunNext]_runVars =>
         [Report => /\ run.blind \/ Listed \intersect run.before = {}
                    /\ volumes \ run.before \subseteq Listed \union run.reused]_runVars
  BY DEF RunInv, SnapshotHolds, Listed
<1> QED
  BY <1>1, ActionProperty, PTL DEF ReportIsDiff

\* The four ways out of a run.
LEMMA ExitSteps ==
    ASSUME RunInv, RunNext, Exits
    PROVE  LoopCreateFails \/ DriverFails \/ Report \/ ReportFails
<1>1. run \in Run /\ SnapshotHolds /\ run.pc # "idle" /\ run'.pc = "idle"
  BY DEF RunInv, RunTypeOK, Exits
<1>2. ASSUME NEW d \in Dev, NEW r \in NewHandle(run, d)
      PROVE  r \in Run /\ r.pc = run.pc
  BY <1>1, <1>2, Handle DEF SnapshotHolds
<1>3. ASSUME NEW d \in Dev, LoopCreateOk(d)
      PROVE  FALSE
  <2>1. PICK read \in BOOLEAN, r \in NewHandle(run, d) :
          run' = [r EXCEPT
                     !.pc = IF read /\ Iso9660(run.img) /\ ~ Udf(run.img)
                            THEN "driver" ELSE "connect",
                     !.loop = d, !.read = read]
    BY <1>3 DEF LoopCreateOk
  <2> QED
    BY <1>1, <1>2, <2>1
<1>4. ~ (DriverKnown \/ DriverLoads \/ ConnectLoop \/ ScanDone \/ RefreshFails \/ NameDone)
  <2>1. ASSUME NEW p \in {"connect", "rescan", "refresh", "report"}, Goto(p)
        PROVE  FALSE
    BY <1>1, <2>1, Went
  <2>2. ~ ConnectLoop
    BY <1>1 DEF ConnectLoop, Run
  <2> QED
    BY <2>1, <2>2 DEF DriverKnown, DriverLoads, AfterDriver, ScanDone, RefreshFails,
                      NameDone
<1>5. ~ (Rescan \/ Refresh)
  BY <1>1 DEF Rescan, Refresh, Run
<1>6. ASSUME NEW d \in Dev
      PROVE  ~ (ScanHandle(d) \/ NameSkip(d) \/ NameVolume(d) \/ SetMapFails(d) \/ Unplug(d))
  BY <1>1, <1>6 DEF ScanHandle, NameSkip, NameVolume, SetMapFails, Unplug, Run
<1>7. ASSUME NEW d \in Dev, NEW fs \in Media, Plug(d, fs)
      PROVE  FALSE
  BY <1>1, <1>2, <1>7 DEF Plug
<1>8. ~ (ShellMapR \/ \E f \in Driver : ShellLoad(f) \/ ShellUnload(f))
  BY <1>1 DEF ShellMapR, ShellLoad, ShellUnload
<1>9. ~ \E params \in Params : UefiMain(params)
  BY <1>1 DEF UefiMain, PrintHelp, Refuse, MountSelfTest, MountRunIso, MountRunFormat, At
<1> QED
  BY <1>3, <1>4, <1>5, <1>6, <1>7, <1>8, <1>9 DEF RunNext, RunStep, Environment

LEMMA ExitStatusStep ==
    ASSUME RunInv, RunNext, Exits
    PROVE  IF run'.status = "SUCCESS"
           THEN IF run.what = "iso" THEN run.loop \in loops'
                                    ELSE driver'[Needed] # "absent"
           ELSE run.loop = None /\ volumes' = volumes
<1>1. ASSUME NEW status \in Status, Exit(status)
      PROVE  run'.status = status
  BY <1>1, Idle DEF Exit
<1>2. /\ run \in Run /\ run.what \in {"iso", "ntfs"}
      /\ run.loop \in loops \union {None}
      /\ run.what = "iso" <=> run.loop # None \/ run.pc = "create"
  BY DEF RunInv, RunTypeOK, RunHolds, Exits, Run
<1>3. CASE LoopCreateFails
  <2>1. PICK status \in CreateStatus : Exit(status)
    BY <1>3 DEF LoopCreateFails
  <2>2. run'.status = status /\ status # "SUCCESS"
    BY <1>1, <2>1 DEF Status, CreateStatus
  <2>3. run.loop = None /\ volumes' = volumes
    BY <1>3 DEF LoopCreateFails, At, RunInv, RunHolds, world
  <2> QED
    BY <2>2, <2>3
<1>4. CASE DriverFails
  <2>1. run.pc = "driver" /\ UNCHANGED <<loops, volumes>>
    BY <1>4 DEF DriverFails, At
  <2>2. CASE run.what = "iso"
    <3>1. Exit("SUCCESS")
      BY <1>4, <2>2 DEF DriverFails
    <3>2. run'.status = "SUCCESS" /\ run.loop \in loops'
      BY <1>1, <1>2, <2>1, <2>2, <3>1 DEF Status
    <3> QED
      BY <2>2, <3>2
  <2>3. CASE run.what = "ntfs"
    <3>1. PICK status \in {"DRIVER_MISSING", "SECURE_BOOT"} : Exit(status)
      BY <1>4, <2>3 DEF DriverFails
    <3>2. run'.status # "SUCCESS" /\ run.loop = None /\ volumes' = volumes
      BY <1>1, <1>2, <2>1, <2>3, <3>1 DEF Status, CreateStatus
    <3> QED
      BY <3>2
  <2> QED
    BY <1>2, <2>2, <2>3
<1>5. CASE Report \/ ReportFails
  <2>1. run.pc = "report" /\ Exit("SUCCESS") /\ UNCHANGED <<loops, driver>>
    BY <1>5 DEF Report, ReportFails, At, world
  <2>2. run'.status = "SUCCESS"
    BY <1>1, <2>1 DEF Status
  <2>3. run.what = "iso" => run.loop \in loops'
    BY <1>2, <2>1
  <2>4. run.what # "iso" => driver'[Needed] # "absent"
    BY <1>2, <2>1 DEF RunInv, Achieved, Needed
  <2> QED
    BY <2>2, <2>3, <2>4
<1> QED
  BY <1>3, <1>4, <1>5, ExitSteps

\* The exit status says what the run leaves behind: its loop device or its
\* driver if it is a success, no device and no volume of its own otherwise.
THEOREM StatusTrue == RunSpec => ExitStatus
<1>1. RunInv /\ [RunNext]_runVars =>
         [Exits =>
            IF run'.status = "SUCCESS"
            THEN IF run.what = "iso" THEN run.loop \in loops'
                                     ELSE driver'[Needed] # "absent"
            ELSE run.loop = None /\ volumes' = volumes]_runVars
  BY ExitStatusStep
<1> QED
  BY <1>1, ActionProperty, PTL DEF ExitStatus
=============================================================================
