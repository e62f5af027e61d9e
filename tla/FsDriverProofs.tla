--------------------------- MODULE FsDriverProofs ---------------------------
(***************************************************************************)
(* Proofs about the loading of drivers, for any drivers, any directory of  *)
(* the program, any paths a user loads from and any number of images.      *)
(* DriverInv of FsDriver is the inductive invariant.                       *)
(***************************************************************************)
EXTENDS FsDriver, SequenceTheorems, TLAPS

-----------------------------------------------------------------------------
(* The path of the program's own copy *)

\* A concatenation ends with its second part.
LEMMA ConcatEndsWith ==
    ASSUME NEW s \in Seq(STRING), NEW t \in Seq(STRING)
    PROVE  EndsWith(s \o t, t)
<1>1. s \o t \in Seq(STRING) /\ Len(s \o t) = Len(s) + Len(t)
  BY ConcatProperties
<1>2. Len(s) \in Nat /\ Len(t) \in Nat
  BY LenProperties
<1> DEFINE tail == SubSeq(s \o t, Len(s) + 1, Len(s) + Len(t))
<1>3. tail \in Seq(STRING) /\ Len(tail) = Len(t)
  BY <1>1, <1>2, SubSeqProperties
<1>4. \A i \in 1..Len(t) : tail[i] = t[i]
  <2> SUFFICES ASSUME NEW i \in 1..Len(t) PROVE tail[i] = t[i]
    OBVIOUS
  <2>1. tail[i] = (s \o t)[Len(s) + 1 + i - 1]
    BY <1>1, <1>2, SubSeqProperties
  <2>2. Len(s) + 1 + i - 1 = Len(s) + i
    BY <1>2
  <2>3. (s \o t)[Len(s) + i] = t[i]
    BY <1>2, ConcatProperties
  <2> HIDE DEF tail
  <2> QED
    BY <2>1, <2>2, <2>3, Zenon
<1>5. tail = t
  BY <1>3, <1>4, SeqEqual
<1> QED
  BY <1>1, <1>2, <1>5 DEF EndsWith

\* So the program's own copy counts as the driver.
LEMMA OwnCopyCounts ==
    ASSUME NEW f \in Driver
    PROVE  /\ SelfDir \o RelPath[f] \in Path
           /\ EndsWith(SelfDir \o RelPath[f], RelPath[f])
<1>1. RelPath[f] \in Seq(STRING) /\ SelfDir \in Seq(STRING)
  BY DriverConstants
<1> QED
  BY <1>1, ConcatEndsWith DEF Path

-----------------------------------------------------------------------------
(* The inductive invariant *)

\* It holds at the start.
LEMMA DriverInit_Inv == DriverInit => DriverInv
BY DEF DriverInit, DriverInv, DriverTypeOK, NoHalfStartedImage, LoadConsistent,
       Loaded, LoadStatus

\* The dedupe: where the call goes on, no image has the driver's name, or the
\* call is blind.
LEMMA DedupeInv ==
    ASSUME DriverInv,
           MountLoadNothing \/ \E f \in Driver : MountLoadDriver(f)
                                                    \/ MountLoadDriverBlind(f)
    PROVE  DriverInv'
<1> USE DEF DriverInv, DriverTypeOK, LoadIdle
<1>1. CASE MountLoadNothing
  BY <1>1 DEF MountLoadNothing, NoHalfStartedImage, LoadConsistent, Loaded,
              LoadStatus
<1>2. ASSUME NEW f \in Driver, MountLoadDriver(f)
      PROVE  DriverInv'
  BY <1>2 DEF MountLoadDriver, MountDriverLoaded, NoHalfStartedImage,
              LoadConsistent, Loaded, LoadStatus
<1>3. ASSUME NEW f \in Driver, MountLoadDriverBlind(f)
      PROVE  DriverInv'
  BY <1>3 DEF MountLoadDriverBlind, NoHalfStartedImage, LoadConsistent, Loaded,
              LoadStatus
<1> QED
  BY <1>1, <1>2, <1>3

\* LoadImage: an image of the program's own copy, refused or about to start.
LEMMA LoadImageInv ==
    ASSUME DriverInv,
           \/ SelfPathFails \/ LoadImageFails
           \/ \E i \in ImageHandle : LoadImageRefused(i) \/ LoadImageOk(i)
    PROVE  DriverInv'
<1> USE DEF DriverInv, DriverTypeOK
<1>1. CASE SelfPathFails \/ LoadImageFails
  BY <1>1 DEF SelfPathFails, LoadImageFails, LoadReturns, NoHalfStartedImage,
              LoadConsistent, Loaded, LoadStatus
<1>2. ASSUME NEW i \in ImageHandle, LoadImageRefused(i) \/ LoadImageOk(i)
      PROVE  DriverInv'
  <2> DEFINE image(s) == [path |-> SelfDir \o RelPath[load.file], state |-> s]
  <2>1. load.pc = "load" /\ load.file \in Driver /\ images[i] = Nothing
    BY <1>2 DEF LoadImageRefused, LoadImageOk, LoadConsistent
  <2>2. \A s \in ImageState : image(s) \in Image /\ image(s) # Nothing
    <3>1. SelfDir \o RelPath[load.file] \in Path
      BY <2>1, OwnCopyCounts
    <3>2. \A s \in ImageState : image(s) \in Image
      BY <3>1 DEF Image
    <3> QED
      BY <3>2, DriverConstants
  <2>3. CASE LoadImageRefused(i)
    <3>1. image("refused") \in Image /\ image("refused") # Nothing
      BY <2>2 DEF ImageState
    <3>2. images' = [images EXCEPT ![i] = image("refused")]
      BY <2>3 DEF LoadImageRefused
    <3>3. load' = [load EXCEPT !.pc = "idle", !.status = "SECURE_BOOT",
                               !.image = Nothing] /\ files' = files
      BY <2>3 DEF LoadImageRefused, LoadReturns
    <3>4. DriverTypeOK'
      BY <3>1, <3>2, <3>3 DEF LoadStatus
    <3>5. NoHalfStartedImage'
      BY <2>1, <3>1, <3>2, <3>3 DEF NoHalfStartedImage, Loaded
    <3> QED
      BY <3>3, <3>4, <3>5 DEF LoadConsistent
  <2>4. CASE LoadImageOk(i)
    <3>1. image("loaded") \in Image /\ image("loaded") # Nothing
      BY <2>2 DEF ImageState
    <3>2. images' = [images EXCEPT ![i] = image("loaded")]
      BY <2>4 DEF LoadImageOk
    <3>3. load' = [load EXCEPT !.pc = "start", !.image = i] /\ files' = files
      BY <2>4 DEF LoadImageOk
    <3>4. DriverTypeOK'
      BY <3>1, <3>2, <3>3
    <3>5. NoHalfStartedImage'
      BY <2>1, <3>1, <3>2, <3>3 DEF NoHalfStartedImage, Loaded
    <3>6. LoadConsistent'
      BY <2>1, <3>1, <3>2, <3>3 DEF LoadConsistent, Loaded
    <3> QED
      BY <3>4, <3>5, <3>6
  <2> QED
    BY <1>2, <2>3, <2>4
<1> QED
  BY <1>1, <1>2

\* StartImage: the image runs, or is unloaded.
LEMMA StartImageInv ==
    ASSUME DriverInv, StartImageOk \/ StartImageFails
    PROVE  DriverInv'
<1> USE DEF DriverInv, DriverTypeOK
<1>1. /\ load.pc = "start" /\ load.image \in ImageHandle
      /\ images[load.image] \in Image /\ images[load.image] # Nothing
      /\ files' = files
  BY DEF StartImageOk, StartImageFails, LoadConsistent, Loaded
<1>2. \E status \in LoadStatus :
         load' = [load EXCEPT !.pc = "idle", !.status = status, !.image = Nothing]
  BY DEF StartImageOk, StartImageFails, LoadReturns, LoadStatus
<1>3. CASE StartImageOk
  <2> DEFINE running == [images[load.image] EXCEPT !.state = "running"]
  <2>1. images' = [images EXCEPT ![load.image] = running]
    BY <1>3 DEF StartImageOk
  <2>2. running \in Image /\ running # Nothing /\ running.state # "loaded"
    BY <1>1, DriverConstants DEF Image, ImageState
  <2> HIDE DEF running
  <2>3. DriverTypeOK'
    BY <1>1, <1>2, <2>1, <2>2
  <2>4. NoHalfStartedImage'
    BY <1>1, <1>2, <2>1, <2>2 DEF NoHalfStartedImage, Loaded
  <2> QED
    BY <1>2, <2>3, <2>4 DEF LoadConsistent
<1>4. CASE StartImageFails
  <2>1. images' = [images EXCEPT ![load.image] = Nothing]
    BY <1>4 DEF StartImageFails
  <2>2. NoHalfStartedImage'
    BY <1>1, <1>2, <2>1 DEF NoHalfStartedImage, Loaded
  <2> QED
    BY <1>1, <1>2, <2>1, <2>2 DEF LoadConsistent
<1> QED
  BY <1>3, <1>4

\* Between calls the user loads, unloads and copies as he likes.
LEMMA ShellInv ==
    ASSUME DriverInv, Shell
    PROVE  DriverInv'
<1> USE DEF DriverInv, DriverTypeOK, LoadIdle
<1>1. ASSUME NEW p \in ShellPath, NEW i \in ImageHandle, ShellLoad(p, i)
      PROVE  DriverInv'
  <2> DEFINE image == [path |-> p, state |-> "running"]
  <2>1. image \in Image /\ image # Nothing
    BY DriverConstants DEF Image, Path, ImageState
  <2>2. images' = [images EXCEPT ![i] = image] /\ UNCHANGED <<files, load>>
    BY <1>1 DEF ShellLoad
  <2>3. load.pc = "idle"
    BY <1>1 DEF ShellLoad
  <2>4. NoHalfStartedImage'
    BY <2>1, <2>2, <2>3 DEF NoHalfStartedImage, Loaded
  <2> QED
    BY <2>1, <2>2, <2>3, <2>4 DEF LoadConsistent
<1>2. ASSUME NEW i \in ImageHandle, ShellUnload(i)
      PROVE  DriverInv'
  BY <1>2 DEF ShellUnload, NoHalfStartedImage, LoadConsistent, Loaded
<1>3. ASSUME NEW f \in Driver, NEW s \in FileState, CopyFile(f, s)
      PROVE  DriverInv'
  BY <1>3 DEF CopyFile, NoHalfStartedImage, LoadConsistent, Loaded
<1> QED
  BY <1>1, <1>2, <1>3 DEF Shell

\* Every step preserves it.
LEMMA DriverStepInv == DriverInv /\ [DriverNext]_driverVars => DriverInv'
<1> SUFFICES ASSUME DriverInv, [DriverNext]_driverVars PROVE DriverInv'
  OBVIOUS
<1>1. CASE UNCHANGED driverVars
  BY <1>1 DEF driverVars, DriverInv, DriverTypeOK, NoHalfStartedImage,
              LoadConsistent, Loaded
<1>2. CASE DriverNext
  BY <1>2, DedupeInv, LoadImageInv, StartImageInv, ShellInv
  DEF DriverNext, LoadStep
<1> QED
  BY <1>1, <1>2

\* In every reachable state the table and the call agree: no half-started
\* image is left, whatever LoadImage and StartImage do.
THEOREM DriverInvariance == DriverSpec => []DriverInv
BY DriverInit_Inv, DriverStepInv, PTL DEF DriverSpec

-----------------------------------------------------------------------------
(* What a call promises *)

\* No second copy of a driver is ever started by a call that could look.
THEOREM LoadedOnce == DriverSpec => NeverLoadedTwice
<1>1. DriverInv /\ [DriverNext]_driverVars =>
        [StartImageOk /\ ~ load.blind =>
           \A i \in Loaded : EndsWith(images[i].path, RelPath[load.file])
                                => i = load.image]_driverVars
  BY DEF DriverInv, LoadConsistent, StartImageOk
<1> QED
  BY <1>1, DriverInvariance, PTL DEF DriverSpec, NeverLoadedTwice

\* The dedupe succeeds on an image that runs or was refused.
LEMMA DedupeSound ==
    ASSUME DriverInv, NEW f \in Driver, MountLoadDriver(f), load'.pc = "idle"
    PROVE  \/ Running(load.file)'
           \/ \E i \in Loaded : /\ images[i].state = "refused"
                                /\ EndsWith(images[i].path, RelPath[load'.file])
<1>1. load.pc = "idle" /\ load'.file = f /\ images' = images
  BY DEF MountLoadDriver, LoadIdle
<1>2. PICK i \in Loaded : EndsWith(images[i].path, RelPath[f])
  BY DEF MountLoadDriver, MountDriverLoaded
<1>3. images[i].state \in {"refused", "running"}
  BY <1>1 DEF DriverInv, DriverTypeOK, NoHalfStartedImage, Loaded, Image,
              ImageState
<1> QED
  BY <1>1, <1>2, <1>3 DEF Running, Loaded

\* The image StartImage has run is the driver.
LEMMA StartSound ==
    ASSUME DriverInv, StartImageOk
    PROVE  Running(load.file)'
<1>1. /\ load.file \in Driver /\ load.image \in ImageHandle
      /\ images[load.image] \in Image
      /\ images[load.image].path = SelfDir \o RelPath[load.file]
  BY DEF DriverInv, DriverTypeOK, LoadConsistent, StartImageOk, Loaded
<1> DEFINE running == [images[load.image] EXCEPT !.state = "running"]
<1>2. images' = [images EXCEPT ![load.image] = running]
  BY DEF StartImageOk
<1>3. /\ running \in Image /\ running # Nothing /\ running.state = "running"
      /\ EndsWith(running.path, RelPath[load.file])
  BY <1>1, OwnCopyCounts, DriverConstants DEF Image, ImageState
<1>4. load'.file = load.file
  BY DEF DriverInv, DriverTypeOK, StartImageOk, LoadReturns
<1> HIDE DEF running
<1>5. images'[load.image] = running
  BY <1>1, <1>2 DEF DriverInv, DriverTypeOK
<1> QED
  BY <1>1, <1>3, <1>4, <1>5 DEF Running, Loaded

\* Success means that the driver runs, or that Secure Boot has refused it
\* before.
THEOREM SuccessSound == DriverSpec => SuccessMeansRunningOrRefused
<1> DEFINE Good == \/ Running(load.file)'
                   \/ \E i \in Loaded :
                         /\ images[i].state = "refused"
                         /\ EndsWith(images[i].path, RelPath[load'.file])
<1>1. ASSUME DriverInv, DriverNext, Succeeds PROVE Good
  <2>1. CASE \E f \in Driver : MountLoadDriver(f)
    BY <1>1, <2>1, DedupeSound DEF Succeeds
  <2>2. CASE load.pc # "idle"
    <3>1. StartImageOk
      BY <1>1, <2>2 DEF DriverInv, DriverTypeOK, Succeeds, DriverNext, LoadStep,
             LoadIdle, LoadReturns, MountLoadDriver, MountLoadDriverBlind,
             MountLoadNothing, SelfPathFails, LoadImageFails, LoadImageRefused,
             LoadImageOk, StartImageFails, Shell, ShellLoad, ShellUnload, CopyFile
    <3> QED
      BY <1>1, <3>1, StartSound
  <2> QED
    BY <1>1, <2>1, <2>2 DEF Succeeds
<1>2. DriverInv /\ [DriverNext]_driverVars => [Succeeds => Good]_driverVars
  BY <1>1
<1> QED
  BY <1>2, DriverInvariance, PTL DEF DriverSpec, SuccessMeansRunningOrRefused

-----------------------------------------------------------------------------
(* The refinement *)

\* An entry of the table decides the state of driver f.
Counts(entry, f) == /\ entry # Nothing
                    /\ entry.state # "loaded"
                    /\ EndsWith(entry.path, RelPath[f])

\* Only a driver no entry decides is absent.
LEMMA AbsentUndecided ==
    ASSUME DriverInv, load.pc = "idle", NEW f \in Driver
    PROVE  StateOf(f) = "absent" <=> ~ MountDriverLoaded(f)
<1>1. \A i \in Loaded : images[i].state \in {"refused", "running"}
  BY DEF DriverInv, DriverTypeOK, NoHalfStartedImage, Loaded, Image, ImageState
<1> QED
  BY <1>1 DEF StateOf, Running, MountDriverLoaded

\* A change of an entry that decides nothing about f before or after leaves
\* f's state alone.
LEMMA StateKept ==
    ASSUME DriverTypeOK, NEW i \in ImageHandle, NEW f \in Driver,
           NEW entry, images' = [images EXCEPT ![i] = entry],
           ~ Counts(images[i], f), ~ Counts(entry, f)
    PROVE  StateOf(f)' = StateOf(f)
<1>1. /\ \A j \in ImageHandle \ {i} : images'[j] = images[j]
      /\ images'[i] = entry
  BY DEF DriverTypeOK
<1>2. Running(f)' <=> Running(f)
  BY <1>1 DEF Running, Loaded, Counts
<1>3. (\E j \in Loaded : /\ images[j].state = "refused"
                         /\ EndsWith(images[j].path, RelPath[f]))' <=>
      \E j \in Loaded : /\ images[j].state = "refused"
                        /\ EndsWith(images[j].path, RelPath[f])
  BY <1>1 DEF Loaded, Counts
<1> QED
  BY <1>2, <1>3 DEF StateOf

\* An entry decides about one driver at most.
LEMMA OneDriver ==
    ASSUME NEW entry \in Image \union {Nothing}, NEW f \in Driver, NEW g \in Driver,
           Counts(entry, f), Counts(entry, g)
    PROVE  f = g
BY DriverNames DEF Counts, Image

\* So a step that changes one entry, which decides about f or nothing, changes
\* f's state or nothing.
LEMMA OneStateChanges ==
    ASSUME DriverTypeOK, NEW i \in ImageHandle, NEW f \in Driver,
           NEW entry, images' = [images EXCEPT ![i] = entry],
           \A g \in Driver \ {f} : ~ Counts(images[i], g) /\ ~ Counts(entry, g)
    PROVE  DriverStates' = [DriverStates EXCEPT ![f] = StateOf(f)']
<1>1. \A g \in Driver \ {f} : StateOf(g)' = StateOf(g)
  BY StateKept
<1> QED
  BY <1>1 DEF DriverStates

\* The call in progress, which is about f, returns.
LEMMA Returning ==
    ASSUME DriverInv, NEW f \in Driver, load.pc # "idle", load.file = f,
           load'.pc = "idle", load'.blind = load.blind,
           DriverStates' = [DriverStates EXCEPT ![f] = StateOf(f)'],
           StateOf(f) # "absent" => StateOf(f)' \in {StateOf(f), "running"}
    PROVE  Table!EndLoad
<1>1. LoadingFile = f /\ LoadingFile' = Nothing /\ f # Nothing
  BY DriverConstants DEF LoadingFile, LoadIdle
<1>2. DriverStates[f] = StateOf(f)
  BY DEF DriverStates
<1>3. StateOf(f)' \in {"absent", "stale", "running"}
  BY DEF StateOf
<1> QED
  BY <1>1, <1>2, <1>3 DEF Table!EndLoad, Table!DriverState

\* A step that leaves the image table alone leaves the states alone.
LEMMA SameImages == images' = images => DriverStates' = DriverStates
BY DEF DriverStates, StateOf, Running, Loaded

\* The call begins, or finds the driver there, or has nothing to load.
LEMMA DedupeRefines ==
    ASSUME DriverInv,
           MountLoadNothing \/ \E f \in Driver : MountLoadDriver(f)
                                                    \/ MountLoadDriverBlind(f)
    PROVE  Table!NothingToLoad \/ \E f \in Driver : Table!BeginLoad(f)
<1>1. load.pc = "idle" /\ LoadingFile = Nothing /\ DriverStates' = DriverStates
  BY SameImages
  DEF MountLoadNothing, MountLoadDriver, MountLoadDriverBlind, LoadIdle,
      LoadingFile
<1>2. CASE MountLoadNothing
  BY <1>1, <1>2 DEF MountLoadNothing, Table!NothingToLoad, LoadingFile, LoadIdle
<1>3. ASSUME NEW f \in Driver, MountLoadDriver(f)
      PROVE  Table!NothingToLoad \/ Table!BeginLoad(f)
  <2>1. CASE MountDriverLoaded(f)
    BY <1>1, <1>3, <2>1
    DEF MountLoadDriver, Table!NothingToLoad, LoadingFile, LoadIdle
  <2>2. CASE ~ MountDriverLoaded(f)
    <3>1. DriverStates[f] = "absent"
      BY <1>1, <2>2, AbsentUndecided DEF DriverStates
    <3>2. LoadingFile' = f /\ load'.blind = FALSE
      BY <1>3, <2>2 DEF MountLoadDriver, LoadingFile, LoadIdle
    <3> QED
      BY <1>1, <3>1, <3>2 DEF Table!BeginLoad
  <2> QED
    BY <2>1, <2>2
<1>4. ASSUME NEW f \in Driver, MountLoadDriverBlind(f)
      PROVE  Table!BeginLoad(f)
  <2>1. DriverStates[f] # "absent"
    BY <1>1, <1>4, AbsentUndecided DEF DriverStates, MountLoadDriverBlind
  <2>2. LoadingFile' = f /\ load'.blind = TRUE
    BY <1>4 DEF MountLoadDriverBlind, LoadingFile, LoadIdle
  <2> QED
    BY <1>1, <2>1, <2>2 DEF Table!BeginLoad
<1> QED
  BY <1>2, <1>3, <1>4

\* A step of a call about f that changes the entry of its own copy changes
\* the state of f or nothing.
LEMMA OwnEntry ==
    ASSUME DriverInv, NEW f \in Driver, load.pc # "idle", load.file = f,
           NEW i \in ImageHandle, NEW entry,
           images' = [images EXCEPT ![i] = entry],
           images[i] = Nothing \/ (load.pc = "start" /\ i = load.image),
           entry # Nothing => entry.path = SelfDir \o RelPath[f]
    PROVE  DriverStates' = [DriverStates EXCEPT ![f] = StateOf(f)']
<1>1. DriverTypeOK
  BY DEF DriverInv
<1>2. \A g \in Driver : ~ Counts(images[i], g)
  BY DEF Counts, DriverInv, NoHalfStartedImage, LoadConsistent
<1> DEFINE own == SelfDir \o RelPath[f]
<1>3. own \in Path /\ EndsWith(own, RelPath[f])
  BY OwnCopyCounts
<1> HIDE DEF own
<1>4. \A g \in Driver \ {f} : ~ EndsWith(own, RelPath[g])
  BY <1>3, DriverNames
<1>5. entry # Nothing => entry.path = own
  BY DEF own
<1>6. \A g \in Driver \ {f} : ~ Counts(entry, g)
  BY <1>4, <1>5 DEF Counts
<1> QED
  BY <1>1, <1>2, <1>6, OneStateChanges

\* The same, when the entry neither did nor does decide anything.
LEMMA StatesKept ==
    ASSUME DriverTypeOK, NEW i \in ImageHandle, NEW entry,
           images' = [images EXCEPT ![i] = entry],
           \A g \in Driver : ~ Counts(images[i], g) /\ ~ Counts(entry, g)
    PROVE  DriverStates' = DriverStates
BY StateKept DEF DriverStates

\* A failure before or in LoadImage ends the call with nothing changed.
LEMMA FailureRefines ==
    ASSUME DriverInv, SelfPathFails \/ LoadImageFails
    PROVE  Table!EndLoad
<1>1. PICK f \in Driver : load.file = f
  BY DEF DriverInv, LoadConsistent, SelfPathFails, LoadImageFails
<1>2. images' = images /\ load.pc = "load" /\ load'.pc = "idle"
      /\ load'.blind = load.blind
  BY DEF SelfPathFails, LoadImageFails, LoadReturns, DriverInv, DriverTypeOK
<1>3. DriverStates' = DriverStates /\ StateOf(f)' = StateOf(f)
  BY <1>2, SameImages DEF StateOf, Running, Loaded
<1>4. DriverStates' = [DriverStates EXCEPT ![f] = StateOf(f)']
  BY <1>3 DEF DriverStates
<1> QED
  BY <1>1, <1>2, <1>3, <1>4, Returning

\* A refusal makes an absent driver stale and ends the call.
LEMMA RefusalRefines ==
    ASSUME DriverInv, NEW i \in ImageHandle, LoadImageRefused(i)
    PROVE  Table!EndLoad
<1>1. PICK f \in Driver : load.file = f
  BY DEF DriverInv, LoadConsistent, LoadImageRefused
<1> DEFINE entry == [path |-> SelfDir \o RelPath[f], state |-> "refused"]
<1>2. /\ images[i] = Nothing /\ images' = [images EXCEPT ![i] = entry]
      /\ load.pc = "load" /\ load'.pc = "idle" /\ load'.blind = load.blind
  BY <1>1 DEF LoadImageRefused, LoadReturns, DriverInv, DriverTypeOK
<1>3. entry.path = SelfDir \o RelPath[f] /\ entry.state = "refused"
  OBVIOUS
<1>4. entry \in Image /\ entry # Nothing /\ EndsWith(entry.path, RelPath[f])
  <2>1. entry \in Image
    BY OwnCopyCounts DEF Image, ImageState
  <2> QED
    BY <2>1, OwnCopyCounts, DriverConstants
<1> HIDE DEF entry
<1>5. DriverStates' = [DriverStates EXCEPT ![f] = StateOf(f)']
  BY <1>1, <1>2, <1>3, OwnEntry
<1>6. /\ Running(f)' <=> Running(f)
      /\ StateOf(f)' # "absent"
  BY <1>2, <1>3, <1>4 DEF StateOf, Running, Loaded, DriverInv, DriverTypeOK
<1>7. StateOf(f) # "absent" => StateOf(f)' \in {StateOf(f), "running"}
  BY <1>6 DEF StateOf
<1> QED
  BY <1>1, <1>2, <1>5, <1>7, Returning

\* An image that has only been loaded decides nothing yet.
LEMMA LoadRefines ==
    ASSUME DriverInv, NEW i \in ImageHandle, LoadImageOk(i)
    PROVE  DriverStates' = DriverStates /\ LoadingFile' = LoadingFile
           /\ load'.blind = load.blind
<1> DEFINE entry == [path |-> SelfDir \o RelPath[load.file], state |-> "loaded"]
<1>1. images[i] = Nothing /\ images' = [images EXCEPT ![i] = entry]
  BY DEF LoadImageOk
<1>2. \A g \in Driver : ~ Counts(images[i], g) /\ ~ Counts(entry, g)
  BY <1>1 DEF Counts
<1>3. /\ load.pc = "load" /\ load'.pc = "start" /\ load'.file = load.file
      /\ load'.blind = load.blind
  BY DEF LoadImageOk, DriverInv, DriverTypeOK
<1> HIDE DEF entry
<1>4. DriverStates' = DriverStates
  BY <1>1, <1>2, StatesKept DEF DriverInv
<1> QED
  BY <1>3, <1>4 DEF LoadingFile, LoadIdle

\* An entry point that has run ends the call with its driver running.
LEMMA StartRefines ==
    ASSUME DriverInv, StartImageOk
    PROVE  Table!EndLoad
<1>1. PICK f \in Driver : load.file = f
  BY DEF DriverInv, LoadConsistent, StartImageOk
<1> DEFINE i == load.image
           entry == [images[i] EXCEPT !.state = "running"]
<1>2. /\ i \in ImageHandle /\ images[i] \in Image
      /\ images[i].path = SelfDir \o RelPath[f]
      /\ images' = [images EXCEPT ![i] = entry]
      /\ load.pc = "start" /\ load'.pc = "idle" /\ load'.blind = load.blind
      /\ load'.file = f
  BY <1>1 DEF StartImageOk, LoadReturns, DriverInv, DriverTypeOK,
              LoadConsistent, Loaded
<1>3. entry.path = SelfDir \o RelPath[f]
  BY <1>2 DEF Image
<1>4. Running(load.file)'
  BY StartSound
<1>5. StateOf(f)' = "running"
  BY <1>2, <1>4 DEF StateOf, Running
<1>6. DriverStates' = [DriverStates EXCEPT ![f] = StateOf(f)']
  <2> HIDE DEF entry
  <2> QED
    BY <1>1, <1>2, <1>3, OwnEntry
<1> QED
  BY <1>1, <1>2, <1>5, <1>6, Returning

\* One that fails is unloaded, and nothing has changed.
LEMMA StartFailureRefines ==
    ASSUME DriverInv, StartImageFails
    PROVE  Table!EndLoad
<1>1. PICK f \in Driver : load.file = f
  BY DEF DriverInv, LoadConsistent, StartImageFails
<1> DEFINE i == load.image
<1>2. /\ i \in ImageHandle /\ images[i] # Nothing /\ images[i].state = "loaded"
      /\ images' = [images EXCEPT ![i] = Nothing]
      /\ load.pc = "start" /\ load'.pc = "idle" /\ load'.blind = load.blind
  BY DEF StartImageFails, LoadReturns, DriverInv, DriverTypeOK,
         LoadConsistent, Loaded, NoHalfStartedImage
<1>3. DriverTypeOK
  BY DEF DriverInv
<1>4. ~ Counts(images[i], f) /\ ~ Counts(Nothing, f)
  BY <1>2 DEF Counts
<1>5. StateOf(f)' = StateOf(f)
  BY <1>2, <1>3, <1>4, StateKept
<1>6. DriverStates' = [DriverStates EXCEPT ![f] = StateOf(f)']
  BY <1>1, <1>2, OwnEntry
<1> QED
  BY <1>1, <1>2, <1>5, <1>6, Returning

\* Between calls the user changes the state of one driver at a time.
LEMMA ShellRefines ==
    ASSUME DriverInv, Shell
    PROVE  [Table!TableNext]_(Table!tableVars)
<1>1. load' = load /\ load.pc = "idle" /\ LoadingFile = Nothing /\ LoadingFile' = Nothing
  BY DEF Shell, ShellLoad, ShellUnload, CopyFile, LoadIdle, LoadingFile
<1>2. ASSUME NEW i \in ImageHandle, NEW entry \in Image \union {Nothing},
             images[i] = Nothing \/ entry = Nothing,
             images' = [images EXCEPT ![i] = entry]
      PROVE  [Table!TableNext]_(Table!tableVars)
  <2>1. DriverTypeOK /\ images[i] \in Image \union {Nothing}
    BY DEF DriverInv, DriverTypeOK
  <2>2. CASE \A g \in Driver : ~ Counts(images[i], g) /\ ~ Counts(entry, g)
    <3>1. DriverStates' = DriverStates
      BY <1>2, <2>1, <2>2, StatesKept
    <3> QED
      BY <1>1, <3>1 DEF Table!tableVars
  <2>3. ASSUME NEW f \in Driver, Counts(images[i], f) \/ Counts(entry, f)
        PROVE  Table!TableNext
    <3>1. \A g \in Driver \ {f} : ~ Counts(images[i], g) /\ ~ Counts(entry, g)
      BY <1>2, <2>1, <2>3, OneDriver DEF Counts
    <3>2. DriverStates' = [DriverStates EXCEPT ![f] = StateOf(f)']
      BY <1>2, <2>1, <3>1, OneStateChanges
    <3>3. StateOf(f)' \in Table!DriverState
      BY DEF StateOf, Table!DriverState
    <3>4. Table!ShellChange(f, StateOf(f)')
      BY <1>1, <3>2 DEF Table!ShellChange
    <3> QED
      BY <3>3, <3>4 DEF Table!TableNext
  <2> QED
    BY <2>2, <2>3
<1>3. ASSUME NEW p \in ShellPath, NEW i \in ImageHandle, ShellLoad(p, i)
      PROVE  [Table!TableNext]_(Table!tableVars)
  <2>1. [path |-> p, state |-> "running"] \in Image
    BY DEF Image, Path, ImageState
  <2> QED
    BY <1>2, <1>3, <2>1 DEF ShellLoad
<1>4. ASSUME NEW i \in ImageHandle, ShellUnload(i)
      PROVE  [Table!TableNext]_(Table!tableVars)
  BY <1>2, <1>4 DEF ShellUnload
<1>5. ASSUME NEW f \in Driver, NEW s \in FileState, CopyFile(f, s)
      PROVE  [Table!TableNext]_(Table!tableVars)
  BY <1>1, <1>5, SameImages DEF CopyFile, Table!tableVars
<1> QED
  BY <1>3, <1>4, <1>5 DEF Shell

\* The image table, searched by the end of a path, implements the table of
\* driver states.
THEOREM DriverRefinement == DriverSpec => TableSpec
<1>1. DriverInit => Table!TableInit
  BY DEF DriverInit, Table!TableInit, DriverStates, StateOf, Running, Loaded,
         LoadingFile, LoadIdle
<1>2. DriverInv /\ [DriverNext]_driverVars
        => [Table!TableNext]_(Table!tableVars)
  <2> SUFFICES ASSUME DriverInv, [DriverNext]_driverVars
               PROVE  [Table!TableNext]_(Table!tableVars)
    OBVIOUS
  <2>1. CASE UNCHANGED driverVars
    BY <2>1, SameImages DEF driverVars, Table!tableVars, LoadingFile, LoadIdle
  <2>2. CASE MountLoadNothing \/ \E f \in Driver : MountLoadDriver(f)
                                                     \/ MountLoadDriverBlind(f)
    BY <2>2, DedupeRefines DEF Table!TableNext
  <2>3. CASE SelfPathFails \/ LoadImageFails
    BY <2>3, FailureRefines DEF Table!TableNext
  <2>4. ASSUME NEW i \in ImageHandle, LoadImageRefused(i)
        PROVE  Table!EndLoad
    BY <2>4, RefusalRefines
  <2>5. ASSUME NEW i \in ImageHandle, LoadImageOk(i)
        PROVE  UNCHANGED Table!tableVars
    BY <2>5, LoadRefines DEF Table!tableVars
  <2>6. CASE StartImageOk
    BY <2>6, StartRefines DEF Table!TableNext
  <2>7. CASE StartImageFails
    BY <2>7, StartFailureRefines DEF Table!TableNext
  <2>8. CASE Shell
    BY <2>8, ShellRefines
  <2> QED
    BY <2>1, <2>2, <2>3, <2>4, <2>5, <2>6, <2>7, <2>8
    DEF DriverNext, LoadStep, Table!TableNext
<1> QED
  BY <1>1, <1>2, DriverInvariance, PTL DEF DriverSpec, TableSpec, Table!TableSpec
=============================================================================
