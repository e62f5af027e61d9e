-------------------------- MODULE LoopCreateProofs --------------------------
(***************************************************************************)
(* Proofs about LoopCreate, for every set of images and every word longer  *)
(* than the smallest images.  CreateInv of LoopCreate is the inductive     *)
(* invariant.                                                              *)
(***************************************************************************)
EXTENDS LoopCreate, TLAPS

-----------------------------------------------------------------------------
(* Sizes *)

\* What fits a word is not changed by taking it modulo the word.
LEMMA Fits == ASSUME NEW w \in Nat, NEW x \in Nat, x < w
              PROVE  x % w = x
  OBVIOUS

\* An image is a record whose size fits a word.
LEMMA ImageSize ==
    ASSUME NEW img \in Images
    PROVE  img.size \in Nat /\ img.size < WordSpan
  BY ImagesAssumption, WordSpanAssumption DEF ImageFile

\* The last block of a file that is big enough is the last whole one: the
\* size check in front of it keeps the subtraction from wrapping.
LEMMA LastBlockExact ==
    ASSUME NEW size \in Nat, size < WordSpan, BigEnough(size)
    PROVE  /\ LastBlockOf(size) \in 0..(WordSpan - 1)
           /\ (LastBlockOf(size) + 1) * LOOP_BLOCK_SIZE <= size
           /\ size < (LastBlockOf(size) + 2) * LOOP_BLOCK_SIZE
<1> DEFINE last == (size \div LOOP_BLOCK_SIZE) - 1
<1>1. /\ last \in Nat /\ last < WordSpan
      /\ (last + 1) * LOOP_BLOCK_SIZE <= size
      /\ size < (last + 2) * LOOP_BLOCK_SIZE
  BY WordSpanAssumption DEF BigEnough, LOOP_MIN_SIZE, LOOP_BLOCK_SIZE
<1> HIDE DEF last
<1>2. last % WordSpan = last
  BY <1>1, Fits, WordSpanAssumption
<1>3. LastBlockOf(size) = last
  BY <1>2 DEF LastBlockOf, last
<1> QED
  BY <1>1, <1>3, WordSpanAssumption

-----------------------------------------------------------------------------
(* The inductive invariant *)

\* Nothing is open or held before the first call.
LEMMA InitCreate == CreateInit => CreateInv
<1> SUFFICES ASSUME CreateInit PROVE CreateInv
  OBVIOUS
<1>1. PICK i \in Images : call = NewCall(i)
  BY ImagesAssumption DEF CreateInit
<1> USE <1>1, ImagesAssumption, WordAssumption, WordSpanAssumption
        DEF CreateInit, NewCall, NoDevice
<1>2. CreateTypeOK
  <2>1. call \in CreateCall
    BY DEF CreateCall
  <2>2. call.lastBlock = NoDevice
    OBVIOUS
  <2>3. call.lastBlock < WordSpan
    BY <2>2, WordSpanAssumption DEF NoDevice
  <2> QED
    BY <2>1, <2>3 DEF CreateTypeOK
<1>3. CallHolds
  BY DEF CallHolds
<1>4. ExitsSettled /\ DeviceInsideFile
  BY DEF ExitsSettled, DeviceInsideFile, Created
<1> QED
  BY <1>2, <1>3, <1>4 DEF CreateInv

\* A new call whose file opens.
LEMMA OpenImageInv ==
    ASSUME CreateInv, NEW i \in Images, OpenImage(i)
    PROVE  CreateInv'
<1> USE ImagesAssumption, WordSpanAssumption
        DEF CreateInv, NoDevice, OpenImage, NewCall, CallAt
<1>1. CreateTypeOK'
  <2>1. call' \in CreateCall
    BY DEF CreateCall
  <2>2. call'.lastBlock < WordSpan /\ resident' \in BOOLEAN
    BY DEF CreateTypeOK
  <2> QED
    BY <2>1, <2>2 DEF CreateTypeOK
<1>2. CallHolds'
  BY DEF CreateTypeOK, CreateCall, CallHolds
<1>3. ExitsSettled' /\ DeviceInsideFile'
  BY DEF CreateTypeOK, CreateCall, CallHolds, ExitsSettled,
         DeviceInsideFile, Created
<1> QED
  BY <1>1, <1>2, <1>3

\* A new call whose file does not open ends at once.
LEMMA OpenFailsInv ==
    ASSUME CreateInv, NEW i \in Images, OpenFails(i)
    PROVE  CreateInv'
<1> USE ImagesAssumption, WordSpanAssumption
        DEF CreateInv, NoDevice, OpenFails, NewCall, CallAt
<1>1. CreateTypeOK'
  <2>1. call' \in CreateCall
    BY DEF CreateCall
  <2>2. call'.lastBlock < WordSpan /\ resident' \in BOOLEAN
    BY DEF CreateTypeOK
  <2> QED
    BY <2>1, <2>2 DEF CreateTypeOK
<1>2. CallHolds'
  BY DEF CreateTypeOK, CreateCall, CallHolds
<1>3. ExitsSettled' /\ DeviceInsideFile'
  BY DEF CreateTypeOK, CreateCall, CallHolds, ExitsSettled,
         DeviceInsideFile, Created
<1> QED
  BY <1>1, <1>2, <1>3

\* The buffer for the file's information is held.
LEMMA AllocateInfoInv == CreateInv /\ AllocateInfo => CreateInv'
<1> SUFFICES ASSUME CreateInv, AllocateInfo PROVE CreateInv'
  OBVIOUS
<1> USE ImagesAssumption, WordSpanAssumption
        DEF CreateInv, NoDevice, AllocateInfo, CallAt
<1>1. CreateTypeOK'
  BY DEF CreateTypeOK, CreateCall
<1>2. CallHolds'
  BY DEF CreateTypeOK, CreateCall, CallHolds
<1>3. ExitsSettled' /\ DeviceInsideFile'
  BY DEF CreateTypeOK, CreateCall, CallHolds, ExitsSettled,
         DeviceInsideFile, Created
<1> QED
  BY <1>1, <1>2, <1>3

\* Without it the file is closed.
LEMMA AllocateInfoFailsInv == CreateInv /\ AllocateInfoFails => CreateInv'
<1> SUFFICES ASSUME CreateInv, AllocateInfoFails PROVE CreateInv'
  OBVIOUS
<1> USE ImagesAssumption, WordSpanAssumption
        DEF CreateInv, NoDevice, AllocateInfoFails, CallAt
<1>1. CreateTypeOK'
  BY DEF CreateTypeOK, CreateCall
<1>2. CallHolds'
  BY DEF CreateTypeOK, CreateCall, CallHolds
<1>3. ExitsSettled' /\ DeviceInsideFile'
  BY DEF CreateTypeOK, CreateCall, CallHolds, ExitsSettled,
         DeviceInsideFile, Created
<1> QED
  BY <1>1, <1>2, <1>3

\* The buffer has been read and freed.
LEMMA GetInfoOkInv == CreateInv /\ GetInfoOk => CreateInv'
<1> SUFFICES ASSUME CreateInv, GetInfoOk PROVE CreateInv'
  OBVIOUS
<1> USE ImagesAssumption, WordSpanAssumption
        DEF CreateInv, NoDevice, GetInfoOk, CallAt
<1>1. CreateTypeOK'
  BY DEF CreateTypeOK, CreateCall
<1>2. CallHolds'
  BY DEF CreateTypeOK, CreateCall, CallHolds
<1>3. ExitsSettled' /\ DeviceInsideFile'
  BY DEF CreateTypeOK, CreateCall, CallHolds, ExitsSettled,
         DeviceInsideFile, Created
<1> QED
  BY <1>1, <1>2, <1>3

\* The buffer is freed and the file closed.
LEMMA GetInfoFailsInv == CreateInv /\ GetInfoFails => CreateInv'
<1> SUFFICES ASSUME CreateInv, GetInfoFails PROVE CreateInv'
  OBVIOUS
<1> USE ImagesAssumption, WordSpanAssumption
        DEF CreateInv, NoDevice, GetInfoFails, CallAt
<1>1. CreateTypeOK'
  BY DEF CreateTypeOK, CreateCall
<1>2. CallHolds'
  BY DEF CreateTypeOK, CreateCall, CallHolds
<1>3. ExitsSettled' /\ DeviceInsideFile'
  BY DEF CreateTypeOK, CreateCall, CallHolds, ExitsSettled,
         DeviceInsideFile, Created
<1> QED
  BY <1>1, <1>2, <1>3

\* A file that is too small is closed.
LEMMA TooSmallInv == CreateInv /\ TooSmall => CreateInv'
<1> SUFFICES ASSUME CreateInv, TooSmall PROVE CreateInv'
  OBVIOUS
<1> USE ImagesAssumption, WordSpanAssumption
        DEF CreateInv, NoDevice, TooSmall, CallAt
<1>1. CreateTypeOK'
  BY DEF CreateTypeOK, CreateCall
<1>2. CallHolds'
  BY DEF CreateTypeOK, CreateCall, CallHolds
<1>3. ExitsSettled' /\ DeviceInsideFile'
  BY DEF CreateTypeOK, CreateCall, CallHolds, ExitsSettled,
         DeviceInsideFile, Created
<1> QED
  BY <1>1, <1>2, <1>3

\* The file's device path is held from here on.
LEMMA MountIsoFileDevicePathInv ==
    CreateInv /\ MountIsoFileDevicePath => CreateInv'
<1> SUFFICES ASSUME CreateInv, MountIsoFileDevicePath PROVE CreateInv'
  OBVIOUS
<1> USE ImagesAssumption, WordSpanAssumption
        DEF CreateInv, NoDevice, MountIsoFileDevicePath, CallAt
<1>1. CreateTypeOK'
  BY DEF CreateTypeOK, CreateCall
<1>2. CallHolds'
  BY DEF CreateTypeOK, CreateCall, CallHolds
<1>3. ExitsSettled' /\ DeviceInsideFile'
  BY DEF CreateTypeOK, CreateCall, CallHolds, ExitsSettled,
         DeviceInsideFile, Created
<1> QED
  BY <1>1, <1>2, <1>3

\* Without it the file is closed.
LEMMA PathFailsInv == CreateInv /\ PathFails => CreateInv'
<1> SUFFICES ASSUME CreateInv, PathFails PROVE CreateInv'
  OBVIOUS
<1> USE ImagesAssumption, WordSpanAssumption
        DEF CreateInv, NoDevice, PathFails, CallAt
<1>1. CreateTypeOK'
  BY DEF CreateTypeOK, CreateCall
<1>2. CallHolds'
  BY DEF CreateTypeOK, CreateCall, CallHolds
<1>3. ExitsSettled' /\ DeviceInsideFile'
  BY DEF CreateTypeOK, CreateCall, CallHolds, ExitsSettled,
         DeviceInsideFile, Created
<1> QED
  BY <1>1, <1>2, <1>3

\* Looking for the factory changes nothing that is held.
LEMMA LocateFactoryInv == CreateInv /\ LocateFactory => CreateInv'
<1> SUFFICES ASSUME CreateInv, LocateFactory PROVE CreateInv'
  OBVIOUS
<1> USE ImagesAssumption, WordSpanAssumption
        DEF CreateInv, NoDevice, LocateFactory, CallAt
<1>1. CreateTypeOK'
  BY DEF CreateTypeOK, CreateCall
<1>2. CallHolds'
  BY DEF CreateTypeOK, CreateCall, CallHolds
<1>3. ExitsSettled' /\ DeviceInsideFile'
  BY DEF CreateTypeOK, CreateCall, CallHolds, ExitsSettled,
         DeviceInsideFile, Created
<1> QED
  BY <1>1, <1>2, <1>3

\* No path to the driver: path and file are released.
LEMMA LoopPathFailsInv == CreateInv /\ LoopPathFails => CreateInv'
<1> SUFFICES ASSUME CreateInv, LoopPathFails PROVE CreateInv'
  OBVIOUS
<1> USE ImagesAssumption, WordSpanAssumption
        DEF CreateInv, NoDevice, LoopPathFails, Fails, FailsLeaving, CallAt
<1>1. CreateTypeOK'
  BY DEF CreateTypeOK, CreateCall
<1>2. CallHolds'
  BY DEF CreateTypeOK, CreateCall, CallHolds
<1>3. ExitsSettled' /\ DeviceInsideFile'
  BY DEF CreateTypeOK, CreateCall, CallHolds, ExitsSettled,
         DeviceInsideFile, Created
<1> QED
  BY <1>1, <1>2, <1>3

\* The driver image is loaded and not yet started.
LEMMA LoadLoopOkInv == CreateInv /\ LoadLoopOk => CreateInv'
<1> SUFFICES ASSUME CreateInv, LoadLoopOk PROVE CreateInv'
  OBVIOUS
<1> USE ImagesAssumption, WordSpanAssumption
        DEF CreateInv, NoDevice, LoadLoopOk, CallAt
<1>1. CreateTypeOK'
  BY DEF CreateTypeOK, CreateCall
<1>2. CallHolds'
  BY DEF CreateTypeOK, CreateCall, CallHolds
<1>3. ExitsSettled' /\ DeviceInsideFile'
  BY DEF CreateTypeOK, CreateCall, CallHolds, ExitsSettled,
         DeviceInsideFile, Created
<1> QED
  BY <1>1, <1>2, <1>3

\* No image: path and file are released.
LEMMA LoadLoopFailsInv == CreateInv /\ LoadLoopFails => CreateInv'
<1> SUFFICES ASSUME CreateInv, LoadLoopFails PROVE CreateInv'
  OBVIOUS
<1> USE ImagesAssumption, WordSpanAssumption
        DEF CreateInv, NoDevice, LoadLoopFails, Fails, FailsLeaving, CallAt
<1>1. CreateTypeOK'
  BY DEF CreateTypeOK, CreateCall
<1>2. CallHolds'
  BY DEF CreateTypeOK, CreateCall, CallHolds
<1>3. ExitsSettled' /\ DeviceInsideFile'
  BY DEF CreateTypeOK, CreateCall, CallHolds, ExitsSettled,
         DeviceInsideFile, Created
<1> QED
  BY <1>1, <1>2, <1>3

\* An image refused: path and file are released.
LEMMA LoadLoopRefusedInv == CreateInv /\ LoadLoopRefused => CreateInv'
<1> SUFFICES ASSUME CreateInv, LoadLoopRefused PROVE CreateInv'
  OBVIOUS
<1> USE ImagesAssumption, WordSpanAssumption
        DEF CreateInv, NoDevice, LoadLoopRefused, Fails, FailsLeaving, CallAt
<1>1. CreateTypeOK'
  BY DEF CreateTypeOK, CreateCall
<1>2. CallHolds'
  BY DEF CreateTypeOK, CreateCall, CallHolds
<1>3. ExitsSettled' /\ DeviceInsideFile'
  BY DEF CreateTypeOK, CreateCall, CallHolds, ExitsSettled,
         DeviceInsideFile, Created
<1> QED
  BY <1>1, <1>2, <1>3

\* The image runs and stays.
LEMMA StartLoopOkInv == CreateInv /\ StartLoopOk => CreateInv'
<1> SUFFICES ASSUME CreateInv, StartLoopOk PROVE CreateInv'
  OBVIOUS
<1> USE ImagesAssumption, WordSpanAssumption
        DEF CreateInv, NoDevice, StartLoopOk, CallAt
<1>1. CreateTypeOK'
  BY DEF CreateTypeOK, CreateCall
<1>2. CallHolds'
  BY DEF CreateTypeOK, CreateCall, CallHolds
<1>3. ExitsSettled' /\ DeviceInsideFile'
  BY DEF CreateTypeOK, CreateCall, CallHolds, ExitsSettled,
         DeviceInsideFile, Created
<1> QED
  BY <1>1, <1>2, <1>3

\* The image is unloaded, path and file are released.
LEMMA StartLoopFailsInv == CreateInv /\ StartLoopFails => CreateInv'
<1> SUFFICES ASSUME CreateInv, StartLoopFails PROVE CreateInv'
  OBVIOUS
<1> USE ImagesAssumption, WordSpanAssumption
        DEF CreateInv, NoDevice, StartLoopFails, Fails, FailsLeaving, CallAt
<1>1. CreateTypeOK'
  BY DEF CreateTypeOK, CreateCall
<1>2. CallHolds'
  BY DEF CreateTypeOK, CreateCall, CallHolds
<1>3. ExitsSettled' /\ DeviceInsideFile'
  BY DEF CreateTypeOK, CreateCall, CallHolds, ExitsSettled,
         DeviceInsideFile, Created
<1> QED
  BY <1>1, <1>2, <1>3

\* The image runs without a factory; path and file are released.
LEMMA NoFactoryPublishedInv == CreateInv /\ NoFactoryPublished => CreateInv'
<1> SUFFICES ASSUME CreateInv, NoFactoryPublished PROVE CreateInv'
  OBVIOUS
<1> USE ImagesAssumption, WordSpanAssumption
        DEF CreateInv, NoDevice, NoFactoryPublished, FailsLeaving, CallAt
<1>1. CreateTypeOK'
  BY DEF CreateTypeOK, CreateCall
<1>2. CallHolds'
  BY DEF CreateTypeOK, CreateCall, CallHolds
<1>3. ExitsSettled' /\ DeviceInsideFile'
  BY DEF CreateTypeOK, CreateCall, CallHolds, ExitsSettled, DeviceInsideFile,
         Created
<1> QED
  BY <1>1, <1>2, <1>3

\* No device: path and file are released.
LEMMA FactoryCreateFailsInv == CreateInv /\ FactoryCreateFails => CreateInv'
<1> SUFFICES ASSUME CreateInv, FactoryCreateFails PROVE CreateInv'
  OBVIOUS
<1> USE ImagesAssumption, WordSpanAssumption
        DEF CreateInv, NoDevice, FactoryCreateFails, Fails, FailsLeaving, CallAt
<1>1. CreateTypeOK'
  BY DEF CreateTypeOK, CreateCall
<1>2. CallHolds'
  BY DEF CreateTypeOK, CreateCall, CallHolds
<1>3. ExitsSettled' /\ DeviceInsideFile'
  BY DEF CreateTypeOK, CreateCall, CallHolds, ExitsSettled,
         DeviceInsideFile, Created
<1> QED
  BY <1>1, <1>2, <1>3

\* The sniff only looks, and only at files that are big enough.
LEMMA SniffInv == CreateInv /\ LoopSniff => CreateInv'
<1> SUFFICES ASSUME CreateInv, LoopSniff PROVE CreateInv'
  OBVIOUS
<1> USE DEF CreateInv, LoopSniff, CallAt
<1> DEFINE new == [iso |-> Iso9660(call.img), udf |-> Udf(call.img)]
<1>1. new \in [iso : BOOLEAN, udf : BOOLEAN]
  BY DEF Iso9660, Udf
<1>2. /\ new.iso <=> Iso9660(call.img)
      /\ new.udf <=> Udf(call.img)
  OBVIOUS
<1>3. \/ call' = [call EXCEPT !.pc = "path", !.read = TRUE, !.sniff = new]
      \/ call' = [call EXCEPT !.pc = "path"]
  OBVIOUS
<1> HIDE DEF new
<1>4. CreateTypeOK'
  BY <1>1, <1>3 DEF CreateTypeOK, CreateCall
<1>5. /\ call'.pc = "path" /\ call'.img = call.img /\ BigEnough(call.img.size)
  BY <1>3 DEF CreateTypeOK, CreateCall
<1>6. \/ call'.sniff = new
      \/ call'.read = call.read /\ call'.sniff = call.sniff
  BY <1>3 DEF CreateTypeOK, CreateCall
<1>7. CallHolds'
  <2>1. call'.read => /\ call'.sniff.iso <=> Iso9660(call'.img)
                      /\ call'.sniff.udf <=> Udf(call'.img)
    BY <1>2, <1>5, <1>6 DEF CallHolds
  <2> QED
    BY <1>3, <1>5, <2>1 DEF CreateTypeOK, CreateCall, CallHolds
<1>8. ExitsSettled' /\ DeviceInsideFile'
  BY <1>5 DEF ExitsSettled, DeviceInsideFile, Created
<1> QED
  BY <1>4, <1>7, <1>8

\* The factory takes the file, and a block count that fits it.
LEMMA FactoryCreateOkInv == CreateInv /\ FactoryCreateOk => CreateInv'
<1> SUFFICES ASSUME CreateInv, FactoryCreateOk PROVE CreateInv'
  OBVIOUS
<1> DEFINE last == LastBlockOf(call.img.size)
<1>1. call.img.size \in Nat /\ call.img.size < WordSpan
  BY ImageSize DEF CreateInv, CreateTypeOK, CreateCall
<1>2. BigEnough(call.img.size)
  BY DEF CreateInv, CallHolds, FactoryCreateOk, CallAt
<1>3. /\ last \in Nat /\ last < WordSpan /\ last # NoDevice
      /\ (last + 1) * LOOP_BLOCK_SIZE <= call.img.size
      /\ call.img.size < (last + 2) * LOOP_BLOCK_SIZE
  BY <1>1, <1>2, LastBlockExact, WordSpanAssumption DEF NoDevice
<1>4. /\ call' = [call EXCEPT !.pc = "idle", !.path = FALSE, !.file = "lent",
                              !.lastBlock = last, !.status = "SUCCESS"]
      /\ call.pc = "create" /\ UNCHANGED resident
  BY DEF FactoryCreateOk, CallAt
<1> HIDE DEF last
<1>5. CreateTypeOK'
  BY <1>3, <1>4 DEF CreateInv, CreateTypeOK, CreateCall
<1>6. call'.img = call.img /\ call'.lastBlock = last
  BY <1>4 DEF CreateInv, CreateTypeOK, CreateCall
<1>7. CallHolds'
  BY <1>3, <1>4 DEF CreateInv, CreateTypeOK, CreateCall, CallHolds
<1>8. ExitsSettled'
  BY <1>3, <1>4 DEF CreateInv, CreateTypeOK, CreateCall, CallHolds,
                    ExitsSettled, Created
<1>9. DeviceInsideFile'
  BY <1>3, <1>6, WordAssumption DEF DeviceInsideFile, LOOP_BLOCK_SIZE
<1> QED
  BY <1>5, <1>7, <1>8, <1>9 DEF CreateInv

\* Every step preserves the invariant.
LEMMA CreateStepInv == CreateInv /\ [CreateNext]_createVars => CreateInv'
<1> SUFFICES ASSUME CreateInv, [CreateNext]_createVars PROVE CreateInv'
  OBVIOUS
<1>1. CASE CreateNext
  BY <1>1, OpenImageInv, OpenFailsInv, AllocateInfoInv,
     AllocateInfoFailsInv, GetInfoOkInv, GetInfoFailsInv, TooSmallInv,
     MountIsoFileDevicePathInv, PathFailsInv, LocateFactoryInv,
     LoopPathFailsInv, LoadLoopOkInv, LoadLoopFailsInv,
     LoadLoopRefusedInv, StartLoopOkInv, StartLoopFailsInv,
     NoFactoryPublishedInv,
     FactoryCreateFailsInv, SniffInv, FactoryCreateOkInv
     DEF CreateNext, MountLoopFactoryGet
<1>2. CASE UNCHANGED createVars
  BY <1>2 DEF createVars, CreateInv, CreateTypeOK, CreateCall, CallHolds,
              ExitsSettled, DeviceInsideFile, Created
<1> QED
  BY <1>1, <1>2

-----------------------------------------------------------------------------
(* Theorems *)

\* CreateInv holds in every reachable state.
THEOREM CreateInvariance == CreateSpec => []CreateInv
  BY InitCreate, CreateStepInv, PTL DEF CreateSpec

\* What every exit of LoopCreate leaves: the file with the factory exactly on
\* success, both buffers freed, and no driver image that does not run but the
\* one Secure Boot refused, which is left loaded; an image that runs without
\* a factory only where the driver is reported missing.
THEOREM SettledExits == CreateSpec => []ExitsSettled
<1>1. CreateInv => ExitsSettled
  BY DEF CreateInv
<1> QED
  BY <1>1, CreateInvariance, PTL

\* A device has exactly the whole blocks of its file, whatever its size.
THEOREM ExactDevice == CreateSpec => []DeviceInsideFile
<1>1. CreateInv => DeviceInsideFile
  BY DEF CreateInv
<1> QED
  BY <1>1, CreateInvariance, PTL

\* On an image long enough to be read the sniff finds ISO9660 exactly, and
\* every extended area up to sector 18.
THEOREM ExactSniff == CreateSpec => []SniffExact
<1>1. CreateInv => SniffExact
  <2> SUFFICES ASSUME CreateInv, call.read, SniffReads(call.img)
               PROVE  SniffExact
    BY DEF SniffExact
  <2> DEFINE img == call.img
  <2>1. /\ call.sniff.iso <=> Iso9660(img)
        /\ call.sniff.udf <=> Udf(img)
        /\ img.size \in Nat /\ img.size >= 22 * LOOP_BLOCK_SIZE
    BY ImageSize DEF CreateInv, CreateTypeOK, CreateCall, CallHolds, SniffReads
  <2> HIDE DEF img
  <2>2. Iso9660(img) <=> HoldsIso(img)
    BY <2>1 DEF Iso9660, HoldsIso, HasSector, SniffReads, LOOP_BLOCK_SIZE
  <2>3. (\E s \in 16..18 : ExtendedAreaAt(img, s)) => Udf(img)
    BY <2>1 DEF ExtendedAreaAt, Udf, SniffReads
  <2>4. Udf(img) => \E s \in 16..19 : img.id[s] \in {"BEA01", "NSR02", "NSR03"}
    BY DEF Udf
  <2> QED
    BY <2>1, <2>2, <2>3, <2>4 DEF SniffExact, img
<1> QED
  BY <1>1, CreateInvariance, PTL
=============================================================================
