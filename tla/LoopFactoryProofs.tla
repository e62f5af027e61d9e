------------------------- MODULE LoopFactoryProofs -------------------------
(***************************************************************************)
(* Proofs about the loop factory, for every set of handles, files and pool *)
(* slots and every width of the sequence byte.  IInv of LoopFactory is the *)
(* inductive invariant; everything else follows from it.                   *)
(***************************************************************************)
EXTENDS LoopFactory, TLAPS

-----------------------------------------------------------------------------
(* The vendor node *)

\* The cast always yields a value of the field's width.
LEMMA NodeRange == \A s \in Nat : VendorNode(s) \in 0..(NodeSpan - 1)
  BY ConstantsAssumption DEF VendorNode

\* The first NodeSpan sequence numbers give different nodes.
LEMMA NodeInjective ==
  ASSUME NEW s \in 1..NodeSpan, NEW t \in 1..NodeSpan,
         VendorNode(s) = VendorNode(t)
  PROVE  s = t
<1>1. \A n \in Nat \ {0} : n % n = 0
  OBVIOUS
<1>2. \A n \in Nat \ {0}, k \in Nat : k < n => k % n = k
  OBVIOUS
<1> QED
  BY <1>1, <1>2, ConstantsAssumption DEF VendorNode

-----------------------------------------------------------------------------
(* The inductive invariant *)

\* Nothing is allocated, published or bound when the driver starts.
LEMMA InitInv == Init => IInv
<1> SUFFICES ASSUME Init PROVE IInv
  OBVIOUS
<1> USE ConstantsAssumption DEF Init
<1>1. TypeOK
  <2>1. heap \in [Disk -> LoopDisk]
    BY DEF LoopDisk, ZeroDisk, NewDisk
  <2>2. blockIo \in [Handle -> Disk \union {None, ForeignIo}]
    OBVIOUS
  <2>3. call \in Call
    BY DEF Call, NoCall, Status
  <2>4. resident \in BOOLEAN
    OBVIOUS
  <2>5. mLoopSeq \in 0..MaxSeq
    OBVIOUS
  <2>6. owner \in [File -> {"closed", "caller", "factory"}]
    OBVIOUS
  <2>7. allocated \in SUBSET Disk /\ pathPool \in SUBSET Disk /\ bound \in SUBSET Disk
    OBVIOUS
  <2> QED
    BY <2>1, <2>2, <2>3, <2>4, <2>5, <2>6, <2>7 DEF TypeOK
<1>2. Linked
  BY DEF Linked, ZeroDisk, NewDisk, NoCall, Published
<1>3. SeqUnique
  BY DEF SeqUnique
<1>4. CallConsistent
  BY DEF CallConsistent, NoCall, CreatePc
<1>5. PublishedIntact /\ BindingsLive /\ RefusedOnlyAfterWrap
  BY DEF PublishedIntact, BindingsLive, RefusedOnlyAfterWrap, NoCall
<1>6. OneOwner
  BY DEF OneOwner, ZeroDisk, NewDisk
<1> QED
  BY <1>1, <1>2, <1>3, <1>4, <1>5, <1>6 DEF IInv

\* A new structure gets a slot nobody uses and a number nobody has drawn.
LEMMA CreateBeginInv ==
  ASSUME NEW f \in File, NEW d \in Disk, IInv, CreateBegin(f, d)
  PROVE  IInv'
<1> USE ConstantsAssumption DEF IInv, TypeOK, CreateBegin, Running, Idle, NewDisk
<1>1. TypeOK'
  <2>1. heap' \in [Disk -> LoopDisk]
    BY DEF LoopDisk
  <2> QED
    BY <2>1 DEF Call, CreatePc, Status
<1>3. ~ Published(d) /\ d \notin bound /\ heap[d].BackingFile = None
  BY DEF PublishedIntact, Published, BindingsLive, Linked
<1>4. Linked'
  BY <1>3 DEF Linked, Published, LoopDisk, CallConsistent
<1>5. SeqUnique'
  BY DEF SeqUnique, LoopDisk
<1>6. CallConsistent'
  BY DEF CallConsistent, CreatePc, DestroyPc, Linked, LoopDisk
<1>7. PublishedIntact'
  BY <1>3 DEF PublishedIntact, Published, LoopDisk
<1>8. BindingsLive'
  BY DEF BindingsLive, Published
<1>9. OneOwner'
  <2>1. \A e \in Disk : heap[e].BackingFile # f
    BY DEF OneOwner, CreatePc
  <2> QED
    BY <1>3, <2>1 DEF OneOwner, LoopDisk, CreatePc
<1>10. RefusedOnlyAfterWrap'
  BY DEF RefusedOnlyAfterWrap
<1> HIDE DEF TypeOK, CreateBegin
<1> QED
  BY <1>1, <1>4, <1>5, <1>6, <1>7, <1>8, <1>9, <1>10

\* The appended path is the image's own path and the structure's node.
LEMMA AppendPathInv == IInv /\ AppendPath => IInv'
<1> SUFFICES ASSUME IInv, AppendPath PROVE IInv'
  OBVIOUS
<1> USE ConstantsAssumption DEF IInv, TypeOK, AppendPath
<1>1. call.disk \in allocated /\ call.disk \in Disk /\ call.file \in File
  BY DEF CallConsistent, Linked, CreatePc, Call
<1>2. <<ImageOf[call.file], VendorNode(heap[call.disk].Seq)>> \in DevicePath
  BY <1>1, NodeRange DEF DevicePath, LoopDisk
<1>3. TypeOK'
  <2>1. heap' \in [Disk -> LoopDisk]
    BY <1>1, <1>2 DEF LoopDisk
  <2>2. call' \in Call
    BY DEF Call, CreatePc
  <2> QED
    BY <1>1, <2>1, <2>2
<1>4. Linked' /\ SeqUnique'
  BY <1>1 DEF Linked, SeqUnique, Published, LoopDisk
<1>5. CallConsistent'
  BY <1>1 DEF CallConsistent, CreatePc, DestroyPc, LoopDisk, Call
<1>6. PublishedIntact' /\ BindingsLive'
  BY <1>1 DEF PublishedIntact, BindingsLive, Linked, Published, LoopDisk
<1>7. OneOwner' /\ RefusedOnlyAfterWrap'
  BY <1>1 DEF OneOwner, RefusedOnlyAfterWrap, CreatePc, LoopDisk, Call
<1> HIDE DEF TypeOK, AppendPath
<1> QED
  BY <1>3, <1>4, <1>5, <1>6, <1>7

\* Without memory for the path the structure goes back to the pool.
LEMMA AppendFailedInv == IInv /\ AppendFailed => IInv'
<1> SUFFICES ASSUME IInv, AppendFailed PROVE IInv'
  OBVIOUS
<1> USE ConstantsAssumption
    DEF IInv, TypeOK, AppendFailed, FreeDisk, ZeroDisk, NewDisk, Returned
<1>1. /\ call.disk \in allocated /\ call.disk \in Disk
      /\ call.disk \notin pathPool
      /\ call.file \in File /\ call.file = heap[call.disk].BackingFile
      /\ ~ Published(call.disk)
  BY DEF CallConsistent, Linked, CreatePc, Call
<1>2. TypeOK'
  BY <1>1 DEF LoopDisk, Call, Status
<1>3. Linked' /\ SeqUnique'
  BY <1>1 DEF Linked, SeqUnique, Published, LoopDisk
<1>4. CallConsistent'
  BY <1>1 DEF CallConsistent, CreatePc, DestroyPc
<1>5. PublishedIntact' /\ BindingsLive'
  BY <1>1 DEF PublishedIntact, BindingsLive, Published, LoopDisk
<1>6. OneOwner' /\ RefusedOnlyAfterWrap'
  BY <1>1 DEF OneOwner, RefusedOnlyAfterWrap, CallConsistent, CreatePc, LoopDisk
<1> HIDE DEF TypeOK, AppendFailed
<1> QED
  BY <1>2, <1>3, <1>4, <1>5, <1>6

\* The protocols go up over a structure that is already complete.
LEMMA InstallOkInv ==
  ASSUME NEW h \in Handle, IInv, InstallOk(h)
  PROVE  IInv'
<1> USE ConstantsAssumption DEF IInv, TypeOK, InstallOk
<1>1. /\ call.disk \in allocated /\ call.disk \in Disk
      /\ call.disk \in pathPool
      /\ call.file \in File /\ call.file = heap[call.disk].BackingFile
      /\ owner[call.file] = "caller"
      /\ ~ Published(call.disk)
  BY DEF CallConsistent, Linked, CreatePc, Call
<1>2. TypeOK'
  BY <1>1 DEF LoopDisk, Call, CreatePc
<1>3. Linked' /\ SeqUnique'
  BY <1>1 DEF Linked, SeqUnique, Published, LoopDisk
<1>4. CallConsistent'
  BY <1>1 DEF CallConsistent, CreatePc, DestroyPc, LoopDisk, Call
<1>5. PublishedIntact'
  BY <1>1 DEF PublishedIntact, CallConsistent, Published, LoopDisk
<1>6. BindingsLive'
  BY <1>1 DEF BindingsLive, Published
<1>7. OneOwner' /\ RefusedOnlyAfterWrap'
  BY <1>1 DEF OneOwner, RefusedOnlyAfterWrap, CreatePc, LoopDisk, Call
<1> HIDE DEF TypeOK, InstallOk
<1> QED
  BY <1>2, <1>3, <1>4, <1>5, <1>6, <1>7

\* A failed install frees both pools.  The firmware's duplicate check can
\* be the reason only when two structures in use have the same node, and
\* their numbers differ, so one of them is beyond the first NodeSpan.
LEMMA InstallFailedInv ==
  ASSUME NEW s \in {"ALREADY_STARTED", "OUT_OF_RESOURCES"}, IInv,
         InstallFailed(s)
  PROVE  IInv'
<1> USE ConstantsAssumption
    DEF IInv, TypeOK, InstallFailed, FreeDisk, ZeroDisk, NewDisk, Returned
<1>1. /\ call.disk \in allocated /\ call.disk \in Disk
      /\ call.file \in File /\ call.file = heap[call.disk].BackingFile
      /\ ~ Published(call.disk)
  BY DEF CallConsistent, Linked, CreatePc, Call
<1>2. TypeOK'
  BY <1>1 DEF LoopDisk, Call, Status
<1>3. Linked' /\ SeqUnique'
  BY <1>1 DEF Linked, SeqUnique, Published, LoopDisk
<1>4. CallConsistent'
  BY <1>1 DEF CallConsistent, CreatePc, DestroyPc
<1>5. PublishedIntact' /\ BindingsLive'
  BY <1>1 DEF PublishedIntact, BindingsLive, Published, LoopDisk
<1>6. OneOwner'
  BY <1>1 DEF OneOwner, CallConsistent, CreatePc, LoopDisk
<1>7. RefusedOnlyAfterWrap'
  <2>1. SUFFICES ASSUME s = "ALREADY_STARTED" PROVE mLoopSeq > NodeSpan
    BY DEF RefusedOnlyAfterWrap
  <2>2. PICK e \in Disk : Published(e)
                        /\ heap[e].DevicePath = heap[call.disk].DevicePath
    BY <2>1 DEF PublishedPaths
  <2>3. e \in allocated /\ e # call.disk
        /\ VendorNode(heap[e].Seq) = VendorNode(heap[call.disk].Seq)
    BY <1>1, <2>2 DEF PublishedIntact, Published, CallConsistent
  <2>4. heap[e].Seq \in 1..mLoopSeq /\ heap[call.disk].Seq \in 1..mLoopSeq
        /\ heap[e].Seq # heap[call.disk].Seq
    BY <1>1, <2>3 DEF SeqUnique
  <2> HIDE DEF InstallFailed
  <2>5. CASE mLoopSeq <= NodeSpan
    BY <2>3, <2>4, <2>5, NodeInjective
  <2> QED
    BY <2>5
<1> HIDE DEF TypeOK, InstallFailed
<1> QED
  BY <1>2, <1>3, <1>4, <1>5, <1>6, <1>7

\* The file changes hands when the device has been published over it.
LEMMA CreateReturnInv == IInv /\ CreateReturn => IInv'
<1> SUFFICES ASSUME IInv, CreateReturn PROVE IInv'
  OBVIOUS
<1> USE ConstantsAssumption DEF IInv, TypeOK, CreateReturn, Returned
<1>1. /\ call.disk \in allocated /\ call.disk \in Disk
      /\ call.file \in File /\ call.file = heap[call.disk].BackingFile
      /\ Published(call.disk) /\ heap[call.disk].Handle \in Handle
  BY DEF CallConsistent, Linked, Published, CreatePc, Call
<1>2. TypeOK'
  BY <1>1 DEF Call, Status
<1>3. Linked' /\ SeqUnique' /\ BindingsLive'
  BY <1>1 DEF Linked, SeqUnique, BindingsLive, Published
<1>4. CallConsistent'
  BY DEF CallConsistent, CreatePc, DestroyPc
<1>5. PublishedIntact'
  BY <1>1 DEF PublishedIntact, Published, LoopDisk
<1>6. OneOwner' /\ RefusedOnlyAfterWrap'
  BY <1>1 DEF OneOwner, RefusedOnlyAfterWrap, CreatePc
<1> HIDE DEF TypeOK, CreateReturn
<1> QED
  BY <1>2, <1>3, <1>4, <1>5, <1>6

\* The device is withdrawn together with every binding to it.
LEMMA UninstallOkInv == IInv /\ UninstallOk => IInv'
<1> SUFFICES ASSUME IInv, UninstallOk PROVE IInv'
  OBVIOUS
<1> USE ConstantsAssumption DEF IInv, TypeOK, UninstallOk
<1>1. /\ call.disk \in allocated /\ call.disk \in Disk
      /\ heap[call.disk].Handle \in Handle
      /\ blockIo[heap[call.disk].Handle] = call.disk
  BY DEF CallConsistent, DestroyPc
<1>2. TypeOK'
  BY DEF Call, DestroyPc
<1>3. \A d \in Disk : Published(d)' <=> Published(d) /\ d # call.disk
  BY <1>1 DEF Published, PublishedIntact
<1>4. Linked' /\ SeqUnique' /\ BindingsLive'
  BY <1>1, <1>3 DEF Linked, SeqUnique, BindingsLive
<1>5. CallConsistent'
  BY <1>1 DEF CallConsistent, CreatePc, DestroyPc, Call
<1>6. PublishedIntact'
  BY <1>1 DEF PublishedIntact
<1>7. OneOwner' /\ RefusedOnlyAfterWrap'
  BY DEF OneOwner, RefusedOnlyAfterWrap, CallConsistent, CreatePc
<1> HIDE DEF TypeOK, UninstallOk
<1> QED
  BY <1>2, <1>4, <1>5, <1>6, <1>7

\* The file goes back to the caller, the structure back to the pool.
LEMMA HandBackInv == IInv /\ HandBack => IInv'
<1> SUFFICES ASSUME IInv, HandBack PROVE IInv'
  OBVIOUS
<1> USE ConstantsAssumption
    DEF IInv, TypeOK, HandBack, FreeDisk, ZeroDisk, NewDisk, Returned
<1>1. /\ call.disk \in allocated /\ call.disk \in Disk
      /\ heap[call.disk].BackingFile \in File
      /\ ~ Published(call.disk)
  BY DEF CallConsistent, Linked, LoopDisk
<1>2. TypeOK'
  BY <1>1 DEF LoopDisk, Call, Status
<1>3. Linked' /\ SeqUnique'
  BY <1>1 DEF Linked, SeqUnique, Published, LoopDisk
<1>4. CallConsistent'
  BY DEF CallConsistent, CreatePc, DestroyPc
<1>5. PublishedIntact' /\ BindingsLive'
  BY <1>1 DEF PublishedIntact, BindingsLive, Published, LoopDisk
<1>6. OneOwner'
  BY <1>1 DEF OneOwner, CreatePc, LoopDisk
<1>7. RefusedOnlyAfterWrap'
  BY DEF RefusedOnlyAfterWrap
<1> HIDE DEF TypeOK, HandBack
<1> QED
  BY <1>2, <1>3, <1>4, <1>5, <1>6, <1>7

\* The application opens and closes only files the factory does not have.
LEMMA FileInv ==
  ASSUME NEW f \in File, IInv, OpenFile(f) \/ CloseFile(f)
  PROVE  IInv'
<1> USE DEF IInv, OpenFile, CloseFile, Idle
<1>1. TypeOK' /\ Linked' /\ SeqUnique' /\ BindingsLive'
  BY DEF TypeOK, Linked, SeqUnique, BindingsLive, Published
<1>2. CallConsistent' /\ RefusedOnlyAfterWrap'
  BY DEF CallConsistent, RefusedOnlyAfterWrap, CreatePc
<1>3. OneOwner'
  BY DEF TypeOK, OneOwner, CreatePc
<1>4. PublishedIntact'
  <2>1. \A h \in Handle : blockIo[h] \in Disk =>
           owner[heap[blockIo[h]].BackingFile] = "factory"
    BY DEF PublishedIntact, OneOwner, CreatePc
  <2> QED
    BY <2>1 DEF TypeOK, PublishedIntact
<1> QED
  BY <1>1, <1>2, <1>3, <1>4

\* Binding and unbinding touch nothing of the factory's.
LEMMA BindingInv ==
  ASSUME IInv, \/ \E h \in Handle : Bind(h)
               \/ \E d \in Disk : Unbind(d)
  PROVE  IInv'
<1> USE DEF IInv, Bind, Unbind
<1>1. TypeOK' /\ BindingsLive'
  BY DEF TypeOK, BindingsLive, Published, PublishedIntact
<1>2. Linked' /\ SeqUnique' /\ CallConsistent' /\ RefusedOnlyAfterWrap'
  BY DEF Linked, SeqUnique, CallConsistent, RefusedOnlyAfterWrap, Published
<1>3. PublishedIntact' /\ OneOwner'
  BY DEF PublishedIntact, OneOwner
<1> QED
  BY <1>1, <1>2, <1>3

\* Steps that only move or end a call: the early returns, the lookup and
\* the refused uninstall change no structure at all.
LEMMA CallOnlyInv ==
  ASSUME IInv,
         \/ CreateInvalid
         \/ \E f \in File : CreateNoMemory(f)
         \/ \E h \in Handle : DestroyNotFound(h) \/ DestroyBegin(h)
         \/ UninstallFailed
  PROVE  IInv'
<1> USE ConstantsAssumption
    DEF IInv, CreateInvalid, CreateNoMemory, DestroyNotFound, DestroyBegin,
        UninstallFailed, Returned, Running, Idle
<1>1. TypeOK'
  BY DEF TypeOK, Call, Status, DestroyPc
<1>2. Linked'
  <2>1. \A d \in allocated : Published(d) \/ d = call'.disk
    BY DEF TypeOK, Linked, CallConsistent, Published, DestroyPc
  <2>2. call'.pc \notin {"append", "install", "handback"}
    OBVIOUS
  <2> QED
    BY <2>1, <2>2 DEF Linked, Published
<1>3. CallConsistent'
  BY DEF CallConsistent, PublishedIntact, CreatePc, DestroyPc
<1>4. PublishedIntact' /\ SeqUnique' /\ BindingsLive'
  BY DEF PublishedIntact, SeqUnique, BindingsLive, Published
<1>5. OneOwner' /\ RefusedOnlyAfterWrap'
  BY DEF OneOwner, RefusedOnlyAfterWrap, CallConsistent, CreatePc
<1> QED
  BY <1>1, <1>2, <1>3, <1>4, <1>5

\* Every step preserves the invariant.
LEMMA StepInv == IInv /\ [Next]_vars => IInv'
<1> SUFFICES ASSUME IInv, [Next]_vars PROVE IInv'
  OBVIOUS
<1>1. CASE LoopDxeEntry \/ UNCHANGED vars
  <2> USE <1>1 DEF LoopDxeEntry, vars, IInv
  <2>1. TypeOK'
    BY DEF TypeOK
  <2>2. Linked' /\ SeqUnique' /\ CallConsistent' /\ BindingsLive'
    BY DEF Linked, SeqUnique, CallConsistent, BindingsLive, Published
  <2>3. PublishedIntact' /\ OneOwner' /\ RefusedOnlyAfterWrap'
    BY DEF PublishedIntact, OneOwner, RefusedOnlyAfterWrap
  <2> QED
    BY <2>1, <2>2, <2>3
<1>2. CASE Create
  BY <1>2, CreateBeginInv, AppendPathInv, AppendFailedInv, InstallOkInv,
     InstallFailedInv, CreateReturnInv, CallOnlyInv DEF Create
<1>3. CASE Destroy
  BY <1>3, UninstallOkInv, HandBackInv, CallOnlyInv DEF Destroy
<1>4. CASE Environment
  BY <1>4, FileInv, BindingInv DEF Environment
<1> QED
  BY <1>1, <1>2, <1>3, <1>4 DEF Next

-----------------------------------------------------------------------------
(* Safety *)

\* IInv holds in every reachable state.
THEOREM Invariance == Spec => []IInv
  BY InitInv, StepInv, PTL DEF Spec

\* Types are kept, whatever the number of handles, files and pool slots.
THEOREM TypeCorrect == Spec => []TypeOK
<1>1. IInv => TypeOK
  BY DEF IInv
<1> QED
  BY <1>1, Invariance, PTL

\* Published devices are complete, over open files, under live bindings.
THEOREM DevicesIntact == Spec => [](PublishedIntact /\ BindingsLive)
<1>1. IInv => PublishedIntact /\ BindingsLive
  BY DEF IInv
<1> QED
  BY <1>1, Invariance, PTL

\* No error path of Create or Destroy leaks a pool allocation.
THEOREM NothingLeaks == Spec => []NoLeak
<1>1. IInv => NoLeak
  BY DEF IInv, TypeOK, Linked, NoLeak
<1> QED
  BY <1>1, Invariance, PTL

\* At every moment exactly one party must close a file.
THEOREM FileOwnership == Spec => []OneOwner
<1>1. IInv => OneOwner
  BY DEF IInv
<1> QED
  BY <1>1, Invariance, PTL

\* The first NodeSpan creates are never refused for a duplicate path.
THEOREM NoEarlyRefusal == Spec => []RefusedOnlyAfterWrap
<1>1. IInv => RefusedOnlyAfterWrap
  BY DEF IInv
<1> QED
  BY <1>1, Invariance, PTL

-----------------------------------------------------------------------------
(* Action properties *)

\* Every Create that returns has either mounted the file or left no trace.
THEOREM CreateAtomic == Spec => CreateAllOrNothing
<1> DEFINE AllOrNothing ==
      call.pc \in CreatePc /\ call'.pc = "idle" =>
         IF call'.status = "SUCCESS"
         THEN /\ call'.handle \in Handle
              /\ blockIo'[call'.handle] \in Disk
              /\ heap'[blockIo'[call'.handle]].BackingFile = call.file
              /\ owner'[call.file] = "factory"
         ELSE /\ call'.handle = None
              /\ owner'[call.file] = "caller"
              /\ \A d \in Disk : heap'[d].BackingFile # call.file
<1>1. IInv /\ [Next]_vars => [AllOrNothing]_vars
  <2> SUFFICES ASSUME IInv, [Next]_vars,
                      call.pc \in CreatePc, call'.pc = "idle"
               PROVE  IF call'.status = "SUCCESS"
                      THEN /\ call'.handle \in Handle
                           /\ blockIo'[call'.handle] \in Disk
                           /\ heap'[blockIo'[call'.handle]].BackingFile
                                 = call.file
                           /\ owner'[call.file] = "factory"
                      ELSE /\ call'.handle = None
                           /\ owner'[call.file] = "caller"
                           /\ \A d \in Disk : heap'[d].BackingFile # call.file
    OBVIOUS
  <2>1. /\ call.disk \in Disk /\ call.file \in File
        /\ call.file = heap[call.disk].BackingFile
        /\ owner[call.file] = "caller"
        /\ \A d \in Disk : heap[d].BackingFile = call.file => d = call.disk
    BY DEF IInv, TypeOK, Call, CallConsistent, Linked, OneOwner, CreatePc
  <2>2. CASE AppendFailed \/ \E s \in {"ALREADY_STARTED", "OUT_OF_RESOURCES"} :
                                InstallFailed(s)
    BY <2>1, <2>2, ConstantsAssumption DEF AppendFailed, InstallFailed,
       FreeDisk, ZeroDisk, NewDisk, Returned, IInv, TypeOK
  <2>3. CASE CreateReturn
    BY <2>1, <2>3 DEF CreateReturn, Returned, IInv, TypeOK, CallConsistent
  <2>4. CASE \/ AppendPath \/ (\E h \in Handle : InstallOk(h))
             \/ UninstallFailed \/ UninstallOk \/ HandBack
    BY <2>4 DEF AppendPath, InstallOk, UninstallFailed, UninstallOk,
       HandBack, CreatePc, IInv, TypeOK, Call
  <2>5. CASE \/ CreateInvalid \/ (\E f \in File : CreateNoMemory(f))
             \/ (\E f \in File, d \in Disk : CreateBegin(f, d))
             \/ \E h \in Handle : DestroyNotFound(h) \/ DestroyBegin(h)
    BY <2>5 DEF CreateInvalid, CreateNoMemory, CreateBegin, DestroyNotFound,
       DestroyBegin, Idle, CreatePc
  <2>6. CASE LoopDxeEntry \/ Environment \/ UNCHANGED vars
    BY <2>6 DEF LoopDxeEntry, Environment, OpenFile, CloseFile, Bind, Unbind,
       vars, CreatePc
  <2> QED
    BY <2>2, <2>3, <2>4, <2>5, <2>6 DEF Next, Create, Destroy
<1> QED
  BY <1>1, Invariance, PTL DEF Spec, CreateAllOrNothing

\* A published structure never changes, and is not withdrawn while bound.
THEOREM PublishedStable == Spec => StableWhilePublished
<1> DEFINE Stable(h) == blockIo[h] \in Disk =>
         \/ blockIo'[h] = blockIo[h] /\ heap'[blockIo[h]] = heap[blockIo[h]]
         \/ blockIo'[h] = None /\ blockIo[h] \notin bound'
<1>1. IInv /\ [Next]_vars => [\A h \in Handle : Stable(h)]_vars
  <2> SUFFICES ASSUME IInv, [Next]_vars, NEW h \in Handle, blockIo[h] \in Disk
               PROVE  \/ /\ blockIo'[h] = blockIo[h]
                         /\ heap'[blockIo[h]] = heap[blockIo[h]]
                      \/ blockIo'[h] = None /\ blockIo[h] \notin bound'
    OBVIOUS
  <2> USE DEF IInv, TypeOK
  <2>1. blockIo[h] \in allocated /\ Published(blockIo[h])
        /\ heap[blockIo[h]].Handle = h
    BY DEF PublishedIntact, Published
  <2>2. call.pc \in {"append", "install", "handback"} => blockIo[h] # call.disk
    BY DEF Linked, Published
  <2>3. ASSUME NEW f \in File, NEW d \in Disk, CreateBegin(f, d)
        PROVE  blockIo'[h] = blockIo[h] /\ heap'[blockIo[h]] = heap[blockIo[h]]
    BY <2>1, <2>3 DEF CreateBegin
  <2>4. CASE AppendPath \/ AppendFailed \/ HandBack
             \/ \E s \in {"ALREADY_STARTED", "OUT_OF_RESOURCES"} :
                   InstallFailed(s)
    BY <2>1, <2>2, <2>4 DEF AppendPath, AppendFailed, HandBack, InstallFailed,
       FreeDisk
  <2>5. ASSUME NEW g \in Handle, InstallOk(g)
        PROVE  blockIo'[h] = blockIo[h] /\ heap'[blockIo[h]] = heap[blockIo[h]]
    BY <2>1, <2>2, <2>5, ConstantsAssumption DEF InstallOk
  <2>6. CASE UninstallOk
    BY <2>1, <2>6 DEF UninstallOk, CallConsistent
  <2>7. CASE \/ LoopDxeEntry \/ CreateInvalid \/ CreateReturn
             \/ UninstallFailed \/ Environment \/ UNCHANGED vars
             \/ (\E f \in File : CreateNoMemory(f))
             \/ (\E g \in Handle : DestroyNotFound(g) \/ DestroyBegin(g))
    BY <2>7 DEF LoopDxeEntry, CreateInvalid, CreateReturn, UninstallFailed,
       Environment, OpenFile, CloseFile, Bind, Unbind, vars, CreateNoMemory,
       DestroyNotFound, DestroyBegin
  <2> QED
    BY <2>3, <2>4, <2>5, <2>6, <2>7 DEF Next, Create, Destroy
<1> QED
  BY <1>1, Invariance, PTL DEF Spec, StableWhilePublished

-----------------------------------------------------------------------------
(* Refinement *)

\* The driver implements the table of mounts: only InstallOk mounts, only
\* UninstallOk unmounts, only the application opens and closes files, and
\* no other step can be seen.
THEOREM Refinement == Spec => RegistrySpec
<1>1. Init => Registry!RegInit
  BY ConstantsAssumption DEF Init, Registry!RegInit, MountedFile, OpenFiles
<1>2. IInv /\ [Next]_vars => [Registry!RegNext]_(Registry!regVars)
  <2> SUFFICES ASSUME IInv, [Next]_vars
               PROVE  [Registry!RegNext]_(Registry!regVars)
    OBVIOUS
  <2> USE DEF IInv, TypeOK
  <2>1. ASSUME NEW h \in Handle, InstallOk(h)
        PROVE  Registry!Mount(h, call.file) /\ call.file \in File
    <3>1. /\ call.disk \in Disk /\ call.disk \in allocated
          /\ call.file \in File /\ call.file = heap[call.disk].BackingFile
          /\ owner[call.file] = "caller" /\ ~ Published(call.disk)
      BY <2>1 DEF InstallOk, CallConsistent, Linked, CreatePc, Call
    <3>2. OpenFiles' = OpenFiles /\ call.file \in OpenFiles
      BY <2>1, <3>1 DEF InstallOk, OpenFiles
    <3>3. \A g \in Handle : blockIo[g] \in Disk => blockIo[g] # call.disk
      BY <3>1 DEF Published
    <3>4. Registry!Unmounted(call.file)
      BY <3>1, <3>3, ConstantsAssumption
         DEF Registry!Unmounted, MountedFile, OneOwner
    <3>5. MountedFile[h] = None
      BY <2>1, ConstantsAssumption DEF InstallOk, MountedFile
    <3>6. MountedFile' = [MountedFile EXCEPT ![h] = call.file]
      <4>1. heap'[call.disk].BackingFile = call.file
            /\ \A d \in Disk \ {call.disk} : heap'[d] = heap[d]
        BY <2>1, <3>1 DEF InstallOk, LoopDisk
      <4> QED
        BY <2>1, <3>1, <3>3, <4>1 DEF InstallOk, MountedFile
    <3> QED
      BY <3>1, <3>2, <3>4, <3>5, <3>6 DEF Registry!Mount
  <2>2. ASSUME UninstallOk
        PROVE  Registry!Unmount(heap[call.disk].Handle)
               /\ heap[call.disk].Handle \in Handle
    <3>1. heap[call.disk].Handle \in Handle
      BY <2>2 DEF UninstallOk, CallConsistent
    <3>2. MountedFile' = [MountedFile EXCEPT ![heap[call.disk].Handle] = None]
      BY <2>2, <3>1, ConstantsAssumption DEF UninstallOk, MountedFile
    <3> QED
      BY <2>2, <3>1, <3>2 DEF UninstallOk, Registry!Unmount, OpenFiles
  <2>3. ASSUME NEW f \in File, OpenFile(f)
        PROVE  Registry!Open(f)
    BY <2>3 DEF OpenFile, Registry!Open, OpenFiles, MountedFile
  <2>4. ASSUME NEW f \in File, CloseFile(f)
        PROVE  Registry!Close(f)
    <3>1. Registry!Unmounted(f)
      BY <2>4, ConstantsAssumption DEF CloseFile, Registry!Unmounted, Idle,
         MountedFile, OneOwner, CreatePc
    <3> QED
      BY <2>4, <3>1 DEF CloseFile, Registry!Close, OpenFiles, MountedFile
  <2>5. CASE \/ AppendPath \/ AppendFailed \/ HandBack \/ CreateReturn
             \/ (\E s \in {"ALREADY_STARTED", "OUT_OF_RESOURCES"} :
                   InstallFailed(s))
             \/ (\E f \in File, d \in Disk : CreateBegin(f, d))
    <3>1. blockIo' = blockIo
          /\ \A h \in Handle : blockIo[h] \in Disk =>
                heap'[blockIo[h]].BackingFile = heap[blockIo[h]].BackingFile
      BY <2>5, ConstantsAssumption DEF AppendPath, AppendFailed, HandBack,
         CreateReturn, InstallFailed, CreateBegin, FreeDisk, PublishedIntact,
         Linked, Published, LoopDisk
    <3>2. OpenFiles' = OpenFiles
      BY <2>5, ConstantsAssumption DEF AppendPath, AppendFailed, HandBack,
         CreateReturn, InstallFailed, CreateBegin, OpenFiles, OneOwner,
         CallConsistent, CreatePc, Linked, LoopDisk
    <3>3. MountedFile' = MountedFile
      BY <3>1 DEF MountedFile
    <3> QED
      BY <3>2, <3>3 DEF Registry!regVars
  <2>6. CASE \/ LoopDxeEntry \/ CreateInvalid \/ UninstallFailed
             \/ (\E f \in File : CreateNoMemory(f))
             \/ (\E h \in Handle : DestroyNotFound(h) \/ DestroyBegin(h)
                                   \/ Bind(h))
             \/ (\E d \in Disk : Unbind(d)) \/ UNCHANGED vars
    BY <2>6 DEF LoopDxeEntry, CreateInvalid, UninstallFailed, CreateNoMemory,
       DestroyNotFound, DestroyBegin, Bind, Unbind, vars, Registry!regVars,
       OpenFiles, MountedFile
  <2> HIDE DEF IInv, TypeOK
  <2> QED
    BY <2>1, <2>2, <2>3, <2>4, <2>5, <2>6
       DEF Next, Create, Destroy, Environment, Registry!RegNext
<1> QED
  BY <1>1, <1>2, Invariance, PTL DEF Spec, RegistrySpec, Registry!RegSpec

=============================================================================
