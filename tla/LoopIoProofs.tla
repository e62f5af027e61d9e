---------------------------- MODULE LoopIoProofs ----------------------------
(***************************************************************************)
(* Proofs about the data path of a loop device, for every block size, every*)
(* device size, every set of priority levels and every set of requests.    *)
(* IoInv of LoopIo is the inductive invariant.                             *)
(***************************************************************************)
EXTENDS LoopIo, SequenceTheorems, TLAPS

-----------------------------------------------------------------------------
(* Arithmetic *)

\* The device is not empty and its size fits a word.
LEMMA Sizes ==
    /\ DeviceSize \in Nat \ {0}
    /\ DeviceSize < WordSpan
    /\ LastBlock + 1 < WordSpan
<1>1. (LastBlock + 1) * BlockSize >= LastBlock + 1
  BY IoAssumption
<1> QED
  BY <1>1, IoAssumption, WordSpanAssumption DEF DeviceSize

\* A product of naturals is one.
LEMMA Products == \A a, b \in Nat : a * b \in Nat
  OBVIOUS

\* What fits a word is not changed by taking it modulo the word.
LEMMA Fits == ASSUME NEW w \in Nat, NEW x \in Nat, x < w
              PROVE  x % w = x
  OBVIOUS

\* A size without remainder is a whole number of blocks.
LEMMA WholeBlocks ==
    ASSUME NEW size \in Nat, NEW block \in Nat \ {0}, size % block = 0
    PROVE  size \div block \in Nat /\ size = (size \div block) * block
  OBVIOUS

\* The range check of LoopReadBlocks keeps the offset from wrapping and the
\* whole request inside the device.
LEMMA AcceptedInside ==
    ASSUME NEW req \in Request, ReadAccepted(req)
    PROVE  Inside(req)
<1> DEFINE blocks == req.size \div BlockSize
<1>1. /\ req.lba \in 0..LastBlock
      /\ req.size \in Nat
  BY IoAssumption DEF ReadAccepted
<1>2. blocks \in Nat /\ req.size = blocks * BlockSize
  BY <1>1, WholeBlocks, IoAssumption DEF ReadAccepted
<1>3. (LastBlock + 1 - req.lba) % WordSpan = LastBlock + 1 - req.lba
  BY <1>1, Sizes, IoAssumption, WordSpanAssumption
<1>4. req.lba + blocks <= LastBlock + 1
  BY <1>1, <1>2, <1>3, IoAssumption DEF ReadAccepted
<1> HIDE DEF blocks
<1>5. (req.lba + blocks) * BlockSize <= DeviceSize
  BY <1>1, <1>2, <1>4, IoAssumption DEF DeviceSize
<1>6. req.lba * BlockSize + req.size <= DeviceSize
  BY <1>1, <1>2, <1>5, IoAssumption
<1>7. Offset(req.lba) = req.lba * BlockSize
  <2>1. req.lba * BlockSize \in Nat
    BY <1>1, Products, IoAssumption
  <2>2. req.lba * BlockSize < WordSpan
    BY <1>1, <1>6, <2>1, Sizes, IoAssumption, WordSpanAssumption
  <2> QED
    BY <2>1, <2>2, Fits, IoAssumption, WordSpanAssumption DEF Offset
<1> QED
  BY <1>6, <1>7 DEF Inside

-----------------------------------------------------------------------------
(* The stack *)

\* The running call is one of the stack.
LEMMA TopCall ==
    ASSUME IoTypeOK, stack # <<>>
    PROVE  /\ Len(stack) \in Nat \ {0}
           /\ Len(stack) \in 1..Len(stack)
           /\ Top \in IoCall
  BY DEF IoTypeOK, Top

\* A step that changes the running call only: the others keep what is so of
\* them, even if the file moves, provided the running call had placed it, and
\* even if its token changes.
LEMMA TopReplaced ==
    ASSUME IoInv, stack # <<>>, NEW f \in IoCall, SetTop(f),
           f.req = Top.req,
           position' \in 0..BackingSize, UNCHANGED fileSize,
           position' # position => Top.pc = "read",
           transaction' \in [Token -> IoStatus],
           \A t \in Token : transaction'[t] # transaction[t] =>
                              t = Top.req.token,
           CallSound(f, position', fileSize, transaction'), f.pc # "read"
    PROVE  IoInv'
<1>1. /\ stack \in Seq(IoCall)
      /\ Len(stack) \in 1..Len(stack)
      /\ Top = stack[Len(stack)]
  BY TopCall DEF IoInv, IoTypeOK, Top
<1>2. /\ stack' \in Seq(IoCall)
      /\ Len(stack') = Len(stack)
      /\ \A i \in 1..Len(stack) :
             stack'[i] = IF i = Len(stack) THEN f ELSE stack[i]
  BY <1>1, ExceptSeq DEF SetTop
<1>3. IoTypeOK'
  BY <1>2 DEF IoInv, IoTypeOK
<1>4. \A i \in 1..Len(stack) :
          CallSound(stack'[i], position', fileSize', transaction')
  <2> SUFFICES ASSUME NEW i \in 1..Len(stack), i # Len(stack)
               PROVE  CallSound(stack[i], position', fileSize, transaction')
    BY <1>1, <1>2
  <2>1. CallSound(stack[i], position, fileSize, transaction)
    BY DEF IoInv
  <2>2. stack[i].pc = "read" /\ position' # position => stack[i].disturbed
    BY <1>1 DEF IoInv, OuterDisturbed
  <2>3. stack[i].req.token # NoToken /\ ~ stack[i].reused =>
            transaction'[stack[i].req.token] = transaction[stack[i].req.token]
    <3>1. stack[i] \in IoCall
      BY <1>1
    <3>2. stack[i].req \in Request
      BY <3>1 DEF IoCall
    <3>3. stack[i].req.token \in Token \union {NoToken}
      BY <3>2, IoAssumption
    <3>4. stack[i].req.token # NoToken /\ stack[i].req.token = Top.req.token
              => stack[i].reused
      BY <1>1 DEF IoInv, OuterReused
    <3> QED
      BY <3>3, <3>4
  <2> QED
    BY <2>1, <2>2, <2>3 DEF CallSound
<1>5. OuterDisturbed'
  BY <1>1, <1>2 DEF IoInv, OuterDisturbed
<1>6. OuterReused'
  <2> SUFFICES ASSUME NEW i \in 1..Len(stack), NEW j \in 1..Len(stack), i < j,
                      stack'[j].req.token # NoToken,
                      stack'[i].req.token = stack'[j].req.token
               PROVE  stack'[i].reused
    BY <1>2 DEF OuterReused
  <2>1. i # Len(stack) /\ stack'[i] = stack[i]
    BY <1>1, <1>2
  <2>2. stack'[j].req = stack[j].req
    BY <1>1, <1>2
  <2> QED
    BY <2>1, <2>2 DEF IoInv, OuterReused
<1> QED
  BY <1>2, <1>3, <1>4, <1>5, <1>6 DEF IoInv

-----------------------------------------------------------------------------
(* One lemma per action *)

\* A fresh stack, a file at its start, tokens that hold nothing.
LEMMA InitIo == IoInit => IoInv
  BY Sizes, IoAssumption
     DEF IoInit, IoInv, IoTypeOK, IoStatus, OuterDisturbed, OuterReused

\* What is so of a call stays so when its token, signaled, is used again.
LEMMA Reuse ==
    ASSUME NEW c \in IoCall, NEW pos, NEW size, NEW trans,
           CallSound(c, pos, size, trans), c.pc = "return"
    PROVE  /\ [c EXCEPT !.reused = TRUE] \in IoCall
           /\ [c EXCEPT !.reused = TRUE].reused
           /\ [c EXCEPT !.reused = TRUE].pc = "return"
           /\ [c EXCEPT !.reused = TRUE].req = c.req
           /\ CallSound([c EXCEPT !.reused = TRUE], pos, size, trans)
<1> DEFINE g == [c EXCEPT !.reused = TRUE]
<1>1. g.reused
  BY Zenon DEF IoCall
<1>2. /\ g.req = c.req /\ g.pc = c.pc /\ g.status = c.status
      /\ g.told = c.told /\ g.from = c.from /\ g.got = c.got
      /\ g \in IoCall
  BY DEF IoCall
<1>3. g.disturbed = c.disturbed
  BY Zenon DEF IoCall
<1> HIDE DEF g
<1>4. CallSound(g, pos, size, trans)
  BY <1>1, <1>2, <1>3 DEF CallSound, Delivered
<1> QED
  BY <1>1, <1>2, <1>4 DEF g

\* Entering a service puts a call on top that has done nothing yet, and marks
\* the calls below that were given its token: they have been signaled.
LEMMA EnterInv ==
    ASSUME IoInv, NEW req \in Request, NEW level \in Levels, Enter(req, level)
    PROVE  IoInv'
<1> DEFINE new == [req |-> req, level |-> level, pc |-> "check", from |-> 0,
                   got |-> 0, disturbed |-> FALSE, status |-> "NONE",
                   told |-> "NONE", reused |-> FALSE]
           shares(i) == req.token # NoToken /\ stack[i].req.token = req.token
           below(i) == IF shares(i) THEN [stack[i] EXCEPT !.reused = TRUE]
                                    ELSE stack[i]
           marked == [i \in 1..Len(stack) |-> below(i)]
<1>1. new \in IoCall
  BY Sizes, IoAssumption DEF IoCall, IoStatus
<1>2. /\ stack \in Seq(IoCall) /\ Len(stack) \in Nat
      /\ stack' = Append(marked, new)
      /\ UNCHANGED <<position, fileSize, transaction>>
  BY DEF Enter, IoInv, IoTypeOK, fileVars
<1>3. CallSound(new, position, fileSize, transaction)
  BY DEF CallSound
<1>4. new.pc = "check" /\ new.req = req
  OBVIOUS
<1>5. \A i \in 1..Len(stack) :
          /\ stack[i] \in IoCall
          /\ CallSound(stack[i], position, fileSize, transaction)
          /\ shares(i) => stack[i].pc = "return"
  <2> SUFFICES ASSUME NEW i \in 1..Len(stack)
               PROVE  shares(i) => stack[i].pc = "return"
    BY <1>2 DEF IoInv
  <2>1. stack[i] \in Calls
    BY DEF Calls
  <2> QED
    BY <2>1 DEF Enter, TokenFree
<1> HIDE DEF new
<1>6. \A i \in 1..Len(stack) :
          /\ below(i) \in IoCall
          /\ CallSound(below(i), position, fileSize, transaction)
          /\ below(i).req = stack[i].req
          /\ stack[i].reused => below(i).reused
          /\ shares(i) => below(i).reused
          /\ below(i).pc = "read" => below(i) = stack[i]
  <2> SUFFICES ASSUME NEW i \in 1..Len(stack)
               PROVE  /\ below(i) \in IoCall
                      /\ CallSound(below(i), position, fileSize, transaction)
                      /\ below(i).req = stack[i].req
                      /\ stack[i].reused => below(i).reused
                      /\ shares(i) => below(i).reused
                      /\ below(i).pc = "read" => below(i) = stack[i]
    OBVIOUS
  <2>1. CASE shares(i)
    <3>1. below(i) = [stack[i] EXCEPT !.reused = TRUE]
      BY <2>1
    <3> HIDE DEF below
    <3>2. stack[i] \in IoCall /\ stack[i].pc = "return"
          /\ CallSound(stack[i], position, fileSize, transaction)
      BY <1>5, <2>1
    <3> QED
      BY <3>1, <3>2, Reuse
  <2>2. CASE ~ shares(i)
    BY <1>5, <2>2
  <2> QED
    BY <2>1, <2>2
<1> HIDE DEF below
<1>7. marked \in Seq(IoCall) /\ Len(marked) = Len(stack)
  <2>1. marked \in [1..Len(stack) -> IoCall]
    BY <1>6
  <2>2. marked \in Seq(IoCall)
    BY <1>2, <2>1
  <2> QED
    BY <1>2, <2>1, <2>2, LenProperties
<1>8. \A i \in 1..Len(stack) : marked[i] = below(i)
  OBVIOUS
<1> HIDE DEF marked
<1>9. /\ stack' \in Seq(IoCall)
      /\ Len(stack') = Len(stack) + 1
      /\ \A i \in 1..Len(stack) : stack'[i] = below(i)
      /\ stack'[Len(stack) + 1] = new
  BY <1>1, <1>2, <1>7, <1>8, AppendProperties
<1>10. IoTypeOK'
  BY <1>2, <1>9 DEF IoInv, IoTypeOK
<1>11. \A i \in 1..Len(stack') :
           CallSound(stack'[i], position', fileSize', transaction')
  BY <1>2, <1>3, <1>6, <1>9
<1>12. OuterDisturbed'
  <2> SUFFICES ASSUME NEW i \in 1..Len(stack'), NEW j \in 1..Len(stack'), i < j,
                      stack'[i].pc = "read", stack'[j].pc = "read"
               PROVE  stack'[i].disturbed
    BY DEF OuterDisturbed
  <2>1. i \in 1..Len(stack) /\ j \in 1..Len(stack)
    BY <1>2, <1>4, <1>9
  <2>2. stack'[i] = stack[i] /\ stack'[j] = stack[j]
    BY <1>6, <1>9, <2>1
  <2> QED
    BY <2>1, <2>2 DEF IoInv, OuterDisturbed
<1>13. OuterReused'
  <2> SUFFICES ASSUME NEW i \in 1..Len(stack'), NEW j \in 1..Len(stack'), i < j,
                      stack'[j].req.token # NoToken,
                      stack'[i].req.token = stack'[j].req.token
               PROVE  stack'[i].reused
    BY DEF OuterReused
  <2>1. i \in 1..Len(stack)
    BY <1>2, <1>9
  <2>2. stack'[i] = below(i) /\ stack'[i].req = stack[i].req
    BY <1>6, <1>9, <2>1
  <2>3. CASE j \in 1..Len(stack)
    <3>1. stack'[j].req = stack[j].req
      BY <1>6, <1>9, <2>3
    <3> QED
      BY <1>6, <2>1, <2>2, <2>3, <3>1 DEF IoInv, OuterReused
  <2>4. CASE j = Len(stack) + 1
    BY <1>4, <1>6, <1>9, <2>1, <2>2, <2>4
  <2> QED
    BY <1>2, <1>9, <2>3, <2>4
<1> QED
  BY <1>10, <1>11, <1>12, <1>13 DEF IoInv

\* The parameter checks let through only what stays inside the device.
LEMMA CheckInv == IoInv /\ Check => IoInv'
<1> SUFFICES ASSUME IoInv, Check PROVE IoInv'
  OBVIOUS
<1>1. /\ stack # <<>> /\ Top.pc = "check"
      /\ Top \in IoCall
      /\ position \in 0..BackingSize
      /\ transaction \in [Token -> IoStatus]
      /\ UNCHANGED <<position, fileSize, transaction>>
  BY TopCall DEF Check, IoInv, IoTypeOK, fileVars
<1>2. CallSound(Top, position, fileSize, transaction)
  BY <1>1, TopCall DEF IoInv, Top
<1>3. CASE Top.req.op = "read" /\ ReadAccepted(Top.req)
             /\ SetTop([Top EXCEPT !.pc = "seek"])
  <2> DEFINE f == [Top EXCEPT !.pc = "seek"]
  <2>1. Inside(Top.req)
    BY <1>1, <1>3, AcceptedInside DEF IoCall
  <2>2. /\ f \in IoCall /\ f.req = Top.req /\ f.pc = "seek"
        /\ f.status = Top.status /\ f.told = Top.told
        /\ f.from = Top.from
    BY <1>1 DEF IoCall
  <2>3. f.reused = Top.reused
    BY <1>1, Zenon DEF IoCall
  <2>4. SetTop(f)
    BY <1>3
  <2> HIDE DEF f
  <2>5. CallSound(f, position, fileSize, transaction)
    BY <1>1, <1>2, <2>1, <2>2, <2>3 DEF CallSound
  <2> QED
    BY <1>1, <2>2, <2>4, <2>5, TopReplaced
<1>4. ASSUME NEW s \in {"INVALID_PARAMETER", "WRITE_PROTECTED", "SUCCESS"},
             s = "SUCCESS" => Top.req.op # "read",
             SetTop([Top EXCEPT !.pc = "complete", !.status = s])
      PROVE  IoInv'
  <2> DEFINE f == [Top EXCEPT !.pc = "complete", !.status = s]
  <2>1. /\ f \in IoCall /\ f.req = Top.req /\ f.pc = "complete"
        /\ f.status = s /\ f.told = Top.told
    BY <1>1 DEF IoCall, IoStatus
  <2>2. f.reused = Top.reused
    BY <1>1, Zenon DEF IoCall
  <2>3. SetTop(f)
    BY <1>4
  <2> HIDE DEF f
  <2>4. CallSound(f, position, fileSize, transaction)
    BY <1>1, <1>2, <1>4, <2>1, <2>2 DEF CallSound
  <2> QED
    BY <1>1, <2>1, <2>3, <2>4, TopReplaced
<1> QED
  BY <1>3, <1>4 DEF Check

\* What is so of a call stays so when it is disturbed.
LEMMA Disturb ==
    ASSUME NEW c \in IoCall, NEW pos, NEW p, NEW size, NEW trans,
           CallSound(c, pos, size, trans), c.pc = "read"
    PROVE  /\ [c EXCEPT !.disturbed = TRUE].disturbed
           /\ [c EXCEPT !.disturbed = TRUE].pc = "read"
           /\ [c EXCEPT !.disturbed = TRUE].req = c.req
           /\ [c EXCEPT !.disturbed = TRUE].reused = c.reused
           /\ CallSound([c EXCEPT !.disturbed = TRUE], p, size, trans)
<1> DEFINE g == [c EXCEPT !.disturbed = TRUE]
<1>1. g.disturbed /\ g.reused = c.reused
  BY Zenon DEF IoCall
<1>2. /\ g.req = c.req /\ g.pc = c.pc /\ g.status = c.status
      /\ g.told = c.told
  BY DEF IoCall
<1> HIDE DEF g
<1>3. CallSound(g, p, size, trans)
  BY <1>1, <1>2 DEF CallSound
<1> QED
  BY <1>1, <1>2, <1>3 DEF g

\* SetPosition disturbs every other call that has placed the file.
LEMMA SeekInv == IoInv /\ Seek => IoInv'
<1> SUFFICES ASSUME IoInv, Seek PROVE IoInv'
  OBVIOUS
<1>1. /\ stack \in Seq(IoCall)
      /\ Len(stack) \in 1..Len(stack)
      /\ Top \in IoCall /\ Top.pc = "seek" /\ Top = stack[Len(stack)]
      /\ position' = Offset(Top.req.lba)
      /\ UNCHANGED <<fileSize, transaction>>
  BY TopCall DEF Seek, IoInv, IoTypeOK, Top
<1>2. CallSound(Top, position, fileSize, transaction)
  BY <1>1 DEF IoInv
<1>3. /\ Len(stack') = Len(stack)
      /\ \A i \in 1..Len(stack) :
             stack'[i] = IF i = Len(stack) THEN [Top EXCEPT !.pc = "read"]
                         ELSE IF stack[i].pc = "read"
                              THEN [stack[i] EXCEPT !.disturbed = TRUE]
                              ELSE stack[i]
      /\ stack' \in Seq(IoCall)
  <2>1. \A i \in 1..Len(stack) : stack[i] \in IoCall
    BY <1>1
  <2>2. \A c \in IoCall : /\ [c EXCEPT !.pc = "read"] \in IoCall
                        /\ [c EXCEPT !.disturbed = TRUE] \in IoCall
    BY DEF IoCall
  <2> DEFINE new(i) == IF i = Len(stack) THEN [Top EXCEPT !.pc = "read"]
                       ELSE IF stack[i].pc = "read"
                            THEN [stack[i] EXCEPT !.disturbed = TRUE]
                            ELSE stack[i]
  <2>3. stack' = [i \in 1..Len(stack) |-> new(i)]
    BY DEF Seek
  <2>4. \A i \in 1..Len(stack) : new(i) \in IoCall
    BY <1>1, <2>1, <2>2
  <2> HIDE DEF new
  <2>5. stack' \in [1..Len(stack) -> IoCall]
    BY <2>3, <2>4
  <2>6. Len(stack) \in Nat
    BY <1>1
  <2>7. stack' \in Seq(IoCall)
    BY <2>5, <2>6
  <2>8. Len(stack') = Len(stack)
    BY <2>5, <2>6, <2>7, LenProperties
  <2> QED
    BY <2>3, <2>7, <2>8 DEF new
<1>4. stack' \in Seq(IoCall)
  BY <1>3
<1>5. IoTypeOK'
  <2>1. position' \in 0..BackingSize
    <3>1. Inside(Top.req) /\ Top.req \in Request
      BY <1>1, <1>2 DEF CallSound, IoCall
    <3>2. Top.req.lba * BlockSize \in Nat /\ Top.req.size \in Nat
      BY <3>1, Products, IoAssumption
    <3> QED
      BY <1>1, <3>1, <3>2, Sizes, IoAssumption DEF Inside
  <2> QED
    BY <1>1, <1>4, <2>1 DEF IoInv, IoTypeOK
<1>6. \A i \in 1..Len(stack) :
          CallSound(stack'[i], position', fileSize', transaction')
  <2> SUFFICES ASSUME NEW i \in 1..Len(stack)
               PROVE  CallSound(stack'[i], position', fileSize, transaction)
    BY <1>1
  <2>1. /\ CallSound(stack[i], position, fileSize, transaction)
        /\ stack[i] \in IoCall
    BY <1>1 DEF IoInv
  <2>2. CASE i = Len(stack)
    <3> DEFINE g == [Top EXCEPT !.pc = "read"]
    <3>1. /\ g.req = Top.req /\ g.status = Top.status /\ g.pc = "read"
          /\ g.told = Top.told
      BY <1>1 DEF IoCall
    <3>5. g.reused = Top.reused
      BY <1>1, Zenon DEF IoCall
    <3>2. stack'[i] = g
      BY <1>3, <2>2
    <3> HIDE DEF g
    <3>3. /\ g.status = "NONE" /\ g.told = "NONE" /\ ~ g.reused
          /\ Inside(g.req)
          /\ position' = Offset(g.req.lba)
      BY <1>1, <1>2, <3>1, <3>5 DEF CallSound
    <3>4. CallSound(stack'[i], position', fileSize, transaction)
      BY <3>1, <3>2, <3>3 DEF CallSound
    <3> QED
      BY <3>4
  <2>3. CASE i # Len(stack) /\ stack[i].pc = "read"
    <3>1. stack'[i] = [stack[i] EXCEPT !.disturbed = TRUE]
      BY <1>3, <2>3
    <3>2. CallSound([stack[i] EXCEPT !.disturbed = TRUE], position', fileSize,
                    transaction)
      BY <2>1, <2>3, Disturb
    <3> QED
      BY <3>1, <3>2
  <2>4. CASE i # Len(stack) /\ stack[i].pc # "read"
    BY <1>1, <1>3, <2>1, <2>4 DEF CallSound
  <2> QED
    BY <2>2, <2>3, <2>4
<1>7. OuterDisturbed'
  <2> SUFFICES ASSUME NEW i \in 1..Len(stack), i # Len(stack),
                      stack'[i].pc = "read"
               PROVE  stack'[i].disturbed
    BY <1>1, <1>3 DEF OuterDisturbed
  <2>1. /\ stack[i] \in IoCall
        /\ CallSound(stack[i], position, fileSize, transaction)
    BY <1>1 DEF IoInv
  <2>2. stack[i].pc = "read"
    BY <1>3
  <2> QED
    BY <1>3, <2>1, <2>2, Disturb
<1>8. OuterReused'
  <2>1. \A i \in 1..Len(stack) : /\ stack'[i].req = stack[i].req
                                 /\ stack[i].reused => stack'[i].reused
    <3> SUFFICES ASSUME NEW i \in 1..Len(stack)
                 PROVE  /\ stack'[i].req = stack[i].req
                        /\ stack[i].reused => stack'[i].reused
      OBVIOUS
    <3>1. /\ stack[i] \in IoCall
          /\ CallSound(stack[i], position, fileSize, transaction)
      BY <1>1 DEF IoInv
    <3>2. CASE i = Len(stack)
      <4>1. ~ Top.reused
        BY <1>1, <1>2 DEF CallSound
      <4>2. [Top EXCEPT !.pc = "read"].req = Top.req
        BY <1>1 DEF IoCall
      <4> QED
        BY <1>1, <1>3, <3>2, <4>1, <4>2
    <3>3. CASE i # Len(stack) /\ stack[i].pc = "read"
      BY <1>3, <3>1, <3>3, Disturb
    <3>4. CASE i # Len(stack) /\ stack[i].pc # "read"
      BY <1>3, <3>4
    <3> QED
      BY <3>2, <3>3, <3>4
  <2> QED
    BY <1>3, <2>1 DEF IoInv, OuterReused
<1> QED
  BY <1>3, <1>5, <1>6, <1>7, <1>8 DEF IoInv

\* An error of the file system ends the read and moves nothing.
LEMMA FileFailsInv == IoInv /\ FileFails => IoInv'
<1> SUFFICES ASSUME IoInv, FileFails PROVE IoInv'
  OBVIOUS
<1> DEFINE f == [Top EXCEPT !.pc = "complete", !.status = "DEVICE_ERROR",
                            !.from = -1]
<1>1. /\ stack # <<>> /\ Top.pc \in {"seek", "read"}
      /\ Top \in IoCall
      /\ SetTop(f)
      /\ position \in 0..BackingSize
      /\ transaction \in [Token -> IoStatus]
      /\ UNCHANGED <<position, fileSize, transaction>>
  BY TopCall DEF FileFails, IoInv, IoTypeOK, fileVars
<1>2. CallSound(Top, position, fileSize, transaction)
  BY <1>1, TopCall DEF IoInv, Top
<1>3. /\ f \in IoCall /\ f.req = Top.req /\ f.pc = "complete"
      /\ f.status = "DEVICE_ERROR" /\ f.from = -1 /\ f.told = Top.told
  BY <1>1 DEF IoCall, IoStatus
<1>4. f.reused = Top.reused
  BY <1>1, Zenon DEF IoCall
<1> HIDE DEF f
<1>5. CallSound(f, position, fileSize, transaction)
  BY <1>1, <1>2, <1>3, <1>4 DEF CallSound
<1> QED
  BY <1>1, <1>3, <1>5, TopReplaced

\* The read delivers what stands at the position; less than was asked for
\* only if the file has shrunk or somebody else has moved the position.
LEMMA ReadInv == IoInv /\ Read => IoInv'
<1> SUFFICES ASSUME IoInv, Read PROVE IoInv'
  OBVIOUS
<1> DEFINE left == IF fileSize > position THEN fileSize - position ELSE 0
           got == IF Top.req.size <= left THEN Top.req.size ELSE left
           status == IF got = Top.req.size THEN "SUCCESS" ELSE "DEVICE_ERROR"
           f == [Top EXCEPT !.pc = "complete", !.from = position, !.got = got,
                            !.status = status]
<1>1. /\ stack # <<>> /\ Top.pc = "read"
      /\ Top \in IoCall /\ Top.req.size \in Nat
      /\ position \in 0..BackingSize /\ fileSize \in 0..BackingSize
      /\ transaction \in [Token -> IoStatus]
      /\ UNCHANGED <<fileSize, transaction>>
  BY TopCall, IoAssumption DEF Read, IoInv, IoTypeOK, IoCall
<1>2. position' = position + got /\ SetTop(f)
  BY DEF Read
<1>3. CallSound(Top, position, fileSize, transaction)
  BY <1>1, TopCall DEF IoInv, Top
<1>4. /\ got \in 0..BackingSize /\ position + got \in 0..BackingSize
      /\ got <= Top.req.size
      /\ got # Top.req.size => position + Top.req.size > fileSize
  <2>1. BackingSize \in Nat /\ position \in Nat /\ fileSize \in Nat
    BY <1>1, IoAssumption
  <2>2. /\ left \in Nat
        /\ fileSize > position => left = fileSize - position
        /\ ~ (fileSize > position) => left = 0
    BY <2>1
  <2> HIDE DEF left
  <2>3. /\ got \in Nat /\ got <= left /\ got <= Top.req.size
        /\ got # Top.req.size => Top.req.size > left
    BY <1>1, <2>2
  <2> HIDE DEF got
  <2> QED
    BY <1>1, <2>1, <2>2, <2>3
<1>5. ~ Top.disturbed =>
          /\ position = Top.req.lba * BlockSize
          /\ got # Top.req.size => fileSize < DeviceSize
  <2> SUFFICES ASSUME ~ Top.disturbed
               PROVE  /\ position = Top.req.lba * BlockSize
                      /\ got # Top.req.size => fileSize < DeviceSize
    OBVIOUS
  <2>1. position = Offset(Top.req.lba) /\ Inside(Top.req)
    BY <1>1, <1>3 DEF CallSound
  <2> QED
    BY <1>1, <1>4, <2>1, Sizes DEF Inside
<1> HIDE DEF got, left
<1>6. /\ f \in IoCall /\ f.req = Top.req /\ f.pc = "complete"
      /\ f.status = status /\ f.from = position /\ f.got = got
      /\ f.told = Top.told
  BY <1>1, <1>4 DEF IoCall, IoStatus
<1>7. f.reused = Top.reused /\ f.disturbed = Top.disturbed
  BY <1>1, Zenon DEF IoCall
<1>8. status \in {"SUCCESS", "DEVICE_ERROR"}
      /\ (status = "SUCCESS" => got = Top.req.size)
      /\ (status = "DEVICE_ERROR" => got # Top.req.size)
  OBVIOUS
<1> HIDE DEF f, status
<1>9. CallSound(f, position', fileSize, transaction)
  BY <1>1, <1>3, <1>5, <1>6, <1>7, <1>8 DEF CallSound, Delivered
<1> QED
  BY <1>1, <1>2, <1>4, <1>6, <1>9, TopReplaced

\* The token gets the status.
LEMMA StoreInv == IoInv /\ StoreStatus => IoInv'
<1> SUFFICES ASSUME IoInv, StoreStatus PROVE IoInv'
  OBVIOUS
<1> DEFINE pc == IF Top.status = "SUCCESS" /\ Top.req.token \in Event
                 THEN "signal" ELSE "return"
           f == [Top EXCEPT !.pc = pc]
<1>1. /\ stack # <<>> /\ Top.pc = "complete"
      /\ Top \in IoCall
      /\ SetTop(f)
      /\ position \in 0..BackingSize
      /\ transaction \in [Token -> IoStatus]
      /\ UNCHANGED <<position, fileSize>>
  BY TopCall DEF StoreStatus, IoInv, IoTypeOK, fileVars
<1>2. CallSound(Top, position, fileSize, transaction)
  BY <1>1, TopCall DEF IoInv, Top
<1>3. /\ pc \in {"signal", "return"}
      /\ pc = "signal" <=> Top.status = "SUCCESS" /\ Top.req.token \in Event
  OBVIOUS
<1> HIDE DEF pc
<1>4. /\ f \in IoCall /\ f.req = Top.req /\ f.pc = pc
      /\ f.status = Top.status /\ f.from = Top.from /\ f.got = Top.got
      /\ f.told = Top.told
  BY <1>1, <1>3 DEF IoCall
<1>5. f.reused = Top.reused /\ f.disturbed = Top.disturbed
  BY <1>1, Zenon DEF IoCall
<1> HIDE DEF f
<1>6. Top.req.token \in Token \union {NoToken} /\ Top.status \in IoStatus
  BY <1>1, IoAssumption DEF IoCall
<1>7. /\ transaction' \in [Token -> IoStatus]
      /\ \A t \in Token : transaction'[t] # transaction[t] =>
                           t = Top.req.token
      /\ Top.req.token # NoToken => transaction'[Top.req.token] = Top.status
  BY <1>1, <1>6 DEF StoreStatus
<1>8. CallSound(f, position, fileSize, transaction')
  BY <1>1, <1>2, <1>3, <1>4, <1>5, <1>7, IoAssumption DEF CallSound, Delivered
<1> QED
  BY <1>1, <1>3, <1>4, <1>7, <1>8, TopReplaced

\* The notification finds what the step before has stored.
LEMMA SignalInv == IoInv /\ SignalEvent => IoInv'
<1> SUFFICES ASSUME IoInv, SignalEvent PROVE IoInv'
  OBVIOUS
<1> DEFINE f == [Top EXCEPT !.pc = "return",
                            !.told = transaction[Top.req.token]]
<1>1. /\ stack # <<>> /\ Top.pc = "signal"
      /\ Top \in IoCall
      /\ SetTop(f)
      /\ position \in 0..BackingSize
      /\ transaction \in [Token -> IoStatus]
      /\ UNCHANGED <<position, fileSize, transaction>>
  BY TopCall DEF SignalEvent, IoInv, IoTypeOK, fileVars
<1>2. CallSound(Top, position, fileSize, transaction)
  BY <1>1, TopCall DEF IoInv, Top
<1>3. /\ Top.status = "SUCCESS" /\ Top.req.token \in Event
      /\ Top.req.token \in Token /\ Top.req.token # NoToken
      /\ ~ Top.reused
      /\ transaction[Top.req.token] = "SUCCESS"
  BY <1>1, <1>2, IoAssumption DEF CallSound
<1>4. /\ f \in IoCall /\ f.req = Top.req /\ f.pc = "return"
      /\ f.status = Top.status /\ f.from = Top.from /\ f.got = Top.got
      /\ f.told = "SUCCESS"
  BY <1>1, <1>3 DEF IoCall, IoStatus
<1>5. f.reused = Top.reused /\ f.disturbed = Top.disturbed
  BY <1>1, Zenon DEF IoCall
<1> HIDE DEF f
<1>6. CallSound(f, position, fileSize, transaction)
  BY <1>1, <1>2, <1>3, <1>4, <1>5 DEF CallSound, Delivered
<1> QED
  BY <1>1, <1>4, <1>6, TopReplaced

\* Returning uncovers the call below, unchanged.
LEMMA ReturnInv == IoInv /\ Return => IoInv'
<1> SUFFICES ASSUME IoInv, Return PROVE IoInv'
  OBVIOUS
<1>1. /\ stack \in Seq(IoCall) /\ Len(stack) \in Nat \ {0}
      /\ stack' = SubSeq(stack, 1, Len(stack) - 1)
      /\ UNCHANGED <<position, fileSize, transaction>>
  BY TopCall DEF Return, IoInv, IoTypeOK, fileVars
<1>2. \A i \in 1..(Len(stack) - 1) : stack[i] \in IoCall
  BY <1>1
<1>3. /\ stack' \in Seq(IoCall)
      /\ Len(stack') = Len(stack) - 1
      /\ \A i \in 1..Len(stack') : stack'[i] = stack[i]
  <2> DEFINE n == Len(stack) - 1
  <2>1. n \in Nat /\ 1 \in Int /\ n \in Int
    BY <1>1
  <2>2. \A i \in 1..n : stack[i] \in IoCall
    BY <1>2
  <2>3. stack' = SubSeq(stack, 1, n)
    BY <1>1
  <2> HIDE DEF n
  <2>4. /\ SubSeq(stack, 1, n) \in Seq(IoCall)
        /\ Len(SubSeq(stack, 1, n)) = IF 1 <= n THEN n - 1 + 1 ELSE 0
        /\ \A i \in 1..(n - 1 + 1) : SubSeq(stack, 1, n)[i] = stack[1 + i - 1]
    BY <2>1, <2>2, SubSeqProperties
  <2>5. Len(stack') = n
    BY <2>1, <2>3, <2>4
  <2>6. \A i \in 1..n : stack'[i] = stack[i]
    BY <2>1, <2>3, <2>4
  <2> QED
    BY <2>3, <2>4, <2>5, <2>6 DEF n
<1>4. IoTypeOK'
  BY <1>1, <1>3 DEF IoInv, IoTypeOK
<1>5. \A i \in 1..Len(stack') :
          CallSound(stack'[i], position', fileSize', transaction')
  BY <1>1, <1>3 DEF IoInv
<1>6. OuterDisturbed' /\ OuterReused'
  BY <1>1, <1>3 DEF IoInv, OuterDisturbed, OuterReused
<1> QED
  BY <1>4, <1>5, <1>6 DEF IoInv

\* A file that shrinks only makes more short reads legitimate.
LEMMA ShrinkInv ==
    ASSUME IoInv, NEW size \in Truncated, Shrink(size)
    PROVE  IoInv'
<1>1. /\ fileSize' \in 0..BackingSize /\ fileSize' < fileSize
      /\ fileSize \in 0..BackingSize
      /\ UNCHANGED <<stack, position, transaction>>
  BY IoAssumption DEF Shrink, IoInv, IoTypeOK
<1>2. \A i \in 1..Len(stack) :
          CallSound(stack[i], position, fileSize', transaction)
  <2> SUFFICES ASSUME NEW i \in 1..Len(stack)
               PROVE  CallSound(stack[i], position, fileSize', transaction)
    OBVIOUS
  <2>1. CallSound(stack[i], position, fileSize, transaction)
    BY DEF IoInv
  <2>2. fileSize < DeviceSize => fileSize' < DeviceSize
    BY <1>1, Sizes
  <2> QED
    BY <2>1, <2>2 DEF CallSound
<1> QED
  BY <1>1, <1>2 DEF IoInv, IoTypeOK, OuterDisturbed, OuterReused

\* Every step preserves the invariant.
LEMMA IoStepInv == IoInv /\ [IoNext]_ioVars => IoInv'
<1> SUFFICES ASSUME IoInv, [IoNext]_ioVars PROVE IoInv'
  OBVIOUS
<1>1. CASE \E req \in Request, level \in Levels : Enter(req, level)
  BY <1>1, EnterInv
<1>2. CASE IoStep
  BY <1>2, CheckInv, SeekInv, FileFailsInv, ReadInv, StoreInv, SignalInv,
     ReturnInv DEF IoStep, LoopCompleteToken
<1>3. CASE \E size \in Truncated : Shrink(size)
  BY <1>3, ShrinkInv
<1>4. CASE UNCHANGED ioVars
  BY <1>4 DEF ioVars, fileVars, IoInv, IoTypeOK, OuterDisturbed, OuterReused
<1> QED
  BY <1>1, <1>2, <1>3, <1>4 DEF IoNext

-----------------------------------------------------------------------------
(* Theorems *)

\* IoInv holds in every reachable state.
THEOREM IoInvariance == IoSpec => []IoInv
  BY InitIo, IoStepInv, PTL DEF IoSpec

\* Whatever a caller asks for, the device is read only inside its blocks.
THEOREM InsideTheDevice == IoSpec => []ReadsStayInside
<1>1. IoInv => ReadsStayInside
  BY DEF IoInv, ReadsStayInside, Calls, CallSound
<1> QED
  BY <1>1, IoInvariance, PTL

\* A read that succeeds gives the blocks asked for, unless a call at a higher
\* priority level moved the file position in between.
THEOREM Delivery == IoSpec => []UndisturbedReadDelivers
<1>1. IoInv => UndisturbedReadDelivers
  BY DEF IoInv, UndisturbedReadDelivers, Calls, CallSound
<1> QED
  BY <1>1, IoInvariance, PTL

\* An undisturbed short read means that the backing file has shrunk.
THEOREM ShortReads == IoSpec => []ShortReadMeansShrunk
<1>1. IoInv => ShortReadMeansShrunk
  BY DEF IoInv, ShortReadMeansShrunk, Calls, CallSound
<1> QED
  BY <1>1, IoInvariance, PTL

\* Whatever nests, and however often tokens are used again: a notification
\* finds the status of the request it waits for, events are signaled exactly
\* for what succeeded, and a token holds the status its service returned until
\* it is submitted again.
THEOREM TokensTell == IoSpec => []TokenTells
<1>1. IoInv => TokenTells
  BY DEF IoInv, TokenTells, Calls, CallSound
<1> QED
  BY <1>1, IoInvariance, PTL
=============================================================================
