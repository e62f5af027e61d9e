------------------------------- MODULE LoopIo -------------------------------
(***************************************************************************)
(* The data path of one loop device, the BlockIo and BlockIo2 services of  *)
(* MountPkg/Drivers/LoopDxe/LoopDxe.c: a read is a SetPosition and a Read  *)
(* on the one backing file, with a BlockIo2 token completed synchronously. *)
(*                                                                         *)
(* The firmware has one processor but several task priority levels: while  *)
(* a caller at one level is inside a service, an event notification at a   *)
(* higher level may run and call the same device.  Calls therefore nest in *)
(* a stack whose levels increase, and only the top one moves.  Each file   *)
(* operation is a step of its own: the code raises no priority and takes   *)
(* no lock between them.                                                   *)
(*                                                                         *)
(* A BlockIo2 token is memory of the caller's: the service stores its      *)
(* status there and then signals the token's event, whose notification may *)
(* run at once, look at the token and submit it again.                     *)
(***************************************************************************)
EXTENDS Words, Sequences

CONSTANTS
    BlockSize,    \* LOOP_BLOCK_SIZE: 2048
    LastBlock,    \* Disk->LastBlock
    BackingSize,  \* size of the backing file when the device was made
    Truncated,    \* sizes the file may be cut to later
    Levels,       \* priority levels callers run at: APPLICATION, CALLBACK
    Token,        \* BlockIo2 tokens of the callers
    Event,        \* those with an Event
    NoToken,      \* a BlockIo call, a NULL Token, a reset
    Request       \* the calls made: service, arguments and token

DeviceSize == (LastBlock + 1) * BlockSize

ASSUME IoAssumption ==
    /\ BlockSize \in Nat \ {0}
    /\ LastBlock \in Nat
    /\ BackingSize \in Nat /\ DeviceSize <= BackingSize
    /\ BackingSize < WordSpan
    /\ Truncated \subseteq 0..BackingSize
    /\ Levels \subseteq Nat \ {0}
    /\ Event \subseteq Token
    /\ NoToken \notin Token
    /\ Request \subseteq
          [op    : {"read", "write", "flush", "reset"},
           lba   : Nat,
           size  : Nat,        \* BufferSize, in bytes
           valid : BOOLEAN,    \* MediaId is the medium's, Buffer is not NULL
           token : Token \union {NoToken}]

VARIABLES
    stack,       \* the calls in progress, outermost first
    position,    \* the backing file's position
    fileSize,    \* the backing file's size; it may shrink under the device
    transaction  \* the TransactionStatus each token holds

fileVars == <<position, fileSize>>
ioVars == <<stack, fileVars, transaction>>

-----------------------------------------------------------------------------
IoStatus == {"NONE", "SUCCESS", "INVALID_PARAMETER", "DEVICE_ERROR",
             "WRITE_PROTECTED"}

Top == stack[Len(stack)]

SetTop(f) == stack' = [stack EXCEPT ![Len(stack)] = f]

Level == IF stack = <<>> THEN 0 ELSE Top.level

Calls == {stack[i] : i \in 1..Len(stack)}

\* A caller submits a token again only when its event has been signaled, or
\* when the call that was given it has returned.
TokenFree(t) ==
    \A c \in Calls : c.req.token = t => c.pc = "return" /\ c.told # "NONE"

\* Variant: the end of the range is compared with the last block only.
ReadAcceptedStart(req) ==
    /\ req.valid
    /\ req.size % BlockSize = 0
    /\ req.lba <= LastBlock

\* Variant: no check of the first block, so the subtraction wraps.
ReadAcceptedNoLba(req) ==
    /\ req.valid
    /\ req.size % BlockSize = 0
    /\ req.size \div BlockSize <= (LastBlock + 1 - req.lba) % WordSpan

\* The parameter checks of LoopReadBlocks.  UINT64 and UINTN are the same
\* width on this target.
ReadAccepted(req) ==
    /\ req.valid
    /\ req.size % BlockSize = 0
    /\ req.lba <= LastBlock
    /\ req.size \div BlockSize <= (LastBlock + 1 - req.lba) % WordSpan

\* MultU64x32
Offset(lba) == (lba * BlockSize) % WordSpan

-----------------------------------------------------------------------------
IoInit ==
    /\ stack = <<>>
    /\ position = 0
    /\ fileSize = BackingSize
    /\ transaction = [t \in Token |-> "NONE"]

\* A caller above the running level enters a service.  History: a call below
\* that was given the same token no longer answers for what it holds.
Enter(req, level) ==
    /\ level > Level
    /\ req.token # NoToken => TokenFree(req.token)
    /\ stack' = Append(
           [i \in 1..Len(stack) |->
               IF req.token # NoToken /\ stack[i].req.token = req.token
               THEN [stack[i] EXCEPT !.reused = TRUE] ELSE stack[i]],
           [req |-> req,
            level |-> level,
            pc |-> "check",
            from |-> 0,            \* where in the file the bytes delivered
            got |-> 0,             \* came from, and how many they are
            disturbed |-> FALSE,   \* history: see Seek
            status |-> "NONE",
            told |-> "NONE",       \* TransactionStatus as the event's
                                   \* notification finds it
            reused |-> FALSE])
    /\ UNCHANGED <<fileVars, transaction>>

\* Writes are refused, flushes and resets have nothing to do, reads are
\* checked.
Check ==
    /\ stack # <<>> /\ Top.pc = "check"
    /\ \/ /\ Top.req.op = "read" /\ ReadAccepted(Top.req)
          /\ SetTop([Top EXCEPT !.pc = "seek"])
       \/ /\ Top.req.op = "read" /\ ~ ReadAccepted(Top.req)
          /\ SetTop([Top EXCEPT !.pc = "complete",
                                !.status = "INVALID_PARAMETER"])
       \/ /\ Top.req.op = "write"
          /\ SetTop([Top EXCEPT !.pc = "complete",
                                !.status = "WRITE_PROTECTED"])
       \/ /\ Top.req.op \in {"flush", "reset"}
          /\ SetTop([Top EXCEPT !.pc = "complete", !.status = "SUCCESS"])
    /\ UNCHANGED <<fileVars, transaction>>

\* SetPosition.  History: every other call that has placed the file already
\* and not read yet is disturbed by this one.
Seek ==
    /\ stack # <<>> /\ Top.pc = "seek"
    /\ position' = Offset(Top.req.lba)
    /\ stack' = [i \in 1..Len(stack) |->
                    IF i = Len(stack)      THEN [Top EXCEPT !.pc = "read"]
                    ELSE IF stack[i].pc = "read"
                         THEN [stack[i] EXCEPT !.disturbed = TRUE]
                         ELSE stack[i]]
    /\ UNCHANGED <<fileSize, transaction>>

\* SetPosition or Read reports an error: passed on.
FileFails ==
    /\ stack # <<>> /\ Top.pc \in {"seek", "read"}
    /\ SetTop([Top EXCEPT !.pc = "complete", !.status = "DEVICE_ERROR",
                          !.from = -1])
    /\ UNCHANGED <<fileVars, transaction>>

\* Variant: what the file gave is not compared with what was asked.
ReadIgnoresLength ==
    /\ stack # <<>> /\ Top.pc = "read"
    /\ LET left == IF fileSize > position THEN fileSize - position ELSE 0
           got  == IF Top.req.size <= left THEN Top.req.size ELSE left
       IN  /\ position' = position + got
           /\ SetTop([Top EXCEPT !.pc = "complete", !.from = position,
                                 !.got = got, !.status = "SUCCESS"])
    /\ UNCHANGED <<fileSize, transaction>>

\* Read from the current position; a short read is a device error.
Read ==
    /\ stack # <<>> /\ Top.pc = "read"
    /\ LET left == IF fileSize > position THEN fileSize - position ELSE 0
           got  == IF Top.req.size <= left THEN Top.req.size ELSE left
       IN  /\ position' = position + got
           /\ SetTop([Top EXCEPT
                         !.pc = "complete",
                         !.from = position,
                         !.got = got,
                         !.status = IF got = Top.req.size THEN "SUCCESS"
                                                      ELSE "DEVICE_ERROR"])
    /\ UNCHANGED <<fileSize, transaction>>

\* LoopCompleteToken stores the status, if there is a token; the event of a
\* request that succeeded is still to be signaled.
StoreStatus ==
    /\ stack # <<>> /\ Top.pc = "complete"
    /\ transaction' = IF Top.req.token = NoToken THEN transaction
                      ELSE [transaction EXCEPT ![Top.req.token] = Top.status]
    /\ SetTop([Top EXCEPT
                  !.pc = IF Top.status = "SUCCESS" /\ Top.req.token \in Event
                         THEN "signal" ELSE "return"])
    /\ UNCHANGED fileVars

\* The notification SignalEvent runs finds the token as it is now; what it
\* does is a nested Enter.
SignalEvent ==
    /\ stack # <<>> /\ Top.pc = "signal"
    /\ SetTop([Top EXCEPT !.pc = "return",
                          !.told = transaction[Top.req.token]])
    /\ UNCHANGED <<fileVars, transaction>>

\* Variant: the event is signaled first and the status stored after.
CompleteSignalsFirst ==
    \/ /\ stack # <<>> /\ Top.pc = "complete"
       /\ IF Top.status = "SUCCESS" /\ Top.req.token \in Event
          THEN SetTop([Top EXCEPT !.pc = "signal",
                                  !.told = transaction[Top.req.token]])
          ELSE SetTop([Top EXCEPT !.pc = "return"])
       /\ transaction' = IF \/ Top.req.token = NoToken
                            \/ Top.status = "SUCCESS" /\ Top.req.token \in Event
                         THEN transaction
                         ELSE [transaction EXCEPT ![Top.req.token] = Top.status]
       /\ UNCHANGED fileVars
    \/ /\ stack # <<>> /\ Top.pc = "signal"
       /\ transaction' = [transaction EXCEPT ![Top.req.token] = Top.status]
       /\ SetTop([Top EXCEPT !.pc = "return"])
       /\ UNCHANGED fileVars

LoopCompleteToken == StoreStatus \/ SignalEvent

Return ==
    /\ stack # <<>> /\ Top.pc = "return"
    /\ stack' = SubSeq(stack, 1, Len(stack) - 1)
    /\ UNCHANGED <<fileVars, transaction>>

\* Something else truncates the image file under the mount (external).
Shrink(size) ==
    /\ size < fileSize
    /\ fileSize' = size
    /\ UNCHANGED <<stack, position, transaction>>

IoStep == Check \/ Seek \/ FileFails \/ Read \/ LoopCompleteToken \/ Return

IoNext ==
    \/ \E req \in Request, level \in Levels : Enter(req, level)
    \/ IoStep
    \/ \E size \in Truncated : Shrink(size)

IoSpec == IoInit /\ [][IoNext]_ioVars

-----------------------------------------------------------------------------
(* Properties *)

IoCall == [req : Request, level : Levels,
           pc : {"check", "seek", "read", "complete", "signal", "return"},
           from : 0..BackingSize \union {-1}, got : 0..BackingSize,
           disturbed : BOOLEAN,
           status : IoStatus, told : IoStatus, reused : BOOLEAN]

\* Type invariant; the file's position never leaves the file the device was
\* made of.
IoTypeOK ==
    /\ stack \in Seq(IoCall)
    /\ position \in 0..BackingSize
    /\ fileSize \in 0..BackingSize
    /\ transaction \in [Token -> IoStatus]

\* The request's blocks are the device's, and their offset does not wrap.
Inside(req) ==
    /\ Offset(req.lba) = req.lba * BlockSize
    /\ Offset(req.lba) + req.size <= DeviceSize

\* Whatever a caller asks for, the file is placed and read only inside the
\* device, and the byte offset does not wrap.
ReadsStayInside ==
    \A c \in Calls : c.pc \in {"seek", "read"} => Inside(c.req)

\* The whole of the blocks asked for.
Delivered(c) == c.from = c.req.lba * BlockSize /\ c.got = c.req.size

\* A read that succeeds delivers the blocks asked for, unless a call at a
\* higher level moved the shared file position between its SetPosition and
\* its Read.
UndisturbedReadDelivers ==
    \A c \in Calls : c.req.op = "read" /\ c.status = "SUCCESS" =>
        Delivered(c) \/ c.disturbed

\* The comment in LoopReadBlocks: a short read means that the backing file
\* shrank.  So it does, for a read nobody disturbed.
ShortReadMeansShrunk ==
    \A c \in Calls : c.status = "DEVICE_ERROR" /\ c.from # -1 =>
        fileSize < DeviceSize \/ c.disturbed

\* What a caller learns from its token, although tokens are used again and
\* calls nest.  The notification finds the status of the request it was
\* waiting for, not one that an earlier use left there; the event is signaled
\* exactly for the requests that succeed; and when the service returns, the
\* token holds the status returned, unless the notification has submitted it
\* again in the meantime.
TokenTells ==
    \A c \in Calls :
        /\ c.told # "NONE" => c.told = c.status
        /\ c.pc = "return" /\ c.req.token \in Event =>
              (c.told # "NONE" <=> c.status = "SUCCESS")
        /\ c.pc = "return" /\ c.req.token # NoToken /\ ~ c.reused =>
              transaction[c.req.token] = c.status

-----------------------------------------------------------------------------
(* The inductive invariant behind the properties above *)

\* What is so of a call at each of its points, whatever the others do, with
\* the file at pos and of that size and the tokens holding trans.
CallSound(c, pos, size, trans) ==
    /\ c.pc \in {"check", "seek", "read"} <=> c.status = "NONE"
    /\ c.pc \in {"seek", "read"} => Inside(c.req)
    /\ c.pc = "read" /\ ~ c.disturbed => pos = Offset(c.req.lba)
    /\ c.req.op = "read" /\ c.status = "SUCCESS" =>
          Delivered(c) \/ c.disturbed
    /\ c.status = "DEVICE_ERROR" /\ c.from # -1 =>
          size < DeviceSize \/ c.disturbed
    /\ c.pc = "signal" => c.status = "SUCCESS" /\ c.req.token \in Event
    /\ c.told # "NONE" => c.pc = "return" /\ c.told = c.status
    /\ c.reused => c.pc = "return"
    /\ c.pc = "return" /\ c.req.token \in Event =>
          (c.told # "NONE" <=> c.status = "SUCCESS")
    /\ c.pc \in {"signal", "return"} /\ c.req.token # NoToken /\ ~ c.reused =>
          trans[c.req.token] = c.status

\* Of two calls between SetPosition and Read, the inner one's SetPosition
\* came second and has disturbed the outer one.
OuterDisturbed ==
    \A i, j \in 1..Len(stack) :
        i < j /\ stack[i].pc = "read" /\ stack[j].pc = "read" =>
            stack[i].disturbed

\* Of two calls with one token, the outer one's has been submitted again.
OuterReused ==
    \A i, j \in 1..Len(stack) :
        i < j /\ stack[j].req.token # NoToken
              /\ stack[i].req.token = stack[j].req.token => stack[i].reused

IoInv ==
    /\ IoTypeOK
    /\ \A i \in 1..Len(stack) :
          CallSound(stack[i], position, fileSize, transaction)
    /\ OuterDisturbed
    /\ OuterReused
=============================================================================
