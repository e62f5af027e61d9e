------------------------------ MODULE QmpDrive ------------------------------
(***************************************************************************)
(* tools/qmp_drive.py, which drives a QEMU under test through its monitor: *)
(* the class Qmp with its transparent reconnect and retry, and the script  *)
(* loop of main.                                                           *)
(*                                                                         *)
(* External, as the client and its comments use them: QEMU greets a new    *)
(* connection, wants qmp_capabilities once before anything else, answers   *)
(* in order, lets events in between, and writes a screendump after its     *)
(* answer; the connection may drop at any time, and what was on its way is *)
(* lost with it.                                                           *)
(***************************************************************************)
EXTENDS SequencesExt, Integers, FiniteSets

CONSTANTS
    Script,       \* the commands of --script, sleeps left out
    Refusable,    \* numbers of the items QEMU may answer with an error
    MaxShots,     \* --max-shots
    MaxAttempts,  \* connect_attempts
    MaxDrops,     \* bound: connections lost while QEMU lives
    MaxEvents     \* bound: events QEMU sends

ASSUME QmpAssumption ==
    /\ Script \in Seq([op : {"command",  \* vmstop, vmcont, a key with more to come
                             "key",      \* the last press of a key
                             "shot"},    \* screendump NAME
                       file : Nat])      \* that name
    /\ Refusable \subseteq 1..(Len(Script) + MaxShots)
    /\ {MaxShots, MaxAttempts} \subseteq Nat \ {0}
    /\ {MaxDrops, MaxEvents} \subseteq Nat

VARIABLES
    client,     \* the locals of main and of the Qmp object
    up,         \* the connection is there
    requests,   \* sent and not yet seen by QEMU
    replies,    \* written by QEMU and not yet read by the client
    qemu,       \* what QEMU has got to
    files       \* the screendumps, by name

qmpVars == <<client, up, requests, replies, qemu, files>>

-----------------------------------------------------------------------------
(* After the script come screenshots at an interval, each under a name of  *)
(* its own, until there are enough.                                        *)

Items == 1..(Len(Script) + MaxShots)

Item == [i \in Items |-> IF i <= Len(Script) THEN Script[i]
                         ELSE [op |-> "interval", file |-> -i]]

\* The names of the screendumps.
Shot == {Item[i].file : i \in Items}

\* The number of qmp_capabilities among the commands; the others have that of
\* their item.
Capabilities == 0

Message(kind, command) == [kind |-> kind, command |-> command]

Reply == [kind : {"greeting", "return", "error", "event", "partial"},
          command : Items \union {Capabilities, -1}]

At(pc) == client.pc = pc

\* Which command call is about to send, or has sent.
Command == IF client.again THEN Capabilities ELSE client.item

-----------------------------------------------------------------------------
QmpInit ==
    /\ client = [pc       |-> "connect",
                 item     |-> 0,       \* 0 inside __init__
                 retry    |-> FALSE,   \* _retry of the call in progress
                 again    |-> FALSE,   \* and it is the one of _reconnect
                 attempts |-> 0,
                 shots    |-> 0,
                 sent     |-> <<>>,    \* history: sent on this connection
                 heard    |-> Message("none", -1),  \* history: last return
                 cause    |-> "none"]  \* of the exception that ends the run
    /\ up = FALSE
    /\ requests = <<>>
    /\ replies = <<>>
    /\ qemu = [alive   |-> TRUE,
               mode    |-> "negotiation",
               seen    |-> <<>>,       \* history: commands answered
               refused |-> {},         \* history: those refused in command mode
               dumps   |-> <<>>,       \* screendumps still to be written
               drops   |-> 0,          \* history: connections lost,
               early   |-> FALSE,      \* history: one inside __init__
               events  |-> 0]
    /\ files = [f \in Shot |-> "absent"]

NextItem(shots) ==
    client' = [client EXCEPT !.pc = "send", !.item = @ + 1, !.retry = TRUE,
                             !.again = FALSE, !.shots = shots]

Dies(cause) == client' = [client EXCEPT !.pc = "failed", !.cause = cause]

\* _open succeeds: QEMU greets the new connection and negotiates afresh.
Opened(unread) ==
    /\ qemu.alive
    /\ up' = TRUE
    /\ requests' = <<>>
    /\ replies' = Append(unread, Message("greeting", -1))
    /\ qemu' = [qemu EXCEPT !.mode = "negotiation"]
    /\ UNCHANGED files

Connect ==
    /\ At("connect")
    /\ Opened(<<>>)
    /\ client' = [client EXCEPT !.pc = "send", !.retry = TRUE, !.sent = <<>>]

\* __init__ closes the socket and tries again, or has tried enough.
TryAgain ==
    IF client.attempts + 1 < MaxAttempts
    THEN client' = [client EXCEPT !.pc = "connect", !.attempts = @ + 1,
                                  !.again = FALSE]
    ELSE Dies("cannot connect")

ConnectFails ==
    /\ At("connect")
    /\ TryAgain
    /\ UNCHANGED <<up, requests, replies, qemu, files>>

\* Variant: the call of the retry may retry in its turn.
LostRetriesOn == client' = [client EXCEPT !.pc = "reopen", !.again = FALSE]

\* Variant: a lost connection is mended, the command not sent again.
LostSkips ==
    IF client.retry THEN client' = [client EXCEPT !.pc = "reopen", !.item = @ + 1]
    ELSE Dies("connection")

\* An OSError: call reconnects, the call of a retry passes it on.
Lost ==
    IF client.retry
    THEN client' = [client EXCEPT !.pc = "reopen", !.retry = FALSE]
    ELSE IF client.item = 0 THEN TryAgain ELSE Dies("connection")

\* sendall; on a connection that is gone it may still go through.
Send ==
    /\ At("send")
    /\ client' = [client EXCEPT !.pc = "receive", !.sent = Append(@, Command)]
    /\ requests' = IF up THEN Append(requests, Command) ELSE requests
    /\ UNCHANGED <<up, replies, qemu, files>>

SendFails ==
    /\ At("send") /\ ~ up
    /\ Lost
    /\ UNCHANGED <<up, requests, replies, qemu, files>>

\* Variant: what the old reader has buffered is read on.
ReopenOldReader ==
    /\ At("reopen")
    /\ Opened(replies)
    /\ client' = [client EXCEPT !.pc = "send", !.again = TRUE, !.sent = <<>>]

\* Variant: the new connection is used as the old one was.
ReopenBare ==
    /\ At("reopen")
    /\ Opened(<<>>)
    /\ client' = [client EXCEPT !.pc = "send", !.sent = <<>>]

\* _reconnect: new socket, new reader, and qmp_capabilities once more.
Reopen ==
    /\ At("reopen")
    /\ Opened(<<>>)
    /\ client' = [client EXCEPT !.pc = "send", !.again = TRUE, !.sent = <<>>]

ReopenFails ==
    /\ At("reopen")
    /\ Lost
    /\ UNCHANGED <<up, requests, replies, qemu, files>>

\* Where main goes on when the call of an item has returned.
After(item) ==
    IF item = 0 \/ Item[item].op = "command" THEN "next"
    ELSE IF Item[item].op = "key" THEN "check"
    ELSE "poll"

\* call has its return: on to the command a retry is about, or the caller.
Returned(m) ==
    client' = [client EXCEPT !.heard = m, !.again = FALSE,
                             !.pc = IF client.again THEN "send"
                                    ELSE After(client.item)]

\* readline and what call makes of the line.  The greeting has neither
\* "event" nor "error", so it passes for a return.
Receive ==
    /\ At("receive") /\ replies # <<>>
    /\ replies' = Tail(replies)
    /\ LET m == Head(replies)
       IN  \/ m.kind = "event" /\ UNCHANGED client
           \/ m.kind = "error" /\ Dies("error")
           \/ m.kind = "partial" /\ Dies("partial")
           \/ m.kind \in {"greeting", "return"} /\ Returned(m)
    /\ UNCHANGED <<up, requests, qemu, files>>

\* readline returns nothing, or fails.
ReceiveFails ==
    /\ At("receive") /\ replies = <<>> /\ ~ up
    /\ Lost
    /\ UNCHANGED <<up, requests, replies, qemu, files>>

\* shot looks for the file, and converts it as soon as it is there.
Convert ==
    /\ At("poll")
    /\ files[Item[client.item].file] # "absent"
    /\ IF files[Item[client.item].file] = "partial" THEN Dies("image")
       ELSE client' = [client EXCEPT
                          !.shots = @ + 1,
                          !.pc = IF Item[client.item].op = "shot" THEN "next"
                                                                ELSE "check"]
    /\ UNCHANGED <<up, requests, replies, qemu, files>>

\* A hundred polls, and it is not.
PollFails ==
    /\ At("poll")
    /\ files[Item[client.item].file] = "absent"
    /\ Dies("no file")
    /\ UNCHANGED <<up, requests, replies, qemu, files>>

\* The loop of main takes the next item.
Continue ==
    /\ \/ At("next")
       \/ At("check") /\ client.shots < MaxShots
    /\ NextItem(client.shots)
    /\ UNCHANGED <<up, requests, replies, qemu, files>>

\* Enough shots, or --qemu-pid names a process that is gone.
Finish ==
    /\ At("check")
    /\ client.shots >= MaxShots \/ ~ qemu.alive
    /\ client' = [client EXCEPT !.pc = "done"]
    /\ UNCHANGED <<up, requests, replies, qemu, files>>

ClientStep ==
    \/ Connect \/ ConnectFails
    \/ Send \/ SendFails
    \/ Receive \/ ReceiveFails
    \/ Reopen \/ ReopenFails
    \/ Convert \/ PollFails
    \/ Continue \/ Finish

-----------------------------------------------------------------------------
(* QEMU and the connection (external) *)

\* The next command is answered.  A screendump is queued by then.
Obey ==
    /\ up /\ requests # <<>>
    /\ requests' = Tail(requests)
    /\ \E refuse \in BOOLEAN :
          LET c == Head(requests)
              ok == ~ refuse
          IN  /\ IF qemu.mode = "negotiation" THEN ok <=> c = Capabilities
                 ELSE /\ c = Capabilities => refuse
                      /\ c # Capabilities /\ c \notin Refusable => ok
              /\ replies' = Append(replies,
                                  Message(IF ok THEN "return" ELSE "error", c))
              /\ qemu' = [qemu EXCEPT
                    !.mode = IF ok THEN "command" ELSE @,
                    !.seen = IF c = Capabilities THEN @ ELSE Append(@, c),
                    !.refused = IF ok \/ qemu.mode = "negotiation" THEN @
                                ELSE @ \union {c},
                    !.dumps = IF ok /\ c # Capabilities
                                 /\ Item[c].op \in {"shot", "interval"}
                              THEN Append(@, Item[c].file) ELSE @]
    /\ UNCHANGED <<client, up, files>>

Event ==
    /\ up /\ qemu.mode = "command"
    /\ qemu.events < MaxEvents
    /\ replies' = Append(replies, Message("event", -1))
    /\ qemu' = [qemu EXCEPT !.events = @ + 1]
    /\ UNCHANGED <<client, up, requests, files>>

\* The file is there before it is whole.
WriteDump ==
    /\ qemu.alive /\ qemu.dumps # <<>>
    /\ LET f == Head(qemu.dumps)
       IN  \/ /\ files[f] # "partial"
              /\ files' = [files EXCEPT ![f] = "partial"]
              /\ UNCHANGED qemu
           \/ /\ files[f] = "partial"
              /\ files' = [files EXCEPT ![f] = "whole"]
              /\ qemu' = [qemu EXCEPT !.dumps = Tail(@)]
    /\ UNCHANGED <<client, up, requests, replies>>

\* What QEMU has not seen is lost, and so are any number of the last replies;
\* one of them may be cut in the middle.
Disconnect ==
    /\ up' = FALSE
    /\ requests' = <<>>
    /\ \E n \in 0..Len(replies) :
          replies' \in {SubSeq(replies, 1, n)} \union
              (IF n < Len(replies)
               THEN {Append(SubSeq(replies, 1, n), Message("partial", -1))}
               ELSE {})

Drop ==
    /\ up /\ qemu.drops < MaxDrops
    /\ Disconnect
    /\ qemu' = [qemu EXCEPT !.drops = @ + 1, !.early = @ \/ client.item = 0]
    /\ UNCHANGED <<client, files>>

QemuExits ==
    /\ qemu.alive
    /\ Disconnect
    /\ qemu' = [qemu EXCEPT !.alive = FALSE]
    /\ UNCHANGED <<client, files>>

QmpNext ==
    \/ ClientStep
    \/ Obey \/ Event \/ WriteDump
    \/ Drop \/ QemuExits

\* The client is a process that is run; QEMU answers while it is connected.
QmpSpec ==
    /\ QmpInit /\ [][QmpNext]_qmpVars
    /\ WF_qmpVars(ClientStep) /\ WF_qmpVars(Obey)

-----------------------------------------------------------------------------
(* Properties *)

Client == [pc : {"connect", "send", "receive", "reopen", "poll", "next",
                 "check", "done", "failed"},
           item : Items \union {0}, retry : BOOLEAN, again : BOOLEAN,
           attempts : 0..(MaxAttempts - 1), shots : Nat,
           sent : Seq(Items \union {Capabilities}),
           heard : Reply \union {Message("none", -1)},
           cause : {"none", "error", "partial", "connection",
                    "cannot connect", "image", "no file"}]

Qemu == [alive : BOOLEAN, mode : {"negotiation", "command"}, seen : Seq(Items),
         refused : SUBSET (Refusable \union {Capabilities}),
         dumps : Seq(Shot), drops : Nat, early : BOOLEAN, events : Nat]

QmpTypeOK ==
    /\ client \in Client
    /\ up \in BOOLEAN
    /\ requests \in Seq(Items \union {Capabilities})
    /\ replies \in Seq(Reply)
    /\ qemu \in Qemu
    /\ files \in [Shot -> {"absent", "partial", "whole"}]

\* Type invariant; and however often connections drop, QEMU is given the
\* commands in the order of the script, none more than twice, and twice only
\* as often as a connection was lost.
ScriptOrder ==
    /\ QmpTypeOK
    /\ \A i, j \in DOMAIN qemu.seen : i < j => qemu.seen[i] <= qemu.seen[j]
    /\ \A i \in 1..(Len(qemu.seen) - 2) : qemu.seen[i] < qemu.seen[i + 2]
    /\ Len(qemu.seen) <=
           Cardinality(ToSet(qemu.seen)) + qemu.drops

\* The greeting is taken for the first return, so the return a call gets is
\* not its own but that of the command before it on the connection, exactly,
\* whatever is lost and however often the client reconnects.
LagIsOne ==
    [][client'.heard # client.heard =>
         LET n == Len(client.sent)
         IN  client'.heard.command = IF n = 1 THEN -1 ELSE client.sent[n - 1]
      ]_qmpVars

\* A call that returns has not made sure that QEMU saw its command: when the
\* connection drops, it can be lost.  One command for each drop, not more.
Unnoticed ==
    {c \in 1..(client.item - 1) :
        ~ \E i \in DOMAIN qemu.seen : qemu.seen[i] = c} \ ToSet(requests)

LossBound ==
    Cardinality(Unnoticed) <= qemu.drops + (IF qemu.alive THEN 0 ELSE 1)

\* A run fails by an error reply only if QEMU refused a command of the script
\* or the connection dropped inside __init__, whose capabilities are then
\* sent twice; and by the connection only if that was lost and the retry has
\* been made.
FailsForCause ==
    /\ client.cause = "error" =>
          qemu.refused \ {Capabilities} # {} \/ qemu.early
    /\ client.cause = "connection" =>
          (qemu.drops > 0 \/ ~ qemu.alive) /\ ~ client.retry

\* "Exit code 0 on clean completion, 1 on unrecoverable QMP error"
\* (qmp_drive.py:10): when a run exits with 0, QEMU has refused no command.
\* The code does not keep this: no one reads the reply to the last command.
CleanExit ==
    [][At("done")' /\ ~ At("done") => qemu.refused \ {Capabilities} = {}]_qmpVars

\* "Every command now retries once on a fresh TCP connection before the run
\* is failed" (qmp_drive.py:18-20): a run the connection ends has made its
\* retry.  The code does not keep this: a reply cut in the middle is a
\* ValueError to json.loads, which call does not catch.
RetriedFirst == client.cause \in {"partial", "connection"} => ~ client.retry

\* How far CleanExit fails: of the commands refused in a run that exits with
\* 0, the errors no call has read are that of the last command and two for
\* each lost connection, at most.
UnheardFew ==
    At("done") => Cardinality(qemu.refused \ {Capabilities}) <= 1 + 2 * qemu.drops

\* Every run comes to an end: no call waits for a reply that cannot come, and
\* no reconnect goes on for ever.
DriverEnds == <>(At("done") \/ At("failed"))

-----------------------------------------------------------------------------
(* The inductive invariant behind ScriptOrder *)

\* The command of this call is to be sent again, and has not been yet.
Resends == /\ client.item > 0 /\ ~ client.retry
           /\ client.again \/ client.pc \in {"reopen", "send"}

\* What the locals of the client say of the connection.
ClientHolds ==
    /\ ~ up => requests = <<>>
    /\ At("connect") => client.item = 0 /\ ~ client.again
    /\ At("reopen") => ~ up /\ ~ client.retry
    /\ At("next") => client.item <= Len(Script)
    /\ client.again => ~ client.retry
    /\ client.again \/ client.item = 0 =>
          \A r \in DOMAIN requests : requests[r] = Capabilities
    /\ client.shots + Len(Script) + (IF client.pc \in {"next", "check"} THEN 0 ELSE 1)
          >= client.item

\* What is under way comes behind what QEMU has seen, in order.
RequestsOrdered ==
    /\ \A i \in DOMAIN qemu.seen : qemu.seen[i] <= client.item
    /\ \A r \in DOMAIN requests : requests[r] <= client.item
    /\ \A r, q \in DOMAIN requests :
          r < q => requests[r] = Capabilities \/ requests[r] < requests[q]
    /\ \A i \in DOMAIN qemu.seen, r \in DOMAIN requests :
          \/ requests[r] = Capabilities
          \/ /\ qemu.seen[i] <= requests[r]
             /\ i < Len(qemu.seen) => qemu.seen[i] < requests[r]

\* A command about to be sent is not under way; one that may still be sent
\* again QEMU has not seen twice, nor once if it has not been sent.
ItemFresh ==
    /\ At("send") /\ ~ client.again /\ client.item > 0 =>
          \A r \in DOMAIN requests : requests[r] < client.item
    /\ client.retry /\ client.item > 0
          /\ (At("send") \/ \E r \in DOMAIN requests : requests[r] = client.item)
          => \A i \in DOMAIN qemu.seen : qemu.seen[i] < client.item
    /\ (client.retry /\ client.item > 0) \/ Resends =>
          \A i \in 1..(Len(qemu.seen) - 1) : qemu.seen[i] < client.item

\* A command seen twice is paid for by a lost connection, in advance where
\* one may be seen again.
Doubled == Len(qemu.seen) - Cardinality(ToSet(qemu.seen))

Pending ==
    \/ \E r \in DOMAIN requests : requests[r] \in ToSet(qemu.seen)
    \/ Resends /\ client.item \in ToSet(qemu.seen)

DoublesPaid ==
    /\ Doubled <= qemu.drops
    /\ up /\ Pending => Doubled < qemu.drops
    /\ ~ up /\ qemu.alive /\ client.pc \notin {"connect", "done", "failed"} =>
          Doubled < qemu.drops

QmpInv == ScriptOrder /\ ClientHolds /\ RequestsOrdered /\ ItemFresh /\ DoublesPaid
=============================================================================
