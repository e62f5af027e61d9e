--------------------------- MODULE QmpDriveProofs ---------------------------
(***************************************************************************)
(* Proofs about qmp_drive.py, for any script and any number of lost        *)
(* connections, events, attempts and shots.  QmpInv of QmpDrive is         *)
(* inductive; LossInv is so with it, which says how the replies still to   *)
(* be read stand to the commands sent, and gives LagIsOne and LossBound.   *)
(* CauseInv (how a connection begins, and what bad news stands for) adds    *)
(* FailsForCause, RefusalsPaid (whose errors go unheard) UnheardFew.       *)
(***************************************************************************)
EXTENDS QmpDrive, FiniteSetTheorems, TLAPS

Cause == {"error", "partial", "connection", "cannot connect", "image", "no file"}

LEMMA Script0 == Len(Script) \in Nat /\ MaxShots \in Nat \ {0} /\ MaxAttempts \in Nat \ {0}
                 /\ Items \subseteq Nat \ {0}
BY QmpAssumption DEF Items

\* The numbers of the commands.
LEMMA Numbered ==
    ASSUME NEW c \in Items \union {Capabilities}
    PROVE  c \in Nat
<1>1. CASE c \in Items
  BY <1>1, Script0
<1>2. CASE c = Capabilities
  BY <1>2 DEF Capabilities
<1> QED
  BY <1>1, <1>2

LEMMA SeqDomain ==
    ASSUME NEW S, NEW s \in Seq(S)
    PROVE  DOMAIN s = 1..Len(s) /\ Len(s) \in Nat /\ \A i \in 1..Len(s) : s[i] \in S
OBVIOUS

\* The file of an item is the name of a screendump.
LEMMA ItemFile ==
    ASSUME NEW c \in Items
    PROVE  /\ Item[c].file \in Shot
           /\ Item[c].op # "interval" => c <= Len(Script)
<1>1. Item[c].file \in Shot
  BY DEF Shot
<1>2. ~ c <= Len(Script) => Item[c].op = "interval"
  BY DEF Item
<1> QED
  BY <1>1, <1>2

-----------------------------------------------------------------------------
(* Types *)

\* A command in its place among the items or the capabilities.
LEMMA CommandType ==
    ASSUME client \in Client
    PROVE  Command \in Items \union {Capabilities}
BY DEF Command, Client, Capabilities

LEMMA Numbers ==
    ASSUME client \in Client
    PROVE  /\ client.shots \in Nat /\ client.item \in Nat /\ Len(Script) \in Nat
           /\ client.item = 0 \/ client.item \in Items
<1>1. client.shots \in Nat /\ client.item \in Items \union {0}
  BY DEF Client
<1>2. client.item = 0 \/ client.item \in Items
  BY <1>1
<1>3. CASE client.item = 0
  BY <1>1, <1>3, Script0
<1>4. CASE client.item \in Items
  BY <1>1, <1>4, Script0
<1> QED
  BY <1>2, <1>3, <1>4

LEMMA DiesType ==
    ASSUME client \in Client, NEW cause \in Cause, Dies(cause)
    PROVE  /\ client' \in Client /\ client'.pc = "failed"
           /\ client'.item = client.item /\ client'.retry = client.retry
           /\ client'.again = client.again /\ client'.shots = client.shots
           /\ client'.sent = client.sent /\ client'.heard = client.heard
BY DEF Dies, Client, Cause

LEMMA TryAgainType ==
    ASSUME client \in Client, TryAgain
    PROVE  /\ client' \in Client /\ client'.pc \in {"connect", "failed"}
           /\ client'.item = client.item /\ client'.retry = client.retry
           /\ client'.again => client.again
           /\ client'.pc = "connect" => ~ client'.again
           /\ client'.shots = client.shots
           /\ client'.sent = client.sent /\ client'.heard = client.heard
<1>1. CASE client.attempts + 1 < MaxAttempts
  <2>1. client' = [client EXCEPT !.pc = "connect", !.attempts = client.attempts + 1,
                                 !.again = FALSE]
    BY <1>1 DEF TryAgain
  <2>2. client.attempts + 1 \in 0..(MaxAttempts - 1)
    <3>1. client.attempts \in 0..(MaxAttempts - 1)
      BY DEF Client
    <3> QED
      BY <1>1, <3>1, Script0
  <2> QED
    BY <2>1, <2>2 DEF Client
<1>2. CASE ~ client.attempts + 1 < MaxAttempts
  BY <1>2, DiesType DEF TryAgain, Cause
<1> QED
  BY <1>1, <1>2

\* A connection lost: the call reconnects, or fails.
LEMMA LostType ==
    ASSUME client \in Client, Lost
    PROVE  /\ client' \in Client
           /\ client'.item = client.item /\ client'.shots = client.shots
           /\ client'.sent = client.sent /\ client'.heard = client.heard
           /\ client'.pc = "connect" => ~ client'.again
           /\ \/ /\ client.retry /\ client'.pc = "reopen" /\ ~ client'.retry
                 /\ client'.again = client.again
              \/ /\ ~ client.retry /\ ~ client'.retry /\ (client'.again => client.again)
                 /\ \/ client'.pc \in {"connect", "failed"} /\ client.item = 0
                    \/ client'.pc = "failed"
<1>1. CASE client.retry
  BY <1>1 DEF Lost, Client
<1>2. CASE ~ client.retry /\ client.item = 0
  BY <1>2, TryAgainType DEF Lost
<1>3. CASE ~ client.retry /\ client.item # 0
  BY <1>3, DiesType DEF Lost, Cause
<1> QED
  BY <1>1, <1>2, <1>3

\* Where main goes on.
LEMMA AfterType ==
    ASSUME NEW item \in Items \union {0}
    PROVE  /\ After(item) \in {"next", "check", "poll"}
           /\ After(item) # "poll" => item <= Len(Script)
<1>1. CASE item = 0
  BY <1>1, Script0 DEF After
<1>2. CASE item # 0
  BY <1>2, ItemFile DEF After
<1> QED
  BY <1>1, <1>2

LEMMA ReturnedType ==
    ASSUME client \in Client, NEW m \in Reply, Returned(m)
    PROVE  /\ client' \in Client /\ client'.heard = m
           /\ client'.item = client.item /\ client'.shots = client.shots
           /\ client'.sent = client.sent /\ client'.retry = client.retry
           /\ ~ client'.again
           /\ client.again => client'.pc = "send"
           /\ ~ client.again => /\ client'.pc \in {"next", "check", "poll"}
                                /\ client'.pc # "poll" => client.item <= Len(Script)
<1> DEFINE pc == IF client.again THEN "send" ELSE After(client.item)
<1>1. /\ pc \in {"send", "next", "check", "poll"}
      /\ client.again => pc = "send"
      /\ ~ client.again => /\ pc \in {"next", "check", "poll"}
                           /\ pc # "poll" => client.item <= Len(Script)
  <2>1. client.item \in Items \union {0}
    BY DEF Client
  <2> QED
    BY <2>1, AfterType
<1>2. client' = [client EXCEPT !.heard = m, !.again = FALSE, !.pc = pc]
  BY DEF Returned
<1> HIDE DEF pc
<1>3. /\ client' \in Client /\ client'.heard = m /\ client'.pc = pc
      /\ client'.item = client.item /\ client'.shots = client.shots
      /\ client'.sent = client.sent /\ client'.retry = client.retry
      /\ ~ client'.again
  BY <1>1, <1>2 DEF Client
<1> QED
  BY <1>1, <1>3

-----------------------------------------------------------------------------
(* The client *)

\* The parts of the invariant a step of the client that only reads keeps.
LEMMA Moved ==
    ASSUME QmpInv, UNCHANGED <<up, requests, qemu, files>>, replies' \in Seq(Reply),
           client' \in Client, client'.item = client.item, ClientHolds', ItemFresh',
           up /\ Pending' => Pending,
           client.pc \in {"connect", "done", "failed"}
              => client'.pc \in {"connect", "done", "failed"}
    PROVE  QmpInv'
<1>1. ScriptOrder'
  BY DEF QmpInv, ScriptOrder, QmpTypeOK, ToSet
<1>2. RequestsOrdered'
  BY DEF QmpInv, RequestsOrdered
<1>3. DoublesPaid'
  <2>1. Doubled' = Doubled
    BY DEF Doubled, ToSet
  <2> QED
    BY <2>1 DEF QmpInv, DoublesPaid
<1> QED
  BY <1>1, <1>2, <1>3 DEF QmpInv

\* The run fails.
LEMMA Died ==
    ASSUME QmpInv, UNCHANGED <<up, requests, qemu, files>>, replies' \in Seq(Reply),
           NEW cause \in Cause, Dies(cause)
    PROVE  QmpInv'
<1>1. /\ client \in Client /\ client' \in Client /\ client'.pc = "failed"
      /\ client'.item = client.item /\ client'.retry = client.retry
      /\ client'.again = client.again /\ client'.shots = client.shots
  BY DiesType DEF QmpInv, ScriptOrder, QmpTypeOK
<1>2. client.shots \in Nat /\ client.item \in Nat /\ Len(Script) \in Nat
  BY <1>1, Numbers
<1>3. Resends' => Resends
  BY <1>1 DEF Resends
<1>4. Pending' => Pending
  BY <1>1, <1>3 DEF Pending, ToSet
<1>5. ClientHolds'
  BY <1>1, <1>2 DEF QmpInv, ClientHolds, At
<1>6. ItemFresh'
  BY <1>1, <1>3 DEF QmpInv, ItemFresh, At
<1> QED
  BY <1>1, <1>4, <1>5, <1>6, Moved

\* The call loses its connection.
LEMMA StepLost ==
    ASSUME QmpInv, ~ up, Lost, UNCHANGED <<up, requests, qemu, files, replies>>,
           client.pc \in {"send", "receive", "reopen"}
    PROVE  QmpInv'
<1>1. /\ client \in Client /\ client' \in Client /\ requests = <<>>
      /\ client'.item = client.item /\ client'.shots = client.shots
      /\ ~ client'.retry /\ (client'.again => client.again)
      /\ client'.pc \in {"reopen", "connect", "failed"}
      /\ client'.pc = "connect" => client.item = 0 /\ ~ client'.again
      /\ client'.pc = "reopen" => client.retry
      /\ replies' \in Seq(Reply)
  <2>1. client \in Client /\ requests = <<>> /\ replies' \in Seq(Reply)
    BY DEF QmpInv, ScriptOrder, QmpTypeOK, ClientHolds
  <2> QED
    BY <2>1, LostType
<1>2. client.shots \in Nat /\ client.item \in Nat /\ Len(Script) \in Nat
  BY <1>1, Numbers
<1>3. ClientHolds'
  BY <1>1, <1>2 DEF QmpInv, ClientHolds, At
<1>4. Resends' => Resends \/ (client.retry /\ client.item > 0)
  BY <1>1 DEF Resends
<1>5. ItemFresh'
  BY <1>1, <1>4 DEF QmpInv, ItemFresh, At
<1> QED
  BY <1>1, <1>3, <1>5, Moved

LEMMA StepConnectFails ==
    ASSUME QmpInv, ConnectFails
    PROVE  QmpInv'
<1>1. /\ client \in Client /\ client' \in Client
      /\ client.pc = "connect" /\ client.item = 0
      /\ client'.item = client.item /\ client'.shots = client.shots
      /\ client'.retry = client.retry /\ (client'.again => client.again)
      /\ client'.pc \in {"connect", "failed"} /\ replies' \in Seq(Reply)
      /\ client'.pc = "connect" => ~ client'.again
      /\ UNCHANGED <<up, requests, qemu, files>>
  BY TryAgainType DEF ConnectFails, QmpInv, ScriptOrder, QmpTypeOK, ClientHolds, At
<1>2. ClientHolds'
  BY <1>1 DEF QmpInv, ClientHolds, At
<1>3. ItemFresh'
  BY <1>1 DEF QmpInv, ItemFresh, Resends, At
<1>4. Pending' => Pending
  BY <1>1 DEF Pending, Resends, ToSet
<1> QED
  BY <1>1, <1>2, <1>3, <1>4, Moved

\* What call makes of a line.
LEMMA StepReceive ==
    ASSUME QmpInv, Receive
    PROVE  QmpInv'
<1>1. /\ client \in Client /\ client.pc = "receive" /\ replies \in Seq(Reply)
      /\ replies # <<>> /\ replies' = Tail(replies)
      /\ UNCHANGED <<up, requests, qemu, files>>
  BY DEF Receive, QmpInv, ScriptOrder, QmpTypeOK, At
<1>2. replies' \in Seq(Reply) /\ Head(replies) \in Reply
  BY <1>1
<1>3. CASE UNCHANGED client
  BY <1>1, <1>2, <1>3, Moved
     DEF QmpInv, ScriptOrder, QmpTypeOK, ClientHolds, ItemFresh, Resends, Pending, At, ToSet
<1>4. CASE Dies("error") \/ Dies("partial")
  BY <1>1, <1>2, <1>4, Died DEF Cause
<1>5. CASE Returned(Head(replies))
  <2>1. /\ client' \in Client
        /\ client'.item = client.item /\ client'.shots = client.shots
        /\ client'.retry = client.retry /\ ~ client'.again
        /\ client.again => client'.pc = "send"
        /\ ~ client.again => /\ client'.pc \in {"next", "check", "poll"}
                             /\ client'.pc # "poll" => client.item <= Len(Script)
    BY <1>1, <1>2, <1>5, ReturnedType
  <2>2. /\ client.shots \in Nat /\ client.item \in Nat /\ Len(Script) \in Nat
        /\ client.item = 0 \/ client.item \in Items
    BY <1>1, Numbers
  <2>3. ClientHolds'
    BY <1>1, <2>1, <2>2 DEF QmpInv, ClientHolds, At
  <2>4. (Resends' => Resends) /\ (client'.pc = "send" => client.again /\ ~ client'.retry)
    BY <1>1, <2>1 DEF Resends, QmpInv, ClientHolds
  <2>5. ItemFresh'
    BY <1>1, <2>1, <2>2, <2>4 DEF QmpInv, ItemFresh, ClientHolds, At, Capabilities
  <2>6. Pending' => Pending
    BY <1>1, <2>1, <2>4 DEF Pending, ToSet
  <2> QED
    BY <1>1, <1>2, <2>1, <2>3, <2>5, <2>6, Moved
<1> QED
  BY <1>3, <1>4, <1>5 DEF Receive

\* A new connection, on which nothing is under way.
LEMMA OpenedFacts ==
    ASSUME QmpInv, Opened(<<>>)
    PROVE  /\ up' /\ up' \in BOOLEAN /\ requests' = <<>> /\ qemu.alive
           /\ requests' \in Seq(Items \union {Capabilities}) /\ replies' \in Seq(Reply)
           /\ qemu' \in Qemu /\ qemu'.seen = qemu.seen /\ qemu'.drops = qemu.drops
           /\ qemu'.alive = qemu.alive /\ files' = files
<1>1. qemu \in Qemu
  BY DEF QmpInv, ScriptOrder, QmpTypeOK
<1>2. Message("greeting", -1) \in Reply
  BY DEF Message, Reply
<1>3. Append(<<>>, Message("greeting", -1)) \in Seq(Reply)
  BY <1>2
<1>4. qemu' = [qemu EXCEPT !.mode = "negotiation"]
  BY DEF Opened
<1>5. /\ qemu' \in Qemu /\ qemu'.seen = qemu.seen /\ qemu'.drops = qemu.drops
      /\ qemu'.alive = qemu.alive
  BY <1>1, <1>4 DEF Qemu
<1>6. up' = TRUE /\ requests' = <<>> /\ qemu.alive /\ files' = files /\ replies' \in Seq(Reply)
  BY <1>3 DEF Opened
<1> QED
  BY <1>5, <1>6

\* A connection is opened where none is; the parts about what QEMU has seen
\* are not touched.
LEMMA Reconnected ==
    ASSUME QmpInv, Opened(<<>>), client' \in Client, client'.item = client.item,
           ClientHolds', ItemFresh', ~ Resends' \/ Doubled < qemu.drops
    PROVE  QmpInv'
<1>1. ScriptOrder'
  BY OpenedFacts DEF QmpInv, ScriptOrder, QmpTypeOK, ToSet
<1>2. RequestsOrdered'
  BY OpenedFacts DEF QmpInv, RequestsOrdered
<1>3. DoublesPaid'
  <2>1. Doubled' = Doubled
    BY OpenedFacts DEF Doubled, ToSet
  <2>2. Pending' => Resends'
    BY OpenedFacts DEF Pending
  <2> QED
    BY <2>1, <2>2, OpenedFacts DEF QmpInv, DoublesPaid
<1> QED
  BY <1>1, <1>2, <1>3 DEF QmpInv

LEMMA StepConnect ==
    ASSUME QmpInv, Connect
    PROVE  QmpInv'
<1>1. /\ client \in Client /\ client.pc = "connect" /\ client.item = 0
      /\ Opened(<<>>)
      /\ client' = [client EXCEPT !.pc = "send", !.retry = TRUE, !.sent = <<>>]
      /\ ~ client.again
  BY DEF Connect, At, QmpInv, ScriptOrder, QmpTypeOK, ClientHolds
<1>2. <<>> \in Seq(Items \union {Capabilities})
  OBVIOUS
<1>3. /\ client' \in Client /\ client'.pc = "send" /\ client'.retry
      /\ client'.item = client.item /\ client'.again = client.again
      /\ client'.shots = client.shots
  BY <1>1, <1>2 DEF Client
<1>5. ClientHolds'
  BY <1>1, <1>3, Numbers, OpenedFacts DEF QmpInv, ClientHolds, At
<1>6. ItemFresh' /\ ~ Resends'
  BY <1>1, <1>3, Numbers DEF ItemFresh, Resends, At
<1> QED
  BY <1>1, <1>3, <1>5, <1>6, Reconnected

LEMMA StepReopen ==
    ASSUME QmpInv, Reopen
    PROVE  QmpInv'
<1>1. /\ client \in Client /\ client.pc = "reopen" /\ ~ client.retry /\ ~ up
      /\ Opened(<<>>)
      /\ client' = [client EXCEPT !.pc = "send", !.again = TRUE, !.sent = <<>>]
  BY DEF Reopen, At, QmpInv, ScriptOrder, QmpTypeOK, ClientHolds
<1>2. <<>> \in Seq(Items \union {Capabilities})
  OBVIOUS
<1>3. /\ client' \in Client /\ client'.pc = "send" /\ ~ client'.retry
      /\ client'.item = client.item /\ client'.again
      /\ client'.shots = client.shots
  BY <1>1, <1>2 DEF Client
<1>5. ClientHolds'
  BY <1>1, <1>3, Numbers, OpenedFacts DEF QmpInv, ClientHolds, At
<1>6. ItemFresh'
  BY <1>1, <1>3, OpenedFacts DEF QmpInv, ItemFresh, Resends, At
<1>7. Doubled < qemu.drops
  BY <1>1, OpenedFacts DEF QmpInv, DoublesPaid
<1> QED
  BY <1>1, <1>3, <1>5, <1>6, <1>7, Reconnected

LEMMA StepItem ==
    ASSUME QmpInv, Convert \/ PollFails \/ Finish
    PROVE  QmpInv'
<1>1. /\ client \in Client /\ replies' \in Seq(Reply) /\ client.pc \in {"poll", "check"}
      /\ UNCHANGED <<up, requests, replies, qemu, files>>
  BY DEF Convert, PollFails, Finish, At, QmpInv, ScriptOrder, QmpTypeOK
<1>2. ASSUME NEW pc \in {"next", "check", "done"}, NEW shots \in Nat,
             client' = [client EXCEPT !.pc = pc, !.shots = shots],
             pc # "done" => client.pc = "poll" /\ shots = client.shots + 1,
             pc = "done" => shots = client.shots,
             pc = "next" => client.item <= Len(Script)
      PROVE  QmpInv'
  <2>1. /\ client' \in Client /\ client'.pc = pc /\ client'.shots = shots
        /\ client'.item = client.item /\ client'.again = client.again
        /\ client'.retry = client.retry
    BY <1>1, <1>2 DEF Client
  <2>2. client.shots \in Nat /\ client.item \in Nat /\ Len(Script) \in Nat
    BY <1>1, Numbers
  <2>3. ClientHolds'
    BY <1>1, <1>2, <2>1, <2>2 DEF QmpInv, ClientHolds, At
  <2>4. Resends' => Resends
    BY <1>1, <1>2, <2>1 DEF Resends
  <2>5. ItemFresh'
    BY <1>1, <1>2, <2>1, <2>4 DEF QmpInv, ItemFresh, At
  <2>6. Pending' => Pending
    BY <1>1, <2>1, <2>4 DEF Pending, ToSet
  <2> QED
    BY <1>1, <2>1, <2>3, <2>5, <2>6, Moved
<1>3. CASE PollFails
  BY <1>1, <1>3, Died DEF PollFails, Cause
<1>4. CASE Finish
  <2>1. client' = [client EXCEPT !.pc = "done", !.shots = client.shots]
    BY <1>1, <1>4 DEF Finish, Client
  <2> QED
    BY <1>1, <1>2, <2>1, Numbers
<1>5. CASE Convert
  <2>1. CASE Dies("image")
    BY <1>1, <2>1, Died DEF Cause
  <2>2. CASE client' = [client EXCEPT
                          !.shots = @ + 1,
                          !.pc = IF Item[client.item].op = "shot" THEN "next"
                                                                ELSE "check"]
    <3> DEFINE pc == IF Item[client.item].op = "shot" THEN "next" ELSE "check"
    <3>1. pc \in {"next", "check", "done"} /\ pc # "done"
          /\ (pc = "next" => Item[client.item].op = "shot")
      OBVIOUS
    <3>2. client' = [client EXCEPT !.pc = pc, !.shots = client.shots + 1]
      BY <1>1, <2>2 DEF Client
    <3> HIDE DEF pc
    <3>3. /\ client.shots \in Nat /\ Len(Script) \in Nat
          /\ client.item = 0 \/ client.item \in Items
      BY <1>1, Numbers
    <3>4. pc = "next" => client.item <= Len(Script)
      BY <3>1, <3>3, ItemFile
    <3>5. client.pc = "poll" /\ client.shots + 1 \in Nat
      BY <1>5, <3>3 DEF Convert, At
    <3> QED
      BY <1>2, <3>1, <3>2, <3>4, <3>5
  <2> QED
    BY <1>5, <2>1, <2>2 DEF Convert
<1> QED
  BY <1>3, <1>4, <1>5

\* The next command of the script, or screenshot of the interval.
LEMMA StepContinue ==
    ASSUME QmpInv, Continue
    PROVE  QmpInv'
<1>1. /\ client \in Client /\ replies' \in Seq(Reply) /\ client.pc \in {"next", "check"}
      /\ UNCHANGED <<up, requests, replies, qemu, files>>
      /\ client.pc = "check" => client.shots < MaxShots
      /\ client.pc = "next" => client.item <= Len(Script)
      /\ client.shots + Len(Script) >= client.item
  BY Numbers DEF Continue, At, QmpInv, ScriptOrder, QmpTypeOK, ClientHolds
<1>2. /\ client.shots \in Nat /\ client.item \in Nat /\ Len(Script) \in Nat
      /\ client.item + 1 \in Nat /\ client.item < client.item + 1
  BY <1>1, Numbers
<1>3. client.item + 1 \in Items
  BY <1>1, <1>2, Script0 DEF Items
<1>4. client' = [client EXCEPT !.pc = "send", !.item = client.item + 1, !.retry = TRUE,
                               !.again = FALSE, !.shots = client.shots]
  BY DEF Continue, NextItem
<1>5. /\ client' \in Client /\ client'.pc = "send" /\ client'.item = client.item + 1
      /\ client'.retry /\ ~ client'.again /\ client'.shots = client.shots
  BY <1>1, <1>3, <1>4 DEF Client
<1>6. /\ \A i \in DOMAIN qemu.seen : qemu.seen[i] <= client.item /\ qemu.seen[i] \in Nat
      /\ \A r \in DOMAIN requests : requests[r] <= client.item /\ requests[r] \in Nat
  <2>1. qemu.seen \in Seq(Items) /\ requests \in Seq(Items \union {Capabilities})
    BY DEF QmpInv, ScriptOrder, QmpTypeOK, Qemu
  <2>2. /\ \A i \in DOMAIN qemu.seen : qemu.seen[i] \in Nat
        /\ \A r \in DOMAIN requests : requests[r] \in Nat
    <3>1. \A i \in DOMAIN qemu.seen : qemu.seen[i] \in Items
      BY <2>1
    <3>2. \A r \in DOMAIN requests : requests[r] \in Items \union {Capabilities}
      BY <2>1
    <3> QED
      BY <3>1, <3>2, Script0, Numbered
  <2> QED
    BY <2>2 DEF QmpInv, RequestsOrdered
<1>7. ClientHolds'
  BY <1>1, <1>2, <1>5 DEF QmpInv, ClientHolds, At
<1>8. RequestsOrdered'
  <2>1. /\ \A i \in DOMAIN qemu.seen : qemu.seen[i] <= client'.item
        /\ \A r \in DOMAIN requests : requests[r] <= client'.item
    BY <1>2, <1>5, <1>6
  <2> QED
    BY <1>1, <2>1 DEF QmpInv, RequestsOrdered
<1>9. ItemFresh'
  <2>1. /\ \A i \in DOMAIN qemu.seen : qemu.seen[i] < client'.item
        /\ \A r \in DOMAIN requests : requests[r] < client'.item
    BY <1>2, <1>5, <1>6
  <2>2. \A i \in 1..(Len(qemu.seen) - 1) : i \in DOMAIN qemu.seen
    BY DEF QmpInv, ScriptOrder, QmpTypeOK, Qemu
  <2> QED
    BY <1>1, <2>1, <2>2 DEF ItemFresh
<1>10. ScriptOrder'
  BY <1>1, <1>5 DEF QmpInv, ScriptOrder, QmpTypeOK, ToSet
<1>11. DoublesPaid'
  <2>1. Doubled' = Doubled
    BY <1>1 DEF Doubled, ToSet
  <2>2. Pending' => Pending
    BY <1>1, <1>5 DEF Pending, Resends, ToSet
  <2> QED
    BY <1>1, <2>1, <2>2 DEF QmpInv, DoublesPaid
<1> QED
  BY <1>7, <1>8, <1>9, <1>10, <1>11 DEF QmpInv

\* What is appended to a sequence.
LEMMA Appended ==
    ASSUME NEW S, NEW s \in Seq(S), NEW e \in S
    PROVE  /\ Append(s, e) \in Seq(S) /\ Len(Append(s, e)) = Len(s) + 1
           /\ Append(s, e)[Len(s) + 1] = e
           /\ \A i \in DOMAIN s : i \in DOMAIN Append(s, e) /\ Append(s, e)[i] = s[i]
           /\ \A i \in DOMAIN Append(s, e) : i \in DOMAIN s \/ i = Len(s) + 1
           /\ Len(s) \in Nat /\ DOMAIN s = 1..Len(s)
OBVIOUS

\* Where the command of a call may be put among the requests.
LEMMA SentInOrder ==
    ASSUME QmpInv, client.pc = "send"
    PROVE  \/ /\ Command = Capabilities
              /\ \A r \in DOMAIN requests : requests[r] = Capabilities
           \/ /\ Command = client.item /\ client.item > 0 /\ ~ client.again
              /\ \A r \in DOMAIN requests : requests[r] < client.item
              /\ \A i \in 1..(Len(qemu.seen) - 1) : qemu.seen[i] < client.item
              /\ client.retry \/ Resends
              /\ client.retry => \A i \in DOMAIN qemu.seen : qemu.seen[i] < client.item
<1>1. client \in Client
  BY DEF QmpInv, ScriptOrder, QmpTypeOK
<1>2. CASE client.again
  BY <1>2 DEF Command, QmpInv, ClientHolds
<1>3. CASE ~ client.again /\ client.item = 0
  BY <1>3 DEF Command, QmpInv, ClientHolds, Capabilities
<1>4. CASE ~ client.again /\ client.item # 0
  <2>1. client.item > 0 /\ Command = client.item
    BY <1>1, <1>4, Numbers DEF Command
  <2>2. client.retry \/ Resends
    BY <2>1 DEF Resends
  <2> QED
    BY <1>4, <2>1, <2>2 DEF QmpInv, ItemFresh, At
<1> QED
  BY <1>2, <1>3, <1>4

LEMMA StepSend ==
    ASSUME QmpInv, Send
    PROVE  QmpInv'
<1>1. /\ client \in Client /\ client.pc = "send" /\ requests \in Seq(Items \union {Capabilities})
      /\ qemu.seen \in Seq(Items) /\ replies' \in Seq(Reply)
      /\ UNCHANGED <<up, replies, qemu, files>>
      /\ client' = [client EXCEPT !.pc = "receive", !.sent = Append(client.sent, Command)]
      /\ up => requests' = Append(requests, Command)
      /\ ~ up => requests' = requests
  BY DEF Send, At, QmpInv, ScriptOrder, QmpTypeOK, Qemu
<1>2. Command \in Items \union {Capabilities}
  BY <1>1, CommandType
<1>3. Append(client.sent, Command) \in Seq(Items \union {Capabilities})
  <2>1. client.sent \in Seq(Items \union {Capabilities})
    BY <1>1 DEF Client
  <2> QED
    BY <1>2, <2>1, Appended
<1>4. /\ client' \in Client /\ client'.pc = "receive" /\ client'.item = client.item
      /\ client'.retry = client.retry /\ client'.again = client.again
      /\ client'.shots = client.shots
  BY <1>1, <1>3 DEF Client
<1>5. /\ client.shots \in Nat /\ client.item \in Nat /\ Len(Script) \in Nat
  BY <1>1, Numbers
<1>6. Resends' => Resends
  BY <1>1, <1>4 DEF Resends
<1>7. CASE ~ up
  <2>1. ClientHolds'
    BY <1>1, <1>4, <1>5, <1>7 DEF QmpInv, ClientHolds, At
  <2>2. ItemFresh'
    BY <1>1, <1>4, <1>6, <1>7 DEF QmpInv, ItemFresh, At
  <2> QED
    BY <1>1, <1>4, <1>7, <2>1, <2>2, Moved
<1>8. CASE up
  <2>1. /\ requests' \in Seq(Items \union {Capabilities}) /\ Len(requests') = Len(requests) + 1
        /\ requests'[Len(requests) + 1] = Command
        /\ \A r \in DOMAIN requests : r \in DOMAIN requests' /\ requests'[r] = requests[r]
        /\ \A r \in DOMAIN requests' : r \in DOMAIN requests \/ r = Len(requests) + 1
        /\ Len(requests) \in Nat /\ DOMAIN requests = 1..Len(requests)
    <3>1. requests' = Append(requests, Command)
      BY <1>1, <1>8
    <3> QED
      BY <1>1, <1>2, <3>1, Appended
  <2>2. ScriptOrder'
    BY <1>1, <1>4, <2>1 DEF QmpInv, ScriptOrder, QmpTypeOK, ToSet
  <2>3. /\ Command = Capabilities \/ Command = client.item
        /\ client.again \/ client.item = 0 => Command = Capabilities
    BY DEF Command, Capabilities
  <2>4. ClientHolds'
    BY <1>1, <1>4, <1>5, <1>8, <2>1, <2>3 DEF QmpInv, ClientHolds, At
  <2>5. RequestsOrdered'
    <3>1. \A r \in DOMAIN requests' : requests'[r] <= client'.item
      BY <1>4, <1>5, <2>1, <2>3 DEF QmpInv, RequestsOrdered, Capabilities
    <3>2. \A r, q \in DOMAIN requests' :
             r < q => requests'[r] = Capabilities \/ requests'[r] < requests'[q]
      <4> SUFFICES ASSUME NEW r \in DOMAIN requests', NEW q \in DOMAIN requests', r < q
                   PROVE  requests'[r] = Capabilities \/ requests'[r] < requests'[q]
        OBVIOUS
      <4>1. r \in DOMAIN requests
        BY <2>1
      <4>2. CASE q \in DOMAIN requests
        BY <2>1, <4>1, <4>2 DEF QmpInv, RequestsOrdered
      <4>3. CASE q = Len(requests) + 1
        BY <1>1, <2>1, <4>1, <4>3, SentInOrder
      <4> QED
        BY <2>1, <4>2, <4>3
    <3>3. \A i \in DOMAIN qemu.seen, r \in DOMAIN requests' :
             \/ requests'[r] = Capabilities
             \/ /\ qemu.seen[i] <= requests'[r]
                /\ i < Len(qemu.seen) => qemu.seen[i] < requests'[r]
      <4> SUFFICES ASSUME NEW i \in DOMAIN qemu.seen, NEW r \in DOMAIN requests'
                   PROVE  \/ requests'[r] = Capabilities
                          \/ /\ qemu.seen[i] <= requests'[r]
                             /\ i < Len(qemu.seen) => qemu.seen[i] < requests'[r]
        OBVIOUS
      <4>1. CASE r \in DOMAIN requests
        BY <2>1, <4>1 DEF QmpInv, RequestsOrdered
      <4>2. CASE r = Len(requests) + 1
        <5>1. i < Len(qemu.seen) => i \in 1..(Len(qemu.seen) - 1)
          BY <1>1
        <5>2. qemu.seen[i] <= client.item
          BY DEF QmpInv, RequestsOrdered
        <5> QED
          BY <1>1, <2>1, <4>2, <5>1, <5>2, SentInOrder
      <4> QED
        BY <2>1, <4>1, <4>2
    <3> QED
      BY <1>1, <1>4, <3>1, <3>2, <3>3 DEF QmpInv, RequestsOrdered
  <2>6. ItemFresh'
    BY <1>1, <1>4, <1>6 DEF QmpInv, ItemFresh, At
  <2>7. Pending' => Pending
    <3>1. ASSUME Command \in ToSet(qemu.seen)
          PROVE  Pending
      <4>1. \A i \in DOMAIN qemu.seen : qemu.seen[i] \in Items
        BY <1>1
      <4>2. PICK i \in DOMAIN qemu.seen : qemu.seen[i] = Command
        BY <3>1 DEF ToSet
      <4>3. Command # Capabilities
        BY <4>1, <4>2, Script0 DEF Capabilities
      <4>4. Command = client.item /\ Resends
        BY <1>1, <1>5, <4>2, <4>3, SentInOrder
      <4> QED
        BY <3>1, <4>4 DEF Pending
    <3> QED
      BY <1>1, <1>4, <1>6, <2>1, <3>1 DEF Pending, ToSet
  <2>8. DoublesPaid'
    <3>1. Doubled' = Doubled
      BY <1>1 DEF Doubled, ToSet
    <3> QED
      BY <1>1, <1>8, <2>7, <3>1 DEF QmpInv, DoublesPaid
  <2> QED
    BY <2>2, <2>4, <2>5, <2>6, <2>8 DEF QmpInv
<1> QED
  BY <1>1, <1>7, <1>8 DEF QmpInv, ScriptOrder, QmpTypeOK

-----------------------------------------------------------------------------
(* QEMU and the connection *)

\* The commands QEMU has seen are finitely many.
LEMMA SeenFinite ==
    ASSUME NEW S, NEW s \in Seq(S)
    PROVE  IsFiniteSet(ToSet(s)) /\ Cardinality(ToSet(s)) \in Nat /\ Len(s) \in Nat
<1>1. IsFiniteSet(1..Len(s))
  BY FS_Interval
<1>2. s \in Surjection(1..Len(s), ToSet(s))
  BY DEF ToSet, Surjection
<1>3. IsFiniteSet(ToSet(s))
  BY <1>1, <1>2, FS_Surjection
<1> QED
  BY <1>3, FS_CardinalityType

\* A step in which QEMU sees no command, and at most the connection goes.
LEMMA Quiet ==
    ASSUME QmpInv, UNCHANGED client, qemu' \in Qemu, qemu'.seen = qemu.seen,
           qemu'.drops >= qemu.drops, up' \in BOOLEAN, up' => up,
           requests' = requests \/ requests' = <<>>, ~ up' => requests' = <<>>,
           replies' \in Seq(Reply), files' \in [Shot -> {"absent", "partial", "whole"}],
           (qemu'.alive => qemu.alive) /\ (~ up' /\ qemu'.alive => ~ up \/ qemu'.drops > qemu.drops)
    PROVE  QmpInv'
<1>1. requests' \in Seq(Items \union {Capabilities})
  <2>1. requests \in Seq(Items \union {Capabilities})
    BY DEF QmpInv, ScriptOrder, QmpTypeOK
  <2>2. <<>> \in Seq(Items \union {Capabilities})
    OBVIOUS
  <2> QED
    BY <2>1, <2>2
<1>2. \A r \in DOMAIN requests' : r \in DOMAIN requests /\ requests'[r] = requests[r]
  BY <1>1
<1>3. Doubled' = Doubled
  BY DEF Doubled, ToSet
<1>4. /\ qemu.drops \in Nat /\ qemu'.drops \in Nat /\ Len(qemu.seen) \in Nat
      /\ Cardinality(ToSet(qemu.seen)) \in Nat
  <2>1. qemu \in Qemu
    BY DEF QmpInv, ScriptOrder, QmpTypeOK
  <2> QED
    BY <2>1, SeenFinite DEF Qemu
<1>5. ScriptOrder'
  <2>1. Len(qemu'.seen) <= Cardinality(ToSet(qemu'.seen)) + qemu'.drops
    BY <1>4 DEF QmpInv, ScriptOrder
  <2> QED
    BY <1>1, <2>1 DEF QmpInv, ScriptOrder, QmpTypeOK
<1>6. ClientHolds'
  BY <1>2 DEF QmpInv, ClientHolds, At
<1>7. RequestsOrdered'
  BY <1>2 DEF QmpInv, RequestsOrdered
<1>8. ItemFresh'
  BY <1>2 DEF QmpInv, ItemFresh, Resends, At
<1>9. DoublesPaid'
  <2>1. Pending' => Pending
    BY <1>2 DEF Pending, Resends, ToSet
  <2>2. Doubled \in Int
    BY <1>4 DEF Doubled
  <2> QED
    BY <1>3, <1>4, <2>1, <2>2 DEF QmpInv, DoublesPaid
<1> QED
  BY <1>5, <1>6, <1>7, <1>8, <1>9 DEF QmpInv

LEMMA StepEvent ==
    ASSUME QmpInv, Event
    PROVE  QmpInv'
<1>1. /\ qemu \in Qemu /\ replies \in Seq(Reply) /\ up /\ up \in BOOLEAN
      /\ qemu' = [qemu EXCEPT !.events = qemu.events + 1]
      /\ replies' = Append(replies, Message("event", -1))
      /\ files \in [Shot -> {"absent", "partial", "whole"}]
      /\ UNCHANGED <<client, up, requests, files>>
  BY DEF Event, QmpInv, ScriptOrder, QmpTypeOK
<1>2. qemu.events \in Nat /\ qemu.drops \in Nat
  BY <1>1 DEF Qemu
<1>6. qemu.events + 1 \in Nat
  BY <1>2
<1>3. /\ qemu' \in Qemu /\ qemu'.seen = qemu.seen /\ qemu'.drops = qemu.drops
      /\ qemu'.alive = qemu.alive
  BY <1>1, <1>6 DEF Qemu
<1>4. Message("event", -1) \in Reply
  BY DEF Message, Reply
<1>5. replies' \in Seq(Reply)
  BY <1>1, <1>4
<1> QED
  BY <1>1, <1>2, <1>3, <1>5, Quiet

LEMMA StepWriteDump ==
    ASSUME QmpInv, WriteDump
    PROVE  QmpInv'
<1>1. /\ qemu \in Qemu /\ replies \in Seq(Reply) /\ up \in BOOLEAN
      /\ qemu.dumps # <<>> /\ qemu.dumps \in Seq(Shot) /\ qemu.drops \in Nat
      /\ files \in [Shot -> {"absent", "partial", "whole"}]
      /\ UNCHANGED <<client, up, requests, replies>>
  BY DEF WriteDump, QmpInv, ScriptOrder, QmpTypeOK, Qemu
<1>2. \/ qemu' = qemu
      \/ qemu' = [qemu EXCEPT !.dumps = Tail(qemu.dumps)]
  BY DEF WriteDump
<1>3. Tail(qemu.dumps) \in Seq(Shot)
  BY <1>1
<1>4. /\ qemu' \in Qemu /\ qemu'.seen = qemu.seen /\ qemu'.drops = qemu.drops
      /\ qemu'.alive = qemu.alive
  BY <1>1, <1>2, <1>3 DEF Qemu
<1>5. files' \in [Shot -> {"absent", "partial", "whole"}]
  BY <1>1 DEF WriteDump
<1>6. ~ up => requests = <<>>
  BY DEF QmpInv, ClientHolds
<1> QED
  BY <1>1, <1>4, <1>5, <1>6, Quiet

\* What is left of the replies on a connection that is lost.
LEMMA Cut ==
    ASSUME QmpInv, Disconnect
    PROVE  ~ up' /\ up' \in BOOLEAN /\ requests' = <<>> /\ replies' \in Seq(Reply)
<1>1. replies \in Seq(Reply)
  BY DEF QmpInv, ScriptOrder, QmpTypeOK
<1>2. Message("partial", -1) \in Reply
  BY DEF Message, Reply
<1>3. PICK n \in 0..Len(replies) :
          \/ replies' = SubSeq(replies, 1, n)
          \/ replies' = Append(SubSeq(replies, 1, n), Message("partial", -1))
  BY DEF Disconnect
<1>4. SubSeq(replies, 1, n) \in Seq(Reply)
  BY <1>1
<1>5. Append(SubSeq(replies, 1, n), Message("partial", -1)) \in Seq(Reply)
  BY <1>2, <1>4
<1> QED
  BY <1>3, <1>4, <1>5 DEF Disconnect

LEMMA StepDrop ==
    ASSUME QmpInv, Drop
    PROVE  QmpInv'
<1>1. /\ qemu \in Qemu /\ client \in Client /\ up /\ Disconnect
      /\ qemu' = [qemu EXCEPT !.drops = qemu.drops + 1,
                              !.early = qemu.early \/ client.item = 0]
      /\ files \in [Shot -> {"absent", "partial", "whole"}]
      /\ UNCHANGED <<client, files>>
  BY DEF Drop, QmpInv, ScriptOrder, QmpTypeOK
<1>2. qemu.drops \in Nat /\ (qemu.early \/ client.item = 0) \in BOOLEAN
  BY <1>1 DEF Qemu
<1>3. /\ qemu' \in Qemu /\ qemu'.seen = qemu.seen /\ qemu'.drops = qemu.drops + 1
      /\ qemu'.alive = qemu.alive
  <2> DEFINE e == qemu.early \/ client.item = 0
  <2>1. e \in BOOLEAN /\ qemu' = [qemu EXCEPT !.drops = qemu.drops + 1, !.early = e]
    BY <1>1, <1>2
  <2>2. qemu.drops + 1 \in Nat
    BY <1>2
  <2> HIDE DEF e
  <2> QED
    BY <1>1, <2>1, <2>2 DEF Qemu
<1> QED
  BY <1>1, <1>2, <1>3, Cut, Quiet

LEMMA StepQemuExits ==
    ASSUME QmpInv, QemuExits
    PROVE  QmpInv'
<1>1. /\ qemu \in Qemu /\ Disconnect /\ up \in BOOLEAN /\ qemu.alive
      /\ qemu' = [qemu EXCEPT !.alive = FALSE]
      /\ files \in [Shot -> {"absent", "partial", "whole"}]
      /\ UNCHANGED <<client, files>>
  BY DEF QemuExits, QmpInv, ScriptOrder, QmpTypeOK
<1>2. /\ qemu' \in Qemu /\ qemu'.seen = qemu.seen /\ qemu'.drops = qemu.drops
      /\ ~ qemu'.alive /\ qemu.drops \in Nat
  BY <1>1 DEF Qemu
<1> QED
  BY <1>1, <1>2, Cut, Quiet

\* What QEMU answers, and what becomes of its state.
LEMMA ObeyFacts ==
    ASSUME QmpInv, Obey
    PROVE  /\ up /\ requests # <<>> /\ requests' = Tail(requests)
           /\ UNCHANGED <<client, up, files>>
           /\ Head(requests) \in Items \union {Capabilities}
           /\ replies' \in Seq(Reply) /\ qemu' \in Qemu
           /\ qemu'.drops = qemu.drops /\ qemu'.alive = qemu.alive
           /\ Head(requests) = Capabilities => qemu'.seen = qemu.seen
           /\ Head(requests) # Capabilities =>
                 qemu'.seen = Append(qemu.seen, Head(requests))
<1> DEFINE c == Head(requests)
<1>1. /\ qemu \in Qemu /\ replies \in Seq(Reply)
      /\ requests \in Seq(Items \union {Capabilities})
      /\ up /\ requests # <<>> /\ requests' = Tail(requests)
      /\ UNCHANGED <<client, up, files>>
  BY DEF Obey, QmpInv, ScriptOrder, QmpTypeOK
<1>2. c \in Items \union {Capabilities}
  BY <1>1
<1>3. PICK refuse \in BOOLEAN :
          /\ IF qemu.mode = "negotiation" THEN ~ refuse <=> c = Capabilities
             ELSE /\ c = Capabilities => refuse
                  /\ c # Capabilities /\ c \notin Refusable => ~ refuse
          /\ replies' = Append(replies,
                               Message(IF ~ refuse THEN "return" ELSE "error", c))
          /\ qemu' = [qemu EXCEPT
                !.mode = IF ~ refuse THEN "command" ELSE @,
                !.seen = IF c = Capabilities THEN @ ELSE Append(@, c),
                !.refused = IF ~ refuse \/ qemu.mode = "negotiation" THEN @
                            ELSE @ \union {c},
                !.dumps = IF ~ refuse /\ c # Capabilities
                             /\ Item[c].op \in {"shot", "interval"}
                          THEN Append(@, Item[c].file) ELSE @]
  BY DEF Obey
<1> DEFINE mode == IF ~ refuse THEN "command" ELSE qemu.mode
           seen == IF c = Capabilities THEN qemu.seen ELSE Append(qemu.seen, c)
           refused == IF ~ refuse \/ qemu.mode = "negotiation" THEN qemu.refused
                      ELSE qemu.refused \union {c}
           dumps == IF ~ refuse /\ c # Capabilities /\ Item[c].op \in {"shot", "interval"}
                    THEN Append(qemu.dumps, Item[c].file) ELSE qemu.dumps
<1>4. qemu' = [qemu EXCEPT !.mode = mode, !.seen = seen, !.refused = refused,
                           !.dumps = dumps]
  BY <1>3
<1>5. /\ qemu.mode \in {"negotiation", "command"} /\ qemu.seen \in Seq(Items)
      /\ qemu.refused \in SUBSET (Refusable \union {Capabilities})
      /\ qemu.dumps \in Seq(Shot)
  BY <1>1 DEF Qemu
<1>6. mode \in {"negotiation", "command"}
  BY <1>5
<1>7. /\ seen \in Seq(Items)
      /\ c = Capabilities => seen = qemu.seen
      /\ c # Capabilities => seen = Append(qemu.seen, c)
  BY <1>2, <1>5, Appended
<1>8. refused \in SUBSET (Refusable \union {Capabilities})
  BY <1>3, <1>5
<1>9. dumps \in Seq(Shot)
  BY <1>2, <1>5, ItemFile, Appended
<1>10. replies' \in Seq(Reply)
  <2>1. \A kind \in {"return", "error"} : Message(kind, c) \in Reply
    BY <1>2 DEF Message, Reply
  <2> QED
    BY <1>1, <1>3, <2>1, Appended
<1> HIDE DEF c, mode, seen, refused, dumps
<1>11. /\ qemu' \in Qemu /\ qemu'.seen = seen
       /\ qemu'.drops = qemu.drops /\ qemu'.alive = qemu.alive
  BY <1>1, <1>4, <1>6, <1>7, <1>8, <1>9 DEF Qemu
<1> QED
  BY <1>1, <1>2, <1>7, <1>10, <1>11 DEF c

\* What is left of a sequence.
LEMMA Tailed ==
    ASSUME NEW S, NEW s \in Seq(S), s # <<>>
    PROVE  /\ Tail(s) \in Seq(S) /\ 1 \in DOMAIN s /\ Head(s) = s[1]
           /\ \A r \in DOMAIN Tail(s) : /\ r + 1 \in DOMAIN s /\ Tail(s)[r] = s[r + 1]
                                        /\ r \in Nat /\ 1 < r + 1
           /\ \A r, q \in DOMAIN Tail(s) : r < q => r + 1 < q + 1
OBVIOUS

\* qmp_capabilities is answered.
LEMMA ObeyCapabilities ==
    ASSUME QmpInv, Obey, Head(requests) = Capabilities
    PROVE  QmpInv'
<1>1. /\ up /\ requests # <<>> /\ requests' = Tail(requests)
      /\ UNCHANGED <<client, up, files>> /\ replies' \in Seq(Reply) /\ qemu' \in Qemu
      /\ qemu'.drops = qemu.drops /\ qemu'.alive = qemu.alive
      /\ qemu'.seen = qemu.seen
  BY ObeyFacts
<1>2. requests \in Seq(Items \union {Capabilities})
  BY DEF QmpInv, ScriptOrder, QmpTypeOK
<1>3. /\ requests' \in Seq(Items \union {Capabilities})
      /\ \A r \in DOMAIN requests' : r + 1 \in DOMAIN requests /\ requests'[r] = requests[r + 1]
      /\ \A r, q \in DOMAIN requests' : r < q => r + 1 < q + 1
  BY <1>1, <1>2, Tailed
<1>4. ScriptOrder'
  BY <1>1, <1>3 DEF QmpInv, ScriptOrder, QmpTypeOK
<1>5. ClientHolds'
  BY <1>1, <1>3 DEF QmpInv, ClientHolds, At
<1>6. RequestsOrdered'
  BY <1>1, <1>3 DEF QmpInv, RequestsOrdered
<1>7. ItemFresh'
  BY <1>1, <1>3 DEF QmpInv, ItemFresh, Resends, At
<1>8. DoublesPaid'
  <2>1. Pending' => Pending
    BY <1>1, <1>3 DEF Pending, Resends, ToSet
  <2>2. Doubled' = Doubled
    BY <1>1 DEF Doubled
  <2> QED
    BY <1>1, <2>1, <2>2 DEF QmpInv, DoublesPaid
<1> QED
  BY <1>4, <1>5, <1>6, <1>7, <1>8 DEF QmpInv

\* A command of the script is answered.
LEMMA ObeyItem ==
    ASSUME QmpInv, Obey, Head(requests) # Capabilities
    PROVE  QmpInv'
<1> DEFINE c == Head(requests)
           L == Len(qemu.seen)
<1>1. /\ up /\ requests # <<>> /\ requests' = Tail(requests)
      /\ UNCHANGED <<client, up, files>> /\ replies' \in Seq(Reply) /\ qemu' \in Qemu
      /\ qemu'.drops = qemu.drops /\ qemu'.alive = qemu.alive
      /\ qemu'.seen = Append(qemu.seen, c) /\ c \in Items
  BY ObeyFacts
<1>2. /\ client \in Client /\ qemu.drops \in Nat /\ qemu.seen \in Seq(Items)
      /\ requests \in Seq(Items \union {Capabilities})
  BY DEF QmpInv, ScriptOrder, QmpTypeOK, Qemu
<1>3. /\ requests' \in Seq(Items \union {Capabilities})
      /\ 1 \in DOMAIN requests /\ c = requests[1]
      /\ \A r \in DOMAIN requests' :
            /\ r + 1 \in DOMAIN requests /\ requests'[r] = requests[r + 1]
            /\ r \in Nat /\ 1 < r + 1
      /\ \A r, q \in DOMAIN requests' : r < q => r + 1 < q + 1
  BY <1>1, <1>2, Tailed
<1>4. /\ L \in Nat /\ DOMAIN qemu.seen = 1..L
      /\ qemu'.seen \in Seq(Items) /\ Len(qemu'.seen) = L + 1 /\ DOMAIN qemu'.seen = 1..(L + 1)
      /\ qemu'.seen[L + 1] = c
      /\ \A i \in 1..L : qemu'.seen[i] = qemu.seen[i]
      /\ \A i \in 1..(L + 1) : i \in 1..L \/ i = L + 1
  BY <1>1, <1>2, Appended
<1>5. /\ client.item \in Nat /\ c \in Nat
      /\ \A i \in 1..L : qemu.seen[i] \in Nat
  <2>1. \A i \in 1..L : qemu.seen[i] \in Items
    BY <1>2
  <2> QED
    BY <1>1, <1>2, <2>1, Numbers, Script0
<1>6. \A r \in DOMAIN requests : requests[r] \in Nat
  <2>1. \A r \in DOMAIN requests : requests[r] \in Items \union {Capabilities}
    BY <1>2
  <2> QED
    BY <2>1, Numbered
\* It comes behind what has been seen, and before what is under way.
<1>7. \A i \in 1..L : qemu.seen[i] <= c /\ (i < L => qemu.seen[i] < c)
  BY <1>3, <1>4 DEF QmpInv, RequestsOrdered
<1>8. \A r \in DOMAIN requests' : c < requests'[r] /\ requests'[r] \in Nat
  BY <1>3, <1>6 DEF QmpInv, RequestsOrdered
<1>9. c <= client.item
  BY <1>3 DEF QmpInv, RequestsOrdered
\* Where the command of this call is still to come, it is a later one, or one
\* that QEMU has not seen.
<1>10. Resends => c < client.item
  BY <1>1, <1>3, <1>5, <1>9 DEF Resends, QmpInv, ClientHolds, ItemFresh, At
<1>11. ~ Pending'
  <2>1. \A r \in DOMAIN requests' : requests'[r] \notin ToSet(qemu'.seen)
    BY <1>4, <1>5, <1>7, <1>8 DEF ToSet
  <2>2. Resends' => Resends
    BY <1>1 DEF Resends
  <2>3. Resends => client.item \notin ToSet(qemu'.seen)
    BY <1>4, <1>5, <1>7, <1>10 DEF ToSet
  <2> QED
    BY <1>1, <2>1, <2>2, <2>3 DEF Pending
<1>12. Doubled' <= qemu.drops
  <2>1. ToSet(qemu'.seen) = ToSet(qemu.seen) \union {c}
    BY <1>4 DEF ToSet
  <2>2. /\ Cardinality(ToSet(qemu.seen)) \in Nat /\ IsFiniteSet(ToSet(qemu.seen))
        /\ Cardinality(ToSet(qemu'.seen)) = IF c \in ToSet(qemu.seen)
                                            THEN Cardinality(ToSet(qemu.seen))
                                            ELSE Cardinality(ToSet(qemu.seen)) + 1
    BY <1>2, <2>1, SeenFinite, FS_AddElement
  <2>3. c \in ToSet(qemu.seen) => Doubled < qemu.drops
    BY <1>1, <1>3 DEF QmpInv, DoublesPaid, Pending
  <2>4. Doubled <= qemu.drops
    BY DEF QmpInv, DoublesPaid
  <2> QED
    BY <1>2, <1>4, <2>2, <2>3, <2>4 DEF Doubled
<1>13. ScriptOrder'
  <2>1. QmpTypeOK'
    BY <1>1, <1>3 DEF QmpInv, ScriptOrder, QmpTypeOK
  <2>2. \A i, j \in DOMAIN qemu'.seen : i < j => qemu'.seen[i] <= qemu'.seen[j]
    BY <1>4, <1>7 DEF QmpInv, ScriptOrder
  <2>3. \A i \in 1..(Len(qemu'.seen) - 2) : qemu'.seen[i] < qemu'.seen[i + 2]
    <3> SUFFICES ASSUME NEW i \in 1..(L - 1)
                 PROVE  qemu'.seen[i] < qemu'.seen[i + 2]
      BY <1>4
    <3>1. i \in 1..L /\ i < L /\ qemu'.seen[i] = qemu.seen[i]
      BY <1>4
    <3>2. CASE i + 2 = L + 1
      BY <1>4, <1>7, <3>1, <3>2
    <3>3. CASE i \in 1..(L - 2)
      <4>1. i + 2 \in 1..L
        BY <1>4, <3>3
      <4> QED
        BY <1>4, <3>1, <3>3, <4>1 DEF QmpInv, ScriptOrder
    <3> QED
      BY <1>4, <3>2, <3>3
  <2>4. Len(qemu'.seen) <= Cardinality(ToSet(qemu'.seen)) + qemu'.drops
    <3>1. Cardinality(ToSet(qemu'.seen)) \in Nat
      BY <1>4, SeenFinite
    <3> QED
      BY <1>1, <1>2, <1>4, <1>12, <3>1 DEF Doubled
  <2> QED
    BY <2>1, <2>2, <2>3, <2>4 DEF ScriptOrder
<1>14. ClientHolds'
  BY <1>1, <1>3 DEF QmpInv, ClientHolds, At
<1>15. RequestsOrdered'
  <2>1. \A i \in DOMAIN qemu'.seen : qemu'.seen[i] <= client'.item
    BY <1>1, <1>4, <1>9 DEF QmpInv, RequestsOrdered
  <2>2. /\ \A r \in DOMAIN requests' : requests'[r] <= client'.item
        /\ \A r, q \in DOMAIN requests' :
              r < q => requests'[r] = Capabilities \/ requests'[r] < requests'[q]
    BY <1>1, <1>3 DEF QmpInv, RequestsOrdered
  <2>3. \A i \in DOMAIN qemu'.seen, r \in DOMAIN requests' : qemu'.seen[i] < requests'[r]
    BY <1>4, <1>5, <1>7, <1>8
  <2>4. \A i \in DOMAIN qemu'.seen, r \in DOMAIN requests' :
           qemu'.seen[i] <= requests'[r]
    BY <1>4, <1>5, <1>7, <1>8
  <2> QED
    BY <2>1, <2>2, <2>3, <2>4 DEF RequestsOrdered
<1>16. ItemFresh'
  <2>1. At("send")' /\ ~ client'.again /\ client'.item > 0 =>
            \A r \in DOMAIN requests' : requests'[r] < client'.item
    BY <1>1, <1>3 DEF QmpInv, ItemFresh, At
  <2>2. ASSUME client.retry, client.item > 0,
               At("send") \/ \E r \in DOMAIN requests' : requests'[r] = client.item
        PROVE  \A i \in DOMAIN qemu'.seen : qemu'.seen[i] < client.item
    <3>1. c < client.item
      <4>1. CASE At("send")
        BY <1>3, <2>2, <4>1 DEF QmpInv, ItemFresh, ClientHolds
      <4>2. CASE \E r \in DOMAIN requests' : requests'[r] = client.item
        BY <1>8, <4>2
      <4> QED
        BY <2>2, <4>1, <4>2
    <3> QED
      BY <1>4, <1>5, <1>7, <3>1
  <2>3. ASSUME (client.retry /\ client.item > 0) \/ Resends
        PROVE  \A i \in 1..L : qemu.seen[i] < client.item
    <3>1. CASE c < client.item
      BY <1>5, <1>7, <3>1
    <3>2. CASE c = client.item
      <4>1. client.retry /\ client.item > 0
        BY <1>5, <1>10, <2>3, <3>2
      <4> QED
        BY <1>3, <1>4, <3>2, <4>1 DEF QmpInv, ItemFresh
    <3> QED
      BY <1>5, <1>9, <3>1, <3>2
  <2>4. \A i \in 1..(Len(qemu'.seen) - 1) : i \in 1..L
    BY <1>4
  <2>5. Resends' => Resends
    BY <1>1 DEF Resends
  <2> QED
    BY <1>1, <1>4, <2>1, <2>2, <2>3, <2>4, <2>5 DEF ItemFresh, At
<1>17. DoublesPaid'
  BY <1>1, <1>11, <1>12 DEF DoublesPaid
<1> QED
  BY <1>13, <1>14, <1>15, <1>16, <1>17 DEF QmpInv

-----------------------------------------------------------------------------
(* The theorems *)

LEMMA Beginning ==
    ASSUME QmpInit
    PROVE  QmpInv
<1>1. client \in Client
  <2>1. 0 \in 0..(MaxAttempts - 1)
    BY Script0
  <2>2. <<>> \in Seq(Items \union {Capabilities})
    OBVIOUS
  <2> QED
    BY <2>1, <2>2 DEF QmpInit, Client
<1>2. qemu \in Qemu
  <2>1. <<>> \in Seq(Items) /\ <<>> \in Seq(Shot)
    OBVIOUS
  <2> QED
    BY <2>1 DEF QmpInit, Qemu
<1>3. QmpTypeOK
  <2>1. <<>> \in Seq(Items \union {Capabilities}) /\ <<>> \in Seq(Reply)
    OBVIOUS
  <2>2. up = FALSE /\ requests = <<>> /\ replies = <<>>
    BY DEF QmpInit
  <2>3. files \in [Shot -> {"absent", "partial", "whole"}]
    BY DEF QmpInit
  <2> QED
    BY <1>1, <1>2, <2>1, <2>2, <2>3 DEF QmpTypeOK
<1>4. ToSet(qemu.seen) = {} /\ qemu.seen = <<>> /\ qemu.drops = 0 /\ ~ up
      /\ requests = <<>> /\ client.pc = "connect" /\ client.item = 0 /\ ~ client.again
      /\ client.shots = 0
  BY DEF QmpInit, ToSet
<1>5. Doubled = 0
  BY <1>4, FS_EmptySet DEF Doubled
<1>6. ScriptOrder
  BY <1>3, <1>4, FS_EmptySet DEF ScriptOrder
<1>7. ClientHolds /\ RequestsOrdered /\ ItemFresh
  BY <1>4, Script0 DEF ClientHolds, RequestsOrdered, ItemFresh, Resends, At
<1>8. DoublesPaid
  BY <1>4, <1>5 DEF DoublesPaid
<1> QED
  BY <1>6, <1>7, <1>8 DEF QmpInv

LEMMA Step ==
    ASSUME QmpInv, [QmpNext]_qmpVars
    PROVE  QmpInv'
<1>1. CASE UNCHANGED qmpVars
  BY <1>1 DEF qmpVars, QmpInv, ScriptOrder, QmpTypeOK, ClientHolds, RequestsOrdered,
              ItemFresh, DoublesPaid, Doubled, Pending, Resends, At
<1>2. CASE Connect
  BY <1>2, StepConnect
<1>3. CASE ConnectFails
  BY <1>3, StepConnectFails
<1>4. CASE Send
  BY <1>4, StepSend
<1>5. CASE SendFails
  BY <1>5, StepLost DEF SendFails, At
<1>6. CASE Receive
  BY <1>6, StepReceive
<1>7. CASE ReceiveFails
  BY <1>7, StepLost DEF ReceiveFails, At
<1>8. CASE Reopen
  BY <1>8, StepReopen
<1>9. CASE ReopenFails
  BY <1>9, StepLost DEF ReopenFails, At, QmpInv, ClientHolds
<1>10. CASE Convert \/ PollFails \/ Finish
  BY <1>10, StepItem
<1>11. CASE Continue
  BY <1>11, StepContinue
<1>12. CASE Obey
  BY <1>12, ObeyCapabilities, ObeyItem
<1>13. CASE Event \/ WriteDump
  BY <1>13, StepEvent, StepWriteDump
<1>14. CASE Drop \/ QemuExits
  BY <1>14, StepDrop, StepQemuExits
<1> QED
  BY <1>1, <1>2, <1>3, <1>4, <1>5, <1>6, <1>7, <1>8, <1>9, <1>10, <1>11, <1>12, <1>13,
     <1>14 DEF QmpNext, ClientStep

\* However often connections drop, and wherever, the class Qmp gives QEMU the
\* commands of a script in their order, none more than twice, and twice only
\* as often as a connection was lost.
THEOREM QmpInvariance == QmpSpec => []QmpInv
<1>1. QmpInit => QmpInv
  BY Beginning
<1>2. QmpInv /\ [QmpNext]_qmpVars => QmpInv'
  BY Step
<1> QED
  BY <1>1, <1>2, PTL DEF QmpSpec

-----------------------------------------------------------------------------
(* The reply a call takes for its own, and the commands lost *)

\* f gives every reply still to be read, and the next one QEMU will write, the
\* place on the connection of the command it answers: that of the greeting is
\* 0, and an event takes none, nor does a line cut in the middle.  A call waits for the reply one place before
\* that of its own command.
Numbering(f) ==
    /\ f \in [1..(Len(replies) + 1) -> Nat]
    /\ Len(client.sent) = f[1] + (IF At("receive") THEN 1 ELSE 0)
    /\ \A i, j \in 1..(Len(replies) + 1) : i <= j => f[i] <= f[j]
    /\ \A i \in DOMAIN replies :
          /\ f[i + 1] = f[i] + (IF replies[i].kind \in {"event", "partial"} THEN 0 ELSE 1)
          /\ replies[i].kind \in {"greeting", "return", "error"} =>
                \/ f[i] = 0 /\ replies[i].command = -1
                \/ f[i] \in DOMAIN client.sent /\ replies[i].command = client.sent[f[i]]
    /\ up => LET next == f[Len(replies) + 1]
             IN  /\ next >= 1
                 /\ next + Len(requests) = Len(client.sent) + 1
                 /\ \A r \in DOMAIN requests : requests[r] = client.sent[next + r - 1]

\* The client reads, or may read again, from this connection.
Reads == client.pc \in {"send", "receive", "next", "check", "poll"}

\* The place of the next command to be answered.
Due(f) == f[Len(replies) + 1]

\* What is before that place QEMU has seen.
Answered(f) ==
    /\ Due(f) <= Len(client.sent) + 1
    /\ \A p \in DOMAIN client.sent :
          p < Due(f) => \/ client.sent[p] = Capabilities
                         \/ client.sent[p] \in ToSet(qemu.seen)

\* Every command lost without notice is paid for by a lost connection; once
\* it is lost, in advance, until the client has read all that was left.
Losses == qemu.drops + (IF qemu.alive THEN 0 ELSE 1)

Paid(f) ==
    ~ up => Cardinality(Unnoticed) +
               (IF client.pc \in {"send", "receive"} /\ Due(f) = f[1] THEN 0 ELSE 1)
            <= Losses

Stream == Reads => \E f : Numbering(f) /\ Answered(f) /\ Paid(f)

\* The last command sent is that of the call in progress, or just over.
Latest ==
    /\ At("receive") => client.sent[Len(client.sent)] = Command
    /\ client.pc \in {"next", "check", "poll"} =>
          Len(client.sent) >= 1 /\ client.sent[Len(client.sent)] = client.item

\* One command at most is under way whose call is over.
OneBehind ==
    \A r, q \in DOMAIN requests :
       requests[r] \in 1..(client.item - 1) /\ requests[q] \in 1..(client.item - 1)
       => r = q

LossInv ==
    /\ LossBound /\ Stream /\ Latest
    /\ up => qemu.alive
    /\ ~ Reads => OneBehind

LEMMA StreamTypes ==
    ASSUME QmpInv
    PROVE  /\ client \in Client /\ replies \in Seq(Reply) /\ Len(replies) \in Nat
           /\ DOMAIN replies = 1..Len(replies)
           /\ client.sent \in Seq(Items \union {Capabilities}) /\ Len(client.sent) \in Nat
           /\ DOMAIN client.sent = 1..Len(client.sent)
           /\ requests \in Seq(Items \union {Capabilities}) /\ Len(requests) \in Nat
           /\ DOMAIN requests = 1..Len(requests)
<1>1. /\ client \in Client /\ replies \in Seq(Reply)
      /\ requests \in Seq(Items \union {Capabilities})
  BY DEF QmpInv, ScriptOrder, QmpTypeOK
<1>2. client.sent \in Seq(Items \union {Capabilities})
  BY <1>1 DEF Client
<1> QED
  BY <1>1, <1>2, SeqDomain

\* A new connection, with its greeting.
LEMMA StreamOpened ==
    ASSUME QmpInv, Opened(<<>>), client'.sent = <<>>, client'.pc = "send"
    PROVE  \E g : Numbering(g)' /\ g[1] = 0 /\ g[Len(replies') + 1] = 1
<1> DEFINE f == [i \in 1..2 |-> i - 1]
<1>1. /\ replies' = Append(<<>>, Message("greeting", -1)) /\ requests' = <<>>
  BY DEF Opened
<1>2. /\ Len(replies') = 1 /\ DOMAIN replies' = {1}
      /\ replies'[1] = Message("greeting", -1)
  BY <1>1
<1>3. replies'[1].kind = "greeting" /\ replies'[1].command = -1
  BY <1>2 DEF Message
<1>4. /\ f \in [1..2 -> Nat] /\ f[1] = 0 /\ f[2] = 1
      /\ \A i, j \in 1..2 : i <= j => f[i] <= f[j]
  OBVIOUS
<1>5. Len(client'.sent) = 0 /\ Len(requests') = 0 /\ DOMAIN requests' = {}
  BY <1>1
<1> HIDE DEF f
<1>6. Numbering(f)'
  BY <1>2, <1>3, <1>4, <1>5 DEF Numbering, At
<1> QED
  BY <1>2, <1>4, <1>6

\* The client goes on without reading.
LEMMA StreamKept ==
    ASSUME NEW f, Numbering(f), UNCHANGED <<up, requests, replies>>,
           client'.sent = client.sent, client.pc = "receive" <=> client'.pc = "receive"
    PROVE  Numbering(f)'
BY DEF Numbering, At

\* The client sends.
LEMMA StreamSend ==
    ASSUME QmpInv, NEW f, Numbering(f), Send
    PROVE  Numbering(f)'
<1>2. /\ client.pc = "send" /\ UNCHANGED <<up, replies>>
      /\ client' = [client EXCEPT !.pc = "receive", !.sent = Append(client.sent, Command)]
      /\ up => requests' = Append(requests, Command)
      /\ ~ up => requests' = requests
  BY DEF Send, At
<1>3. client'.pc = "receive" /\ client'.sent = Append(client.sent, Command)
  BY <1>2, StreamTypes DEF Client
<1>4. Command \in Items \union {Capabilities}
  BY StreamTypes, CommandType
<1>5. /\ Len(client'.sent) = Len(client.sent) + 1
      /\ client'.sent[Len(client.sent) + 1] = Command
      /\ \A i \in DOMAIN client.sent : i \in DOMAIN client'.sent
                                       /\ client'.sent[i] = client.sent[i]
  BY <1>3, <1>4, StreamTypes, Appended
<1>6. f \in [1..(Len(replies') + 1) -> Nat] /\ Len(client'.sent) = f[1] + 1
  <2>1. f \in [1..(Len(replies) + 1) -> Nat] /\ Len(client.sent) = f[1] + 0
    BY <1>2 DEF Numbering, At
  <2>2. f[1] \in Nat
    BY <2>1, StreamTypes
  <2> QED
    BY <1>2, <1>5, <2>1, <2>2
<1>7. \A i \in DOMAIN replies' :
          /\ f[i + 1] = f[i] + (IF replies'[i].kind \in {"event", "partial"} THEN 0 ELSE 1)
          /\ replies'[i].kind \in {"greeting", "return", "error"} =>
                \/ f[i] = 0 /\ replies'[i].command = -1
                \/ f[i] \in DOMAIN client'.sent /\ replies'[i].command = client'.sent[f[i]]
  BY <1>2, <1>5 DEF Numbering
<1>8. ASSUME up
      PROVE  LET next == f[Len(replies') + 1]
             IN  /\ next >= 1
                 /\ next + Len(requests') = Len(client'.sent) + 1
                 /\ \A r \in DOMAIN requests' : requests'[r] = client'.sent[next + r - 1]
  <2> DEFINE next == f[Len(replies) + 1]
  <2>1. /\ Len(requests') = Len(requests) + 1
        /\ requests'[Len(requests) + 1] = Command
        /\ \A r \in DOMAIN requests : r \in DOMAIN requests' /\ requests'[r] = requests[r]
        /\ \A r \in DOMAIN requests' : r \in DOMAIN requests \/ r = Len(requests) + 1
    BY <1>2, <1>4, <1>8, StreamTypes, Appended
  <2>2. /\ next \in Nat /\ next >= 1 /\ next + Len(requests) = Len(client.sent) + 1
        /\ \A r \in DOMAIN requests : requests[r] = client.sent[next + r - 1]
    BY <1>8, StreamTypes DEF Numbering
  <2> HIDE DEF next
  <2>3. next + Len(requests') = Len(client'.sent) + 1
    BY <1>5, <2>1, <2>2, StreamTypes
  <2>4. ASSUME NEW r \in DOMAIN requests'
        PROVE  requests'[r] = client'.sent[next + r - 1]
    <3>1. CASE r \in DOMAIN requests
      <4>1. next + r - 1 \in DOMAIN client.sent
        BY <2>2, <3>1, StreamTypes
      <4> QED
        BY <1>5, <2>1, <2>2, <3>1, <4>1
    <3>2. CASE r = Len(requests) + 1
      <4>1. next + r - 1 = Len(client.sent) + 1
        BY <2>2, <3>2, StreamTypes
      <4> QED
        BY <1>5, <2>1, <3>2, <4>1
    <3> QED
      BY <2>1, <3>1, <3>2
  <2> QED
    BY <1>2, <2>2, <2>3, <2>4 DEF next
<1>9. \A i, j \in 1..(Len(replies') + 1) : i <= j => f[i] <= f[j]
  BY <1>2 DEF Numbering
<1> QED
  BY <1>2, <1>3, <1>6, <1>7, <1>8, <1>9 DEF Numbering, At

\* The reply the client reads next answers the command before its own.
LEMMA HeadReply ==
    ASSUME QmpInv, NEW f, Numbering(f), client.pc = "receive", replies # <<>>,
           Head(replies).kind \in {"greeting", "return", "error"}
    PROVE  LET n == Len(client.sent)
           IN  Head(replies).command = IF n = 1 THEN -1 ELSE client.sent[n - 1]
<1>1. 1 \in DOMAIN replies /\ Head(replies) = replies[1]
  BY StreamTypes, Tailed
<1>2. f[1] \in Nat /\ Len(client.sent) = f[1] + 1
  BY StreamTypes DEF Numbering, At
<1>3. \/ f[1] = 0 /\ replies[1].command = -1
      \/ f[1] \in DOMAIN client.sent /\ replies[1].command = client.sent[f[1]]
  BY <1>1 DEF Numbering
<1>4. CASE f[1] = 0
  BY <1>1, <1>2, <1>3, <1>4, StreamTypes
<1>5. CASE f[1] # 0
  BY <1>1, <1>2, <1>3, <1>5
<1> QED
  BY <1>4, <1>5

LEMMA StreamReceive ==
    ASSUME QmpInv, NEW f, Numbering(f), Receive
    PROVE  \/ client'.pc = "failed"
           \/ /\ client'.sent = client.sent
              /\ \E g : Numbering(g)' /\ g[Len(replies') + 1] = f[Len(replies) + 1]
<1>2. /\ client.pc = "receive" /\ replies # <<>> /\ replies' = Tail(replies)
      /\ UNCHANGED <<up, requests>> /\ Head(replies) \in Reply
  BY StreamTypes DEF Receive, At
<1> DEFINE L == Len(replies)
<1>0. PICK g : g = [i \in 1..L |-> f[i + 1]]
  OBVIOUS
<1>3. /\ L \in Nat /\ L >= 1 /\ Len(replies') + 1 = L
      /\ 1 \in DOMAIN replies /\ Head(replies) = replies[1]
      /\ \A i \in DOMAIN replies' : /\ i + 1 \in DOMAIN replies
                                    /\ replies'[i] = replies[i + 1]
                                    /\ i \in 1..L /\ i + 1 \in 1..L
  BY <1>2, StreamTypes, Tailed
<1>4. f \in [1..(L + 1) -> Nat] /\ Len(client.sent) = f[1] + 1
  BY <1>2 DEF Numbering, At
<1>5. /\ g \in [1..L -> Nat] /\ g[1] = f[2] /\ g[L] = f[L + 1]
      /\ \A i \in 1..L : g[i] = f[i + 1]
  BY <1>3, <1>4, <1>0
<1>6. f[2] = f[1] + (IF Head(replies).kind \in {"event", "partial"} THEN 0 ELSE 1)
  <2>1. \A i \in DOMAIN replies :
           f[i + 1] = f[i] + (IF replies[i].kind \in {"event", "partial"} THEN 0 ELSE 1)
    BY DEF Numbering
  <2>2. f[1 + 1] = f[1] + (IF replies[1].kind \in {"event", "partial"} THEN 0 ELSE 1)
    BY <1>3, <2>1
  <2> QED
    BY <1>3, <2>2
<1> HIDE DEF L
<1>7. g \in [1..(Len(replies') + 1) -> Nat]
  BY <1>3, <1>5
<1>12. \A i, j \in 1..(Len(replies') + 1) : i <= j => g[i] <= g[j]
  <2>1. \A i, j \in 1..(L + 1) : i <= j => f[i] <= f[j]
    BY DEF Numbering, L
  <2>2. \A i \in 1..L : i + 1 \in 1..(L + 1)
    BY <1>3
  <2>3. ASSUME NEW i \in 1..L, NEW j \in 1..L, i <= j
        PROVE  g[i] <= g[j]
    <3>1. i + 1 \in 1..(L + 1) /\ j + 1 \in 1..(L + 1) /\ i + 1 <= j + 1
      BY <1>3, <2>3
    <3>2. f[i + 1] <= f[j + 1]
      BY <2>1, <3>1
    <3> QED
      BY <1>5, <3>2
  <2> QED
    BY <1>3, <2>3
<1>13. g[Len(replies') + 1] = f[Len(replies) + 1]
  BY <1>3, <1>5 DEF L
<1>8. ASSUME client'.sent = client.sent
      PROVE  /\ \A i \in DOMAIN replies' :
                   /\ g[i + 1] = g[i] + (IF replies'[i].kind \in {"event", "partial"} THEN 0 ELSE 1)
                   /\ replies'[i].kind \in {"greeting", "return", "error"} =>
                         \/ g[i] = 0 /\ replies'[i].command = -1
                         \/ /\ g[i] \in DOMAIN client'.sent
                            /\ replies'[i].command = client'.sent[g[i]]
             /\ up' => LET next == g[Len(replies') + 1]
                       IN  /\ next >= 1
                           /\ next + Len(requests') = Len(client'.sent) + 1
                           /\ \A r \in DOMAIN requests' :
                                 requests'[r] = client'.sent[next + r - 1]
  <2>1. \A i \in DOMAIN replies' :
           /\ g[i + 1] = f[(i + 1) + 1] /\ g[i] = f[i + 1]
           /\ replies'[i] = replies[i + 1] /\ i + 1 \in DOMAIN replies
    BY <1>3, <1>5
  <2>2. g[Len(replies') + 1] = f[Len(replies) + 1]
    BY <1>3, <1>5 DEF L
  <2>3. ASSUME NEW i \in DOMAIN replies'
        PROVE  /\ g[i + 1] = g[i] + (IF replies'[i].kind \in {"event", "partial"} THEN 0 ELSE 1)
               /\ replies'[i].kind \in {"greeting", "return", "error"} =>
                     \/ g[i] = 0 /\ replies'[i].command = -1
                     \/ /\ g[i] \in DOMAIN client'.sent
                        /\ replies'[i].command = client'.sent[g[i]]
    <3> DEFINE j == i + 1
    <3>1. /\ j \in DOMAIN replies /\ replies'[i] = replies[j]
          /\ g[i + 1] = f[j + 1] /\ g[i] = f[j]
      BY <2>1
    <3> HIDE DEF j
    <3>2. /\ f[j + 1] = f[j] + (IF replies[j].kind \in {"event", "partial"} THEN 0 ELSE 1)
          /\ replies[j].kind \in {"greeting", "return", "error"} =>
                \/ f[j] = 0 /\ replies[j].command = -1
                \/ f[j] \in DOMAIN client.sent /\ replies[j].command = client.sent[f[j]]
      BY <3>1 DEF Numbering
    <3> QED
      BY <1>8, <3>1, <3>2
  <2>4. up' => LET next == f[Len(replies) + 1]
               IN  /\ next >= 1
                   /\ next + Len(requests') = Len(client'.sent) + 1
                   /\ \A r \in DOMAIN requests' : requests'[r] = client'.sent[next + r - 1]
    BY <1>2, <1>8 DEF Numbering
  <2> QED
    BY <2>2, <2>3, <2>4
<1>9. CASE Head(replies).kind = "event" /\ UNCHANGED client
  <2>1. client'.sent = client.sent /\ client'.pc = "receive"
    BY <1>2, <1>9
  <2>2. Len(client'.sent) = g[1] + 1
    <3>1. g[1] = f[1]
      BY <1>3, <1>4, <1>5, <1>6, <1>9
    <3> QED
      BY <1>4, <2>1, <3>1
  <2>3. Numbering(g)'
    BY <1>7, <1>8, <1>12, <2>1, <2>2 DEF Numbering, At
  <2> QED
    BY <1>13, <2>1, <2>3
<1>10. CASE Dies("error") \/ Dies("partial")
  BY <1>10, StreamTypes, DiesType DEF Cause
<1>11. CASE Head(replies).kind \in {"greeting", "return"} /\ Returned(Head(replies))
  <2>1. client'.sent = client.sent /\ client'.pc # "receive"
    BY <1>2, <1>11, StreamTypes, ReturnedType
  <2>2. Len(client'.sent) = g[1]
    BY <1>4, <1>5, <1>6, <1>11, <2>1, StreamTypes
  <2>3. g[1] = g[1] + 0
    BY <1>3, <1>5
  <2>4. Numbering(g)'
    BY <1>7, <1>8, <1>12, <2>1, <2>2, <2>3 DEF Numbering, At
  <2> QED
    BY <1>13, <2>1, <2>4
<1> QED
  BY <1>9, <1>10, <1>11 DEF Receive

\* QEMU writes one more reply.
Grown(f, g, m) ==
    /\ g \in [1..(Len(replies') + 1) -> Nat]
    /\ g[1] = f[1] /\ f[Len(replies) + 1] \in Nat
    /\ g[Len(replies') + 1] =
           f[Len(replies) + 1] + (IF m.kind \in {"event", "partial"} THEN 0 ELSE 1)
    /\ \A i, j \in 1..(Len(replies') + 1) : i <= j => g[i] <= g[j]
    /\ \A i \in DOMAIN replies' :
          /\ g[i + 1] = g[i] + (IF replies'[i].kind \in {"event", "partial"} THEN 0 ELSE 1)
          /\ \/ /\ i \in DOMAIN replies /\ g[i] = f[i]
                /\ replies'[i] = replies[i]
             \/ /\ i = Len(replies) + 1 /\ g[i] = f[Len(replies) + 1]
                /\ replies'[i] = m

LEMMA StreamGrows ==
    ASSUME QmpInv, NEW f, Numbering(f), NEW m \in Reply, replies' = Append(replies, m)
    PROVE  \E g : Grown(f, g, m)
<1> DEFINE L == Len(replies)
           e == IF m.kind \in {"event", "partial"} THEN 0 ELSE 1
           g == [i \in 1..(L + 2) |-> IF i = L + 2 THEN f[L + 1] + e ELSE f[i]]
<1>1. /\ L \in Nat /\ DOMAIN replies = 1..L /\ e \in Nat
      /\ Len(replies') = L + 1 /\ replies'[L + 1] = m
      /\ \A i \in DOMAIN replies : i \in DOMAIN replies' /\ replies'[i] = replies[i]
      /\ \A i \in DOMAIN replies' : i \in DOMAIN replies \/ i = L + 1
  BY StreamTypes, Appended
<1>2. f \in [1..(L + 1) -> Nat]
  BY DEF Numbering
<1>3. f[L + 1] \in Nat
  BY <1>1, <1>2
<1> HIDE DEF e
<1>4. g \in [1..(L + 2) -> Nat]
  BY <1>1, <1>2, <1>3
<1>5. /\ g[L + 2] = f[L + 1] + e
      /\ \A i \in 1..(L + 1) : g[i] = f[i]
  BY <1>1
<1> HIDE DEF g
<1>6. g \in [1..(Len(replies') + 1) -> Nat] /\ g[1] = f[1]
      /\ g[Len(replies') + 1] = f[L + 1] + e
  BY <1>1, <1>4, <1>5
<1>7. ASSUME NEW i \in DOMAIN replies'
      PROVE  /\ g[i + 1] = g[i] + (IF replies'[i].kind \in {"event", "partial"} THEN 0 ELSE 1)
             /\ \/ /\ i \in DOMAIN replies /\ g[i] = f[i]
                   /\ replies'[i] = replies[i]
                \/ i = L + 1 /\ g[i] = f[L + 1] /\ replies'[i] = m
  <2>1. CASE i \in DOMAIN replies
    <3>1. g[i] = f[i] /\ g[i + 1] = f[i + 1] /\ replies'[i] = replies[i]
      BY <1>1, <1>5, <2>1
    <3> QED
      BY <2>1, <3>1 DEF Numbering
  <2>2. CASE i = L + 1
    <3>1. g[i] = f[L + 1] /\ g[i + 1] = f[L + 1] + e /\ replies'[i] = m
      BY <1>1, <1>5, <2>2
    <3> QED
      BY <2>2, <3>1 DEF e
  <2> QED
    BY <1>1, <2>1, <2>2
<1>8. \A i, j \in 1..(Len(replies') + 1) : i <= j => g[i] <= g[j]
  <2>1. \A i, j \in 1..(L + 1) : i <= j => f[i] <= f[j]
    BY DEF Numbering
  <2>2. \A i \in 1..(L + 2) : i \in 1..(L + 1) \/ i = L + 2
    BY <1>1
  <2>3. \A i \in 1..(L + 1) : f[i] <= f[L + 1] /\ f[i] \in Nat
    BY <1>1, <1>2, <2>1
  <2>4. ASSUME NEW i \in 1..(L + 2), NEW j \in 1..(L + 2), i <= j
        PROVE  g[i] <= g[j]
    <3>1. CASE j \in 1..(L + 1)
      BY <1>1, <1>5, <2>1, <2>4, <3>1
    <3>2. CASE i \in 1..(L + 1) /\ j = L + 2
      BY <1>1, <1>3, <1>5, <2>3, <3>2
    <3>3. CASE i = L + 2 /\ j = L + 2
      BY <1>1, <1>3, <1>5, <3>3
    <3> QED
      BY <1>1, <2>2, <2>4, <3>1, <3>2, <3>3
  <2> QED
    BY <1>1, <2>4
<1> QED
  BY <1>3, <1>6, <1>7, <1>8 DEF g, e, Grown

LEMMA StreamEvent ==
    ASSUME QmpInv, NEW f, Numbering(f), Event
    PROVE  \E g : Numbering(g)' /\ g[Len(replies') + 1] = f[Len(replies) + 1]
<1>1. /\ up /\ UNCHANGED <<client, up, requests>>
      /\ replies' = Append(replies, Message("event", -1))
  BY DEF Event
<1>2. Message("event", -1) \in Reply /\ Message("event", -1).kind = "event"
  BY DEF Message, Reply
<1> DEFINE L == Len(replies)
<1>3. PICK g : Grown(f, g, Message("event", -1))
  BY <1>1, <1>2, StreamGrows
<1>5. /\ g \in [1..(Len(replies') + 1) -> Nat] /\ g[1] = f[1]
      /\ g[Len(replies') + 1] = f[L + 1] + 0 /\ f[L + 1] \in Nat
      /\ \A i, j \in 1..(Len(replies') + 1) : i <= j => g[i] <= g[j]
      /\ \A i \in DOMAIN replies' :
            /\ g[i + 1] = g[i] + (IF replies'[i].kind \in {"event", "partial"} THEN 0 ELSE 1)
            /\ \/ i \in DOMAIN replies /\ g[i] = f[i] /\ replies'[i] = replies[i]
               \/ replies'[i] = Message("event", -1)
  BY <1>2, <1>3 DEF Grown
<1>6. g[Len(replies') + 1] = f[L + 1]
  BY <1>5
<1>7. Len(client'.sent) = g[1] + (IF At("receive")' THEN 1 ELSE 0)
  BY <1>1, <1>5 DEF Numbering, At
<1>8. \A i \in DOMAIN replies' :
          replies'[i].kind \in {"greeting", "return", "error"} =>
             \/ g[i] = 0 /\ replies'[i].command = -1
             \/ g[i] \in DOMAIN client'.sent /\ replies'[i].command = client'.sent[g[i]]
  <2>1. ASSUME NEW i \in DOMAIN replies,
               replies[i].kind \in {"greeting", "return", "error"}
        PROVE  \/ f[i] = 0 /\ replies[i].command = -1
               \/ f[i] \in DOMAIN client.sent /\ replies[i].command = client.sent[f[i]]
    BY <2>1 DEF Numbering
  <2> QED
    BY <1>1, <1>2, <1>5, <2>1
<1>9. LET next == g[Len(replies') + 1]
      IN  /\ next >= 1
          /\ next + Len(requests') = Len(client'.sent) + 1
          /\ \A r \in DOMAIN requests' : requests'[r] = client'.sent[next + r - 1]
  BY <1>1, <1>6 DEF Numbering
<1>10. Numbering(g)'
  BY <1>5, <1>7, <1>8, <1>9 DEF Numbering
<1> QED
  BY <1>6, <1>10

LEMMA StreamObey ==
    ASSUME QmpInv, NEW f, Numbering(f), Obey
    PROVE  /\ \E g : Numbering(g)' /\ g[Len(replies') + 1] = f[Len(replies) + 1] + 1
           /\ f[Len(replies) + 1] \in DOMAIN client.sent
           /\ Head(requests) = client.sent[f[Len(replies) + 1]]
<1>1. PICK m \in Reply : /\ replies' = Append(replies, m) /\ m.kind \in {"return", "error"}
                         /\ m.command = Head(requests)
  <2>1. PICK refuse \in BOOLEAN :
           replies' = Append(replies, Message(IF ~ refuse THEN "return" ELSE "error",
                                              Head(requests)))
    BY DEF Obey
  <2>2. PICK kind \in {"return", "error"} :
           replies' = Append(replies, Message(kind, Head(requests)))
    BY <2>1
  <2>3. Message(kind, Head(requests)) \in Reply
    BY ObeyFacts DEF Message, Reply
  <2> QED
    BY <2>2, <2>3 DEF Message
<1>2. /\ up /\ UNCHANGED <<client, up>> /\ requests # <<>> /\ requests' = Tail(requests)
  BY ObeyFacts
<1> DEFINE L == Len(replies)
           next == f[L + 1]
<1>4. PICK g : Grown(f, g, m)
  BY <1>1, StreamGrows
<1>3. /\ g \in [1..(Len(replies') + 1) -> Nat] /\ g[1] = f[1] /\ f[L + 1] \in Nat
      /\ \A i, j \in 1..(Len(replies') + 1) : i <= j => g[i] <= g[j]
      /\ \A i \in DOMAIN replies' :
            /\ g[i + 1] = g[i] + (IF replies'[i].kind \in {"event", "partial"} THEN 0 ELSE 1)
            /\ \/ i \in DOMAIN replies /\ g[i] = f[i] /\ replies'[i] = replies[i]
               \/ g[i] = f[L + 1] /\ replies'[i] = m
  BY <1>4 DEF Grown
<1>5. g[Len(replies') + 1] = f[L + 1] + 1
  BY <1>1, <1>4 DEF Grown
<1>6. /\ next \in Nat /\ next >= 1 /\ next + Len(requests) = Len(client.sent) + 1
      /\ \A r \in DOMAIN requests : requests[r] = client.sent[next + r - 1]
  BY <1>2, <1>3, <1>5 DEF Numbering
<1>7. /\ 1 \in DOMAIN requests /\ Head(requests) = requests[1] /\ Len(requests) >= 1
      /\ Len(requests') = Len(requests) - 1
      /\ \A r \in DOMAIN requests' : /\ r + 1 \in DOMAIN requests
                                     /\ requests'[r] = requests[r + 1] /\ r \in Nat
  BY <1>2, StreamTypes, Tailed
<1> HIDE DEF next
<1>8. next \in DOMAIN client.sent /\ m.command = client.sent[next]
  <2>1. requests[1] = client.sent[next + 1 - 1] /\ next + 1 - 1 = next
    BY <1>6, <1>7
  <2>2. next <= Len(client.sent)
    BY <1>6, <1>7, StreamTypes
  <2> QED
    BY <1>1, <1>6, <1>7, <2>1, <2>2, StreamTypes
<1>9. Len(client'.sent) = g[1] + (IF At("receive")' THEN 1 ELSE 0)
  BY <1>2, <1>3, <1>5 DEF Numbering, At
<1>10. \A i \in DOMAIN replies' :
          replies'[i].kind \in {"greeting", "return", "error"} =>
             \/ g[i] = 0 /\ replies'[i].command = -1
             \/ g[i] \in DOMAIN client'.sent /\ replies'[i].command = client'.sent[g[i]]
  <2>1. ASSUME NEW i \in DOMAIN replies,
               replies[i].kind \in {"greeting", "return", "error"}
        PROVE  \/ f[i] = 0 /\ replies[i].command = -1
               \/ f[i] \in DOMAIN client.sent /\ replies[i].command = client.sent[f[i]]
    BY <2>1 DEF Numbering
  <2> QED
    BY <1>2, <1>3, <1>5, <1>8, <2>1 DEF next
<1>11. /\ next + 1 >= 1
       /\ (next + 1) + Len(requests') = Len(client'.sent) + 1
  <2>1. /\ Len(requests) \in Nat /\ Len(client.sent) \in Nat
        /\ Len(requests') = Len(requests) - 1 /\ client'.sent = client.sent
        /\ next \in Nat /\ next + Len(requests) = Len(client.sent) + 1
    BY <1>2, <1>6, <1>7, StreamTypes
  <2> QED
    BY <2>1
<1>12. ASSUME NEW r \in DOMAIN requests'
       PROVE  requests'[r] = client'.sent[(next + 1) + r - 1]
  <2>1. requests[r + 1] = client.sent[next + (r + 1) - 1]
    BY <1>6, <1>7
  <2>2. r \in Nat /\ next \in Nat
    BY <1>6, <1>7
  <2>3. next + (r + 1) - 1 = (next + 1) + r - 1
    BY <2>2
  <2> QED
    BY <1>2, <1>7, <2>1, <2>3
<1>13. LET last == g[Len(replies') + 1]
       IN  /\ last >= 1
           /\ last + Len(requests') = Len(client'.sent) + 1
           /\ \A r \in DOMAIN requests' : requests'[r] = client'.sent[last + r - 1]
  BY <1>3, <1>5, <1>11, <1>12 DEF next
<1>14. Numbering(g)'
  BY <1>3, <1>5, <1>9, <1>10, <1>13 DEF Numbering
<1> QED
  BY <1>1, <1>3, <1>5, <1>8, <1>14 DEF next

\* What is left to read on a connection that is lost.
LEMMA StreamCut ==
    ASSUME QmpInv, QmpInv', NEW f, Numbering(f), Disconnect, UNCHANGED client
    PROVE  \E g : /\ Numbering(g)' /\ g[Len(replies') + 1] <= f[Len(replies) + 1]
                  /\ \A i \in DOMAIN replies :
                        \/ \E j \in DOMAIN replies' : replies'[j] = replies[i]
                        \/ f[i] >= g[Len(replies') + 1]
<1>3. PICK n \in 0..Len(replies) :
          \/ replies' = SubSeq(replies, 1, n)
          \/ replies' = Append(SubSeq(replies, 1, n), Message("partial", -1))
  BY DEF Disconnect
<1>4. /\ n \in Nat /\ Len(SubSeq(replies, 1, n)) = n /\ n <= Len(replies)
      /\ SubSeq(replies, 1, n) \in Seq(Reply)
      /\ \A i \in 1..n : i \in DOMAIN replies /\ SubSeq(replies, 1, n)[i] = replies[i]
  BY StreamTypes
<1>5. Message("partial", -1) \in Reply /\ Message("partial", -1).kind = "partial"
  BY DEF Message, Reply
<1>6. /\ Len(replies') \in {n, n + 1}
      /\ \A i \in DOMAIN replies' : /\ i \in 1..(n + 1)
                                    /\ \/ i \in 1..n /\ replies'[i] = replies[i]
                                       \/ i = n + 1 /\ replies'[i].kind = "partial"
  BY <1>3, <1>4, <1>5, Appended
<1>7. PICK g : g = [i \in 1..(Len(replies') + 1) |-> IF i = n + 2 THEN f[n + 1] ELSE f[i]]
  OBVIOUS
<1>8. f \in [1..(Len(replies) + 1) -> Nat]
  BY DEF Numbering
<1>9. /\ \A i \in 1..(Len(replies') + 1) : g[i] = IF i = n + 2 THEN f[n + 1] ELSE f[i]
      /\ \A i \in 1..(n + 1) : f[i] \in Nat /\ i \in 1..(Len(replies') + 1)
      /\ \A i \in 1..(Len(replies') + 1) : i \in 1..(n + 1) \/ i = n + 2
  BY <1>4, <1>6, <1>7, <1>8
<1>10. g \in [1..(Len(replies') + 1) -> Nat] /\ g[1] = f[1]
  BY <1>4, <1>7, <1>9
<1>11. ASSUME NEW i \in DOMAIN replies'
       PROVE  /\ g[i + 1] = g[i] + (IF replies'[i].kind \in {"event", "partial"} THEN 0 ELSE 1)
              /\ replies'[i].kind \in {"greeting", "return", "error"} =>
                    \/ g[i] = 0 /\ replies'[i].command = -1
                    \/ g[i] \in DOMAIN client'.sent /\ replies'[i].command = client'.sent[g[i]]
  <2>1. DOMAIN replies' = 1..Len(replies')
    BY SeqDomain DEF QmpInv, ScriptOrder, QmpTypeOK
  <2>2. i \in 1..(Len(replies') + 1) /\ i + 1 \in 1..(Len(replies') + 1)
    <3>1. Len(replies') \in Nat
      BY <1>4, <1>6
    <3> QED
      BY <2>1, <3>1
  <2>3. CASE i \in 1..n /\ replies'[i] = replies[i]
    <3>1. i # n + 2 /\ i + 1 # n + 2
      BY <1>4, <2>3
    <3>2. g[i] = f[i] /\ g[i + 1] = f[i + 1]
      BY <1>9, <2>2, <3>1
    <3>3. i \in DOMAIN replies
      BY <1>4, <2>3
    <3> QED
      BY <2>3, <3>2, <3>3 DEF Numbering
  <2>4. CASE i = n + 1 /\ replies'[i].kind = "partial"
    <3>1. i # n + 2 /\ i + 1 = n + 2
      BY <1>4, <2>4
    <3>2. g[i] = f[i] /\ g[i + 1] = f[n + 1]
      BY <1>9, <2>2, <3>1
    <3> QED
      BY <1>9, <2>4, <3>1, <3>2
  <2> QED
    BY <1>6, <2>3, <2>4
<1>12. Len(client'.sent) = g[1] + (IF At("receive")' THEN 1 ELSE 0)
  BY <1>10 DEF Numbering, At
<1>14. /\ \A i, j \in 1..(Len(replies') + 1) : i <= j => g[i] <= g[j]
       /\ \A i \in 1..(Len(replies') + 1) : g[i] <= f[Len(replies) + 1]
  <2>1. \A i, j \in 1..(Len(replies) + 1) : i <= j => f[i] <= f[j]
    BY DEF Numbering
  <2>2. /\ Len(replies) \in Nat
        /\ \A i \in 1..(n + 1) : /\ i \in 1..(Len(replies) + 1) /\ i # n + 2
                                 /\ i <= n + 1 /\ i <= Len(replies) + 1
        /\ n + 1 \in 1..(n + 1) /\ Len(replies) + 1 \in 1..(Len(replies) + 1)
    BY <1>4, StreamTypes
  <2>3. \A i \in 1..(n + 1) : f[i] <= f[n + 1] /\ f[i] <= f[Len(replies) + 1]
    BY <2>1, <2>2
  <2>4. \A i \in 1..(Len(replies') + 1) :
           \/ i \in 1..(n + 1) /\ g[i] = f[i]
           \/ i = n + 2 /\ g[i] = f[n + 1]
    BY <1>9, <2>2
  <2>5. ASSUME NEW i \in 1..(Len(replies') + 1), NEW j \in 1..(Len(replies') + 1), i <= j
        PROVE  g[i] <= g[j]
    <3>1. CASE i \in 1..(n + 1) /\ j \in 1..(n + 1)
      BY <2>1, <2>2, <2>4, <2>5, <3>1
    <3>2. CASE j = n + 2
      BY <1>9, <2>2, <2>3, <2>4, <3>2
    <3>3. CASE i = n + 2 /\ j \in 1..(n + 1)
      BY <1>4, <2>5, <3>3
    <3> QED
      BY <2>4, <3>1, <3>2, <3>3
  <2>6. \A i \in 1..(Len(replies') + 1) : g[i] <= f[Len(replies) + 1]
    BY <2>2, <2>3, <2>4
  <2> QED
    BY <2>5, <2>6
<1>13. Numbering(g)'
  BY <1>10, <1>11, <1>12, <1>14 DEF Numbering, Disconnect
<1>15. Len(replies') + 1 \in 1..(Len(replies') + 1)
  BY <1>4, <1>6
<1>16. ASSUME NEW i \in DOMAIN replies
       PROVE  \/ \E j \in DOMAIN replies' : replies'[j] = replies[i]
              \/ f[i] >= g[Len(replies') + 1]
  <2>1. i \in 1..Len(replies) /\ Len(replies) \in Nat
    BY StreamTypes
  <2>2. CASE i <= n
    <3>1. DOMAIN replies' = 1..Len(replies')
      BY SeqDomain DEF QmpInv, ScriptOrder, QmpTypeOK
    <3>2. \A k \in {n, n + 1} : i \in 1..k
      BY <1>4, <2>1, <2>2
    <3>3. Len(replies') \in {n, n + 1}
      BY <1>6
    <3>4. i \in 1..Len(replies')
      BY <3>2, <3>3
    <3>5. i # n + 1
      BY <1>4, <2>1, <2>2
    <3> QED
      BY <1>6, <3>1, <3>4, <3>5
  <2>3. CASE ~ i <= n
    <3>1. g[Len(replies') + 1] = f[n + 1]
      BY <1>4, <1>6, <1>9, <1>15
    <3>2. /\ n + 1 \in 1..(Len(replies) + 1) /\ i \in 1..(Len(replies) + 1)
          /\ n + 1 <= i
      BY <1>4, <2>1, <2>3
    <3>3. f[n + 1] <= f[i] /\ f[n + 1] \in Nat /\ f[i] \in Nat
      BY <1>8, <3>2 DEF Numbering
    <3> QED
      BY <3>1, <3>3
  <2> QED
    BY <2>2, <2>3
<1> QED
  BY <1>13, <1>14, <1>15, <1>16

\* The commands under way whose calls are over.
LEMMA Outstanding ==
    ASSUME QmpInv, Latest, Reads, up, NEW f, Numbering(f),
           NEW r \in DOMAIN requests, requests[r] \in 1..(client.item - 1)
    PROVE  r = 1 /\ client.pc \in {"send", "receive"} /\ Due(f) = f[1]
<1> DEFINE N == Len(client.sent)
           next == Due(f)
           L == Len(requests)
<1>1. /\ N \in Nat /\ L \in Nat /\ r \in 1..L /\ Len(replies) \in Nat /\ client \in Client
  BY StreamTypes
<1>2. f \in [1..(Len(replies) + 1) -> Nat] /\ f[1] <= next /\ next + L = N + 1
      /\ requests[r] = client.sent[next + r - 1]
  <2>1. \A i, j \in 1..(Len(replies) + 1) : i <= j => f[i] <= f[j]
    BY DEF Numbering
  <2>2. 1 \in 1..(Len(replies) + 1) /\ Len(replies) + 1 \in 1..(Len(replies) + 1)
        /\ 1 <= Len(replies) + 1
    BY <1>1
  <2> QED
    BY <2>1, <2>2 DEF Numbering, Due
<1>3. f[1] \in Nat /\ next \in Nat
  BY <1>1, <1>2 DEF Due
<1>4. client.item \in Nat
  BY StreamTypes, Numbers
<1>5. Command \notin 1..(client.item - 1) /\ client.item \notin 1..(client.item - 1)
  BY <1>4 DEF Command, Capabilities
<1> HIDE DEF next, N, L
<1>6. CASE client.pc = "receive"
  <2>1. N = f[1] + 1
    BY <1>6 DEF Numbering, At, N
  <2>2. requests[r] # client.sent[N]
    BY <1>5, <1>6 DEF Latest, At, N
  <2>3. next + r - 1 # N
    BY <1>2, <2>2
  <2> QED
    BY <1>1, <1>2, <1>3, <1>6, <2>1, <2>3 DEF next
<1>7. CASE client.pc = "send"
  <2>1. N = f[1] + 0
    BY <1>7 DEF Numbering, At, N
  <2> QED
    BY <1>1, <1>2, <1>3, <1>7, <2>1 DEF next
<1>8. CASE client.pc \in {"next", "check", "poll"}
  <2>1. N = f[1] + 0
    BY <1>8 DEF Numbering, At, N
  <2>2. requests[r] # client.sent[N]
    BY <1>5, <1>8 DEF Latest, N
  <2>3. next + r - 1 # N
    BY <1>2, <2>2
  <2> QED
    BY <1>1, <1>2, <1>3, <2>1, <2>3
<1> QED
  BY <1>6, <1>7, <1>8 DEF Reads

LEMMA BehindIsOne ==
    ASSUME QmpInv, LossInv
    PROVE  OneBehind
<1>1. CASE ~ up
  BY <1>1 DEF OneBehind, QmpInv, ClientHolds
<1>2. CASE up /\ Reads
  BY <1>2, Outstanding DEF LossInv, Stream, OneBehind
<1> QED
  BY <1>1, <1>2 DEF LossInv

\* The command of a call that is over has been seen, or is under way.
LEMMA Current ==
    ASSUME QmpInv, Latest, NEW f, Numbering(f), Answered(f),
           client.pc \in {"next", "check"}, up \/ f[1] < Due(f)
    PROVE  \/ client.item = 0 \/ client.item \in ToSet(qemu.seen)
           \/ client.item \in ToSet(requests)
<1> DEFINE N == Len(client.sent)
<1>1. N \in Nat /\ f[1] \in Nat /\ N = f[1] /\ Due(f) \in Nat
      /\ DOMAIN client.sent = 1..N /\ Len(requests) \in Nat
      /\ DOMAIN requests = 1..Len(requests)
  <2>1. f \in [1..(Len(replies) + 1) -> Nat] /\ Len(client.sent) = f[1] + 0
    BY DEF Numbering, At
  <2>2. f[1] \in Nat /\ Due(f) \in Nat
    BY <2>1, StreamTypes DEF Due
  <2> QED
    BY <2>1, <2>2, StreamTypes
<1>2. client.sent[N] = client.item /\ N >= 1
  BY DEF Latest
<1>3. up => /\ Due(f) >= 1 /\ Due(f) + Len(requests) = N + 1
            /\ \A r \in DOMAIN requests : requests[r] = client.sent[Due(f) + r - 1]
  BY DEF Numbering, Due
<1>4. CASE N < Due(f)
  <2>1. N \in DOMAIN client.sent
    BY <1>1, <1>2
  <2> QED
    BY <1>2, <1>4, <2>1 DEF Answered, Capabilities
<1>5. CASE ~ N < Due(f)
  <2>1. up /\ Len(requests) >= 1 /\ Due(f) + Len(requests) - 1 = N
        /\ Len(requests) \in DOMAIN requests
    BY <1>1, <1>3, <1>5
  <2>2. requests[Len(requests)] = client.item
    BY <1>2, <1>3, <2>1
  <2> QED
    BY <2>1, <2>2 DEF ToSet
<1> QED
  BY <1>4, <1>5

LEMMA UnnoticedFinite ==
    ASSUME QmpInv
    PROVE  IsFiniteSet(Unnoticed) /\ Cardinality(Unnoticed) \in Nat /\ Losses \in Int
<1>1. client.item - 1 \in Int /\ qemu.drops \in Nat
  BY StreamTypes, Numbers DEF QmpInv, ScriptOrder, QmpTypeOK, Qemu
<1>2. IsFiniteSet(1..(client.item - 1))
  BY <1>1, FS_Interval
<1>3. Unnoticed \subseteq 1..(client.item - 1)
  BY DEF Unnoticed
<1>4. IsFiniteSet(Unnoticed)
  BY <1>2, <1>3, FS_Subset
<1> QED
  BY <1>1, <1>4, FS_CardinalityType DEF Losses

\* One command more.
LEMMA OneMore ==
    ASSUME NEW S, IsFiniteSet(S), NEW x, NEW T, T \subseteq S \union {x}
    PROVE  Cardinality(T) <= Cardinality(S) + 1 /\ Cardinality(T) \in Nat
<1>1. /\ IsFiniteSet(S \union {x}) /\ Cardinality(S) \in Nat
      /\ Cardinality(S \union {x}) \in Nat
      /\ Cardinality(S \union {x}) <= Cardinality(S) + 1
  BY FS_AddElement, FS_CardinalityType
<1>2. Cardinality(T) <= Cardinality(S \union {x}) /\ IsFiniteSet(T)
  BY <1>1, FS_Subset
<1>3. Cardinality(T) \in Nat
  BY <1>2, FS_CardinalityType
<1> QED
  BY <1>1, <1>2, <1>3


\* What a step keeps that leaves the connection, the machine and the item.
LEMMA UnnoticedKept ==
    ASSUME QmpInv, client'.item = client.item, qemu'.seen = qemu.seen,
           ToSet(requests') \ ToSet(requests) \subseteq {Capabilities, client.item},
           ToSet(requests) \subseteq ToSet(requests')
    PROVE  Unnoticed' = Unnoticed
<1>1. client.item \in Nat
  BY StreamTypes, Numbers
<1>2. \A c \in 1..(client.item - 1) : c # Capabilities /\ c # client.item
  BY <1>1 DEF Capabilities
<1> HIDE DEF Capabilities
<1> QED
  BY <1>2 DEF Unnoticed

\* The call fails, or is to reconnect.
LEMMA LossLeft ==
    ASSUME QmpInv, LossInv, UNCHANGED <<up, requests, qemu>>, client'.item = client.item,
           client'.pc \in {"connect", "reopen", "done", "failed"}
    PROVE  LossInv'
<1>1. Unnoticed' = Unnoticed
  BY UnnoticedKept
<1>2. OneBehind'
  BY BehindIsOne DEF OneBehind
<1> QED
  BY <1>1, <1>2 DEF LossInv, LossBound, Stream, Reads, Latest, At

\* The call goes on, with the replies still to be read numbered by g.
LEMMA LossOn ==
    ASSUME QmpInv, LossInv, UNCHANGED <<up, qemu>>, Unnoticed' = Unnoticed,
           NEW g, Numbering(g)', Answered(g)', Paid(g)', Latest', Reads'
    PROVE  LossInv'
BY DEF LossInv, LossBound, Stream

LEMMA LossReopened ==
    ASSUME QmpInv, LossInv, Connect \/ Reopen
    PROVE  LossInv'
<1>1. /\ Opened(<<>>) /\ requests' = <<>> /\ up' /\ qemu.alive /\ qemu'.alive
      /\ qemu'.seen = qemu.seen /\ qemu'.drops = qemu.drops
      /\ \/ client' = [client EXCEPT !.pc = "send", !.retry = TRUE, !.sent = <<>>]
         \/ client' = [client EXCEPT !.pc = "send", !.again = TRUE, !.sent = <<>>]
  BY OpenedFacts DEF Connect, Reopen
<1>2. client'.sent = <<>> /\ client'.pc = "send" /\ client'.item = client.item
  BY <1>1, StreamTypes DEF Client
<1>3. PICK g : Numbering(g)' /\ g[1] = 0 /\ g[Len(replies') + 1] = 1
  BY <1>1, <1>2, StreamOpened
<1>4. Answered(g)'
  BY <1>2, <1>3 DEF Answered, Due
<1>5. LossBound'
  <2>1. CASE client.item = 0
    <3>1. Unnoticed' = {}
      BY <1>2, <2>1 DEF Unnoticed
    <3>2. qemu.drops \in Nat
      BY DEF QmpInv, ScriptOrder, QmpTypeOK, Qemu
    <3> QED
      BY <1>1, <3>1, <3>2, FS_EmptySet DEF LossBound
  <2>2. CASE client.item # 0
    <3>1. requests = <<>>
      BY <2>2 DEF Connect, Reopen, QmpInv, ClientHolds, At
    <3>2. Unnoticed' = Unnoticed
      BY <1>1, <1>2, <3>1 DEF Unnoticed
    <3> QED
      BY <1>1, <3>2 DEF LossInv, LossBound
  <2> QED
    BY <2>1, <2>2
<1>6. Paid(g)' /\ Latest'
  BY <1>1, <1>2 DEF Paid, Latest, At
<1> QED
  BY <1>1, <1>2, <1>3, <1>4, <1>5, <1>6 DEF LossInv, Stream, Reads

LEMMA LossSend ==
    ASSUME QmpInv, QmpInv', LossInv, Send
    PROVE  LossInv'
<1>1. /\ client.pc = "send" /\ UNCHANGED <<up, qemu, replies>>
      /\ client' = [client EXCEPT !.pc = "receive", !.sent = Append(client.sent, Command)]
      /\ up => requests' = Append(requests, Command)
      /\ ~ up => requests' = requests
  BY DEF Send, At
<1>2. PICK f : Numbering(f) /\ Answered(f) /\ Paid(f)
  BY <1>1 DEF LossInv, Stream, Reads
<1>3. /\ client'.pc = "receive" /\ client'.sent = Append(client.sent, Command)
      /\ client'.item = client.item /\ client'.again = client.again
      /\ Command \in Items \union {Capabilities}
  BY <1>1, StreamTypes, CommandType DEF Client
<1>4. /\ Len(client'.sent) = Len(client.sent) + 1
      /\ client'.sent[Len(client.sent) + 1] = Command
      /\ \A i \in DOMAIN client.sent : client'.sent[i] = client.sent[i]
      /\ \A i \in DOMAIN client'.sent : i \in DOMAIN client.sent \/ i = Len(client.sent) + 1
  BY <1>3, StreamTypes, Appended
<1>5. Numbering(f)'
  BY <1>2, StreamSend
<1>6. Unnoticed' = Unnoticed
  <2>1. CASE ~ up
    BY <1>1, <1>3, <2>1, UnnoticedKept
  <2>2. CASE up
    <3>1. ToSet(requests') = ToSet(requests) \union {Command}
      <4>1. /\ DOMAIN requests' = 1..(Len(requests) + 1) /\ Len(requests) \in Nat
            /\ requests'[Len(requests) + 1] = Command
            /\ \A i \in 1..Len(requests) : requests'[i] = requests[i]
            /\ DOMAIN requests = 1..Len(requests)
        BY <1>1, <2>2, StreamTypes
      <4> QED
        BY <4>1 DEF ToSet
    <3>2. Command \in {Capabilities, client.item}
      BY DEF Command
    <3> QED
      BY <1>1, <1>3, <3>1, <3>2, UnnoticedKept
  <2> QED
    BY <2>1, <2>2
<1>7. Answered(f)'
  <2>1. Due(f)' = Due(f) /\ Due(f) <= Len(client.sent) + 1 /\ Due(f) \in Nat
    <3>1. f \in [1..(Len(replies) + 1) -> Nat]
      BY <1>2 DEF Numbering
    <3> QED
      BY <1>1, <1>2, <3>1, StreamTypes DEF Due, Answered
  <2>2. Due(f)' <= Len(client'.sent) + 1
    BY <1>4, <2>1, StreamTypes
  <2>3. ASSUME NEW p \in DOMAIN client'.sent, p < Due(f)'
        PROVE  client'.sent[p] = Capabilities \/ client'.sent[p] \in ToSet(qemu'.seen)
    <3>1. p \in DOMAIN client.sent
      BY <1>4, <2>1, <2>3, StreamTypes
    <3> QED
      BY <1>1, <1>2, <1>4, <2>1, <2>3, <3>1 DEF Answered
  <2> QED
    BY <2>2, <2>3 DEF Answered
<1>8. Paid(f)'
  BY <1>1, <1>2, <1>3, <1>6 DEF Paid, Due, Losses
<1>9. Latest'
  BY <1>3, <1>4 DEF Latest, At, Command
<1> QED
  BY <1>1, <1>3, <1>5, <1>6, <1>7, <1>8, <1>9, LossOn DEF Reads

LEMMA LossReceive ==
    ASSUME QmpInv, LossInv, Receive
    PROVE  LossInv'
<1>1. /\ client.pc = "receive" /\ replies # <<>> /\ Head(replies) \in Reply
      /\ UNCHANGED <<up, requests, qemu>>
  BY StreamTypes DEF Receive, At
<1>2. PICK f : Numbering(f) /\ Answered(f) /\ Paid(f)
  BY <1>1 DEF LossInv, Stream, Reads
<1>3. client'.item = client.item
  BY <1>1, StreamTypes, DiesType, ReturnedType DEF Receive, Cause
<1>4. CASE client'.pc = "failed"
  BY <1>1, <1>3, <1>4, LossLeft
<1>5. CASE client'.pc # "failed"
  <2>1. client'.sent = client.sent
    BY <1>2, <1>5, StreamReceive
  <2>2. PICK g : Numbering(g)' /\ g[Len(replies') + 1] = f[Len(replies) + 1]
    BY <1>2, <1>5, StreamReceive
  <2>3. Unnoticed' = Unnoticed
    BY <1>1, <1>3, UnnoticedKept
  <2>4. Answered(g)'
    BY <1>1, <1>2, <2>1, <2>2 DEF Answered, Due
  <2>5. Len(client.sent) = f[1] + 1 /\ f[1] \in Nat
    <3>1. f \in [1..(Len(replies) + 1) -> Nat] /\ Len(client.sent) = f[1] + 1
      BY <1>1, <1>2 DEF Numbering, At
    <3> QED
      BY <3>1, StreamTypes
  <2>6. CASE UNCHANGED client
    <3>1. g[1] = f[1]
      <4>1. g \in [1..(Len(replies') + 1) -> Nat] /\ Len(client'.sent) = g[1] + 1
        BY <1>1, <2>2, <2>6 DEF Numbering, At
      <4>2. Len(replies') \in Nat
        BY <1>1, StreamTypes DEF Receive
      <4>3. g[1] \in Nat
        BY <4>1, <4>2
      <4> QED
        BY <2>1, <2>5, <4>1, <4>3
    <3>2. Paid(g)'
      BY <1>1, <1>2, <2>2, <2>3, <2>6, <3>1 DEF Paid, Due, Losses
    <3>3. Latest' /\ Reads'
      BY <1>1, <2>6 DEF LossInv, Latest, At, Command, Reads
    <3> QED
      BY <1>1, <2>2, <2>3, <2>4, <3>2, <3>3, LossOn
  <2>7. CASE Returned(Head(replies))
    <3>1. /\ client'.pc \in {"send", "next", "check", "poll"}
          /\ client'.pc # "send" => ~ client.again
      BY <1>1, <2>7, StreamTypes, ReturnedType
    <3>2. Due(f) # f[1]
      <4>1. g \in [1..(Len(replies') + 1) -> Nat] /\ Len(client'.sent) = g[1] + 0
        BY <2>2, <3>1 DEF Numbering, At
      <4>2. \A i, j \in 1..(Len(replies') + 1) : i <= j => g[i] <= g[j]
        BY <2>2 DEF Numbering
      <4>3. Len(replies') \in Nat
        BY <1>1, StreamTypes DEF Receive
      <4>4. g[1] \in Nat /\ g[1] <= g[Len(replies') + 1] /\ g[Len(replies') + 1] \in Nat
        BY <4>1, <4>2, <4>3
      <4> QED
        BY <2>1, <2>2, <2>5, <4>1, <4>4 DEF Due
    <3>3. ~ up => Cardinality(Unnoticed) + 1 <= Losses
      BY <1>2, <3>2 DEF Paid
    <3>4. Paid(g)'
      BY <1>1, <2>3, <3>3, UnnoticedFinite DEF Paid, Losses
    <3>5. Latest' /\ Reads'
      BY <1>1, <1>3, <2>1, <2>5, <3>1 DEF LossInv, Latest, At, Command, Reads
    <3> QED
      BY <1>1, <2>2, <2>3, <2>4, <3>4, <3>5, LossOn
  <2> QED
    BY <1>1, <1>5, <2>6, <2>7, StreamTypes, DiesType DEF Receive, Cause
<1> QED
  BY <1>4, <1>5

LEMMA LossItem ==
    ASSUME QmpInv, LossInv, Convert \/ PollFails \/ Finish
    PROVE  LossInv'
<1>1. /\ client.pc \in {"poll", "check"} /\ client'.sent = client.sent
      /\ client'.item = client.item /\ UNCHANGED <<up, requests, replies, qemu>>
      /\ \/ client'.pc \in {"done", "failed"}
         \/ client'.pc \in {"next", "check"}
  BY StreamTypes DEF Convert, PollFails, Finish, Dies, At, Client
<1>2. CASE client'.pc \in {"done", "failed"}
  BY <1>1, <1>2, LossLeft
<1>3. CASE client'.pc \in {"next", "check"}
  <2>1. PICK f : Numbering(f) /\ Answered(f) /\ Paid(f)
    BY <1>1 DEF LossInv, Stream, Reads
  <2>2. Numbering(f)' /\ Answered(f)'
    BY <1>1, <1>3, <2>1, StreamKept DEF Answered, Due
  <2>3. Unnoticed' = Unnoticed
    BY <1>1, UnnoticedKept
  <2>4. Paid(f)'
    BY <1>1, <1>3, <2>1, <2>3 DEF Paid, Losses
  <2>5. Latest' /\ Reads'
    BY <1>1, <1>3 DEF LossInv, Latest, At, Reads
  <2> QED
    BY <1>1, <2>2, <2>3, <2>4, <2>5, LossOn
<1> QED
  BY <1>1, <1>2, <1>3

LEMMA LossContinue ==
    ASSUME QmpInv, LossInv, Continue
    PROVE  LossInv'
<1>1. /\ client.pc \in {"next", "check"} /\ client'.pc = "send"
      /\ client'.sent = client.sent /\ client'.item = client.item + 1
      /\ UNCHANGED <<up, requests, replies, qemu>>
  BY StreamTypes DEF Continue, NextItem, At, Client
<1>2. PICK f : Numbering(f) /\ Answered(f) /\ Paid(f)
  BY <1>1 DEF LossInv, Stream, Reads
<1>3. Numbering(f)' /\ Answered(f)' /\ Latest' /\ Reads'
  BY <1>1, <1>2, StreamKept DEF Answered, Due, Latest, At, Reads
<1>4. client.item \in Nat
  BY StreamTypes, Numbers
<1>5. /\ 1..(client.item - 1) \subseteq 1..(client'.item - 1)
      /\ 1..(client'.item - 1) \subseteq 1..(client.item - 1) \union {client.item}
  <2>1. client'.item - 1 = client.item
    BY <1>1, <1>4
  <2> QED
    BY <1>4, <2>1
<1>6. Unnoticed \subseteq Unnoticed' /\ Unnoticed' \subseteq Unnoticed \union {client.item}
  <2> DEFINE Old == 1..(client.item - 1)
             New == 1..(client'.item - 1)
  <2>1. Old \subseteq New /\ New \subseteq Old \union {client.item}
    BY <1>5
  <2>2. /\ Unnoticed = {c \in Old : ~ \E i \in DOMAIN qemu.seen : qemu.seen[i] = c}
                            \ ToSet(requests)
        /\ Unnoticed' = {c \in New : ~ \E i \in DOMAIN qemu.seen : qemu.seen[i] = c}
                            \ ToSet(requests)
    BY <1>1 DEF Unnoticed, ToSet
  <2> HIDE DEF Old, New
  <2> QED
    BY <2>1, <2>2
<1>7. ASSUME up \/ f[1] < Due(f)
      PROVE  Unnoticed' = Unnoticed
  <2>1. \/ client.item = 0 \/ client.item \in ToSet(qemu.seen)
        \/ client.item \in ToSet(requests)
    BY <1>1, <1>2, <1>7, Current DEF LossInv
  <2>2. client.item \notin Unnoticed'
    <3>1. CASE client.item = 0
      BY <1>1, <3>1 DEF Unnoticed
    <3>2. CASE client.item \in ToSet(qemu.seen) \/ client.item \in ToSet(requests)
      BY <1>1, <3>2 DEF Unnoticed, ToSet
    <3> QED
      BY <2>1, <3>1, <3>2
  <2> QED
    BY <1>6, <2>2
<1>8. f[1] \in Nat /\ Due(f) \in Nat /\ f[1] <= Due(f)
  <2>1. /\ f \in [1..(Len(replies) + 1) -> Nat]
        /\ \A i, j \in 1..(Len(replies) + 1) : i <= j => f[i] <= f[j]
    BY <1>2 DEF Numbering
  <2>2. /\ 1 \in 1..(Len(replies) + 1) /\ Len(replies) + 1 \in 1..(Len(replies) + 1)
        /\ 1 <= Len(replies) + 1
    BY StreamTypes
  <2> QED
    BY <2>1, <2>2 DEF Due
<1>9. /\ Cardinality(Unnoticed) \in Nat /\ IsFiniteSet(Unnoticed) /\ Losses \in Int
      /\ Cardinality(Unnoticed') <= Cardinality(Unnoticed) + 1
      /\ Cardinality(Unnoticed') \in Nat
  BY <1>6, UnnoticedFinite, OneMore
<1>10. ~ up => Cardinality(Unnoticed) + 1 <= Losses
  BY <1>1, <1>2 DEF Paid
<1>11. LossBound'
  BY <1>1, <1>7, <1>9, <1>10 DEF LossInv, LossBound, Losses
<1>12. Paid(f)'
  <2>1. Due(f)' = Due(f) /\ Losses' = Losses
    BY <1>1 DEF Due, Losses
  <2>2. CASE Due(f) = f[1]
    BY <1>1, <1>9, <1>10, <2>1, <2>2 DEF Paid
  <2>3. CASE Due(f) # f[1]
    BY <1>1, <1>7, <1>8, <1>10, <2>1, <2>3 DEF Paid
  <2> QED
    BY <2>2, <2>3
<1> QED
  BY <1>1, <1>3, <1>11, <1>12 DEF LossInv, Stream

LEMMA LossObey ==
    ASSUME QmpInv, LossInv, Obey
    PROVE  LossInv'
<1> DEFINE c == Head(requests)
<1>1. /\ up /\ UNCHANGED <<client, up>> /\ requests # <<>> /\ requests' = Tail(requests)
      /\ qemu'.drops = qemu.drops /\ qemu'.alive = qemu.alive
      /\ c = Capabilities => qemu'.seen = qemu.seen
      /\ c # Capabilities => qemu'.seen = Append(qemu.seen, c)
  BY ObeyFacts
<1>2. /\ 1 \in DOMAIN requests /\ c = requests[1] /\ DOMAIN requests = 1..Len(requests)
      /\ DOMAIN requests' = 1..(Len(requests) - 1) /\ Len(requests) \in Nat
      /\ \A r \in DOMAIN requests' : r + 1 \in DOMAIN requests
                                     /\ requests'[r] = requests[r + 1]
  BY <1>1, StreamTypes
<1>3. ToSet(requests) = ToSet(requests') \union {c}
  <2>1. \A r \in DOMAIN requests :
           r = 1 \/ (r - 1 \in DOMAIN requests' /\ requests'[r - 1] = requests[r])
    BY <1>2
  <2> QED
    BY <1>2, <2>1 DEF ToSet
<1>4. c # Capabilities => ToSet(qemu'.seen) = ToSet(qemu.seen) \union {c}
  <2>1. qemu.seen \in Seq(Items)
    BY DEF QmpInv, ScriptOrder, QmpTypeOK, Qemu
  <2>2. ASSUME c # Capabilities
        PROVE  /\ DOMAIN qemu'.seen = 1..(Len(qemu.seen) + 1) /\ Len(qemu.seen) \in Nat
               /\ qemu'.seen[Len(qemu.seen) + 1] = c
               /\ \A i \in 1..Len(qemu.seen) : qemu'.seen[i] = qemu.seen[i]
               /\ DOMAIN qemu.seen = 1..Len(qemu.seen)
    <3>1. c \in Items
      BY <2>2, ObeyFacts
    <3> QED
      BY <1>1, <2>1, <2>2, <3>1
  <2> QED
    BY <2>2 DEF ToSet
<1>5. Unnoticed' = Unnoticed
  <2>1. client.item \in Nat
    BY StreamTypes, Numbers
  <2>2. \A x \in 1..(client.item - 1) : x # Capabilities
    BY <2>1 DEF Capabilities
  <2>3. \A x : (\E i \in DOMAIN qemu.seen : qemu.seen[i] = x) <=> x \in ToSet(qemu.seen)
    BY DEF ToSet
  <2>4. \A x : (\E i \in DOMAIN qemu'.seen : qemu'.seen[i] = x) <=> x \in ToSet(qemu'.seen)
    BY DEF ToSet
  <2>5. CASE c = Capabilities
    BY <1>1, <1>3, <2>2, <2>5 DEF Unnoticed
  <2>6. CASE c # Capabilities
    BY <1>1, <1>3, <1>4, <2>3, <2>4, <2>6 DEF Unnoticed
  <2> QED
    BY <2>5, <2>6
<1>6. LossBound' /\ Latest' /\ (up' => qemu'.alive)
  BY <1>1, <1>5 DEF LossInv, LossBound, Latest, At, Command
<1>7. ~ Reads' => OneBehind'
  <2>1. \A r, q \in DOMAIN requests' : r + 1 = q + 1 => r = q
    BY <1>2
  <2>2. OneBehind
    BY BehindIsOne
  <2> QED
    BY <1>1, <1>2, <2>1, <2>2 DEF OneBehind
<1>8. Stream'
  <2>1. CASE ~ Reads
    BY <1>1, <2>1 DEF Stream, Reads
  <2>2. CASE Reads
    <3>1. PICK f : Numbering(f) /\ Answered(f)
      BY <2>2 DEF LossInv, Stream
    <3>2. PICK g : Numbering(g)' /\ g[Len(replies') + 1] = f[Len(replies) + 1] + 1
      BY <3>1, StreamObey
    <3>3. Due(f) \in DOMAIN client.sent /\ c = client.sent[Due(f)]
      BY <3>1, StreamObey DEF Due
    <3>4. /\ DOMAIN client.sent = 1..Len(client.sent) /\ Len(client.sent) \in Nat
          /\ Due(f) \in 1..Len(client.sent)
      BY <3>3, StreamTypes
    <3>5. \A p \in DOMAIN client.sent : p < Due(f) + 1 => p < Due(f) \/ p = Due(f)
      BY <3>4
    <3>6. c = Capabilities \/ c \in ToSet(qemu'.seen)
      BY <1>4
    <3>7. \A x \in ToSet(qemu.seen) : x \in ToSet(qemu'.seen)
      BY <1>1, <1>4
    <3>8. Answered(g)'
      <4>1. Due(g)' = Due(f) + 1
        BY <3>2 DEF Due
      <4>2. Due(g)' <= Len(client.sent) + 1
        BY <3>4, <4>1
      <4>3. \A p \in DOMAIN client.sent : p < Due(g)' =>
               client.sent[p] = Capabilities \/ client.sent[p] \in ToSet(qemu'.seen)
        BY <3>1, <3>3, <3>5, <3>6, <3>7, <4>1 DEF Answered
      <4> QED
        BY <1>1, <4>2, <4>3 DEF Answered
    <3>9. Paid(g)'
      BY <1>1 DEF Paid
    <3> QED
      BY <3>2, <3>8, <3>9 DEF Stream
  <2> QED
    BY <2>1, <2>2
<1> QED
  BY <1>6, <1>7, <1>8 DEF LossInv

LEMMA LossEvent ==
    ASSUME QmpInv, LossInv, Event
    PROVE  LossInv'
<1>1. /\ up /\ UNCHANGED <<client, up, requests>> /\ qemu'.seen = qemu.seen
      /\ qemu'.drops = qemu.drops /\ qemu'.alive = qemu.alive
  BY DEF Event, QmpInv, ScriptOrder, QmpTypeOK, Qemu
<1>2. Unnoticed' = Unnoticed
  BY <1>1, UnnoticedKept
<1>3. Stream'
  <2>1. CASE ~ Reads
    BY <1>1, <2>1 DEF Stream, Reads
  <2>2. CASE Reads
    <3>1. PICK f : Numbering(f) /\ Answered(f)
      BY <2>2 DEF LossInv, Stream
    <3>2. PICK g : Numbering(g)' /\ g[Len(replies') + 1] = f[Len(replies) + 1]
      BY <3>1, StreamEvent
    <3> QED
      BY <1>1, <3>1, <3>2 DEF Stream, Answered, Due, Paid
  <2> QED
    BY <2>1, <2>2
<1> QED
  BY <1>1, <1>2, <1>3, BehindIsOne
     DEF LossInv, LossBound, Latest, At, Command, OneBehind

LEMMA LossWriteDump ==
    ASSUME QmpInv, LossInv, WriteDump
    PROVE  LossInv'
<1>1. /\ UNCHANGED <<client, up, requests, replies>> /\ qemu'.seen = qemu.seen
      /\ qemu'.drops = qemu.drops /\ qemu'.alive = qemu.alive
  BY DEF WriteDump, QmpInv, ScriptOrder, QmpTypeOK, Qemu
<1>2. Unnoticed' = Unnoticed
  BY <1>1, UnnoticedKept
<1>3. Stream'
  <2>1. CASE ~ Reads
    BY <1>1, <2>1 DEF Stream, Reads
  <2>2. CASE Reads
    <3>1. PICK f : Numbering(f) /\ Answered(f) /\ Paid(f)
      BY <2>2 DEF LossInv, Stream
    <3>2. Numbering(f)'
      BY <1>1, <3>1, StreamKept
    <3> QED
      BY <1>1, <1>2, <3>1, <3>2 DEF Stream, Answered, Due, Paid, Losses
  <2> QED
    BY <2>1, <2>2
<1> QED
  BY <1>1, <1>2, <1>3, BehindIsOne
     DEF LossInv, LossBound, Latest, At, Command, OneBehind

\* A connection is lost, and one command with it at most.
LEMMA LossCut ==
    ASSUME QmpInv, QmpInv', LossInv, Drop \/ QemuExits
    PROVE  LossInv'
<1>1. /\ Disconnect /\ UNCHANGED client /\ qemu'.seen = qemu.seen
      /\ ~ up' /\ requests' = <<>> /\ qemu.drops \in Nat
      /\ \/ Drop /\ qemu'.drops = qemu.drops + 1 /\ qemu'.alive = qemu.alive /\ up
         \/ qemu'.drops = qemu.drops /\ qemu.alive /\ ~ qemu'.alive
  BY Cut DEF Drop, QemuExits, QmpInv, ScriptOrder, QmpTypeOK, Qemu
<1>2. Losses' = Losses + 1 /\ Losses \in Int
  BY <1>1 DEF Losses, LossInv
<1>3. OneBehind
  BY BehindIsOne
<1> DEFINE Behind == {r \in DOMAIN requests : requests[r] \in 1..(client.item - 1)}
<1>4. Unnoticed' \subseteq Unnoticed \union {requests[r] : r \in Behind}
  BY <1>1 DEF Unnoticed, ToSet
<1>5. Behind = {} => Unnoticed' \subseteq Unnoticed
  BY <1>4
<1>6. /\ Cardinality(Unnoticed) \in Nat /\ IsFiniteSet(Unnoticed)
      /\ Cardinality(Unnoticed) <= Losses
  BY UnnoticedFinite DEF LossInv, LossBound, Losses
<1>7. /\ Cardinality(Unnoticed') <= Cardinality(Unnoticed) + 1
      /\ Cardinality(Unnoticed') \in Nat
  <2>1. CASE Behind = {}
    BY <1>5, <1>6, <2>1, OneMore
  <2>2. CASE Behind # {}
    <3>1. PICK r \in Behind : TRUE
      BY <2>2
    <3>2. Behind = {r}
      BY <1>3, <3>1 DEF OneBehind
    <3>3. Unnoticed' \subseteq Unnoticed \union {requests[r]}
      BY <1>4, <3>2
    <3> QED
      BY <1>6, <3>3, OneMore
  <2> QED
    BY <2>1, <2>2
<1>8. Behind = {} => Cardinality(Unnoticed') <= Cardinality(Unnoticed)
  BY <1>5, <1>6, FS_Subset
<1>9. LossBound'
  BY <1>2, <1>6, <1>7 DEF LossBound, Losses
<1>10. Stream'
  <2>1. CASE ~ Reads
    BY <1>1, <2>1 DEF Stream, Reads
  <2>2. CASE Reads
    <3>1. PICK f : Numbering(f) /\ Answered(f) /\ Paid(f)
      BY <2>2 DEF LossInv, Stream
    <3>2. PICK g : Numbering(g)' /\ g[Len(replies') + 1] <= f[Len(replies) + 1]
      BY <1>1, <3>1, StreamCut
    <3>3. /\ g[1] \in Nat /\ Due(g)' \in Nat /\ g[1] <= Due(g)'
          /\ f[1] \in Nat /\ Due(f) \in Nat /\ g[1] = f[1] /\ Due(g)' <= Due(f)
      <4>1. /\ g \in [1..(Len(replies') + 1) -> Nat]
            /\ Len(client.sent) = g[1] + (IF At("receive") THEN 1 ELSE 0)
            /\ \A i, j \in 1..(Len(replies') + 1) : i <= j => g[i] <= g[j]
        BY <1>1, <3>2 DEF Numbering, At
      <4>2. /\ f \in [1..(Len(replies) + 1) -> Nat]
            /\ Len(client.sent) = f[1] + (IF At("receive") THEN 1 ELSE 0)
        BY <3>1 DEF Numbering
      <4>3. Len(replies') \in Nat /\ Len(replies) \in Nat
        BY <1>1, Cut, StreamTypes
      <4>4. g[1] \in Nat /\ g[Len(replies') + 1] \in Nat /\ g[1] <= g[Len(replies') + 1]
        BY <4>1, <4>3
      <4>5. f[1] \in Nat /\ f[Len(replies) + 1] \in Nat
        BY <4>2, <4>3
      <4>6. g[1] = f[1]
        BY <4>1, <4>2, <4>4, <4>5
      <4> QED
        BY <3>2, <4>4, <4>5, <4>6 DEF Due
    <3>4. Answered(g)'
      <4>1. Len(client.sent) \in Nat /\ DOMAIN client.sent = 1..Len(client.sent)
        BY StreamTypes
      <4>2. Due(g)' <= Len(client.sent) + 1
        BY <3>1, <3>3, <4>1 DEF Answered
      <4>3. \A p \in DOMAIN client.sent : p < Due(g)' => p < Due(f)
        BY <3>3, <4>1
      <4> QED
        BY <1>1, <3>1, <4>2, <4>3 DEF Answered
    <3>5. Paid(g)'
      <4>1. CASE Behind = {}
        <5>1. Cardinality(Unnoticed') + 1 <= Losses'
          BY <1>2, <1>6, <1>7, <1>8, <4>1
        <5> QED
          BY <1>2, <1>7, <5>1 DEF Paid
      <4>2. CASE Behind # {}
        <5>1. up
          BY <4>2 DEF QmpInv, ClientHolds
        <5>2. client.pc \in {"send", "receive"} /\ Due(f) = f[1]
          BY <2>2, <3>1, <4>2, <5>1, Outstanding DEF LossInv
        <5>3. Due(g)' = g[1]
          BY <3>3, <5>2
        <5>4. Cardinality(Unnoticed') <= Losses'
          BY <1>2, <1>6, <1>7
        <5> QED
          BY <1>1, <1>7, <5>2, <5>3, <5>4 DEF Paid
      <4> QED
        BY <4>1, <4>2
    <3> QED
      BY <3>2, <3>4, <3>5 DEF Stream
  <2> QED
    BY <2>1, <2>2
<1> QED
  BY <1>1, <1>9, <1>10 DEF LossInv, Latest, At, Command, OneBehind

LEMMA LossStep ==
    ASSUME QmpInv, QmpInv', LossInv, [QmpNext]_qmpVars
    PROVE  LossInv'
<1>1. CASE UNCHANGED qmpVars
  BY <1>1 DEF qmpVars, LossInv, LossBound, Unnoticed, Stream, Numbering, Answered, Due, Paid,
              Losses, Latest, OneBehind, Reads, Command, At
<1>2. CASE Connect \/ Reopen
  BY <1>2, LossReopened
<1>3. CASE ConnectFails
  BY <1>3, StreamTypes, TryAgainType, LossLeft DEF ConnectFails
<1>4. CASE SendFails \/ ReceiveFails \/ ReopenFails
  BY <1>4, StreamTypes, LostType, LossLeft DEF SendFails, ReceiveFails, ReopenFails
<1>5. CASE Send
  BY <1>5, LossSend
<1>6. CASE Receive
  BY <1>6, LossReceive
<1>7. CASE Convert \/ PollFails \/ Finish
  BY <1>7, LossItem
<1>8. CASE Continue
  BY <1>8, LossContinue
<1>9. CASE Obey
  BY <1>9, LossObey
<1>10. CASE Event
  BY <1>10, LossEvent
<1>11. CASE WriteDump
  BY <1>11, LossWriteDump
<1>12. CASE Drop \/ QemuExits
  BY <1>12, LossCut
<1> QED
  BY <1>1, <1>2, <1>3, <1>4, <1>5, <1>6, <1>7, <1>8, <1>9, <1>10, <1>11, <1>12
     DEF QmpNext, ClientStep

LEMMA LossBeginning ==
    ASSUME QmpInit
    PROVE  LossInv
<1>1. /\ client.pc = "connect" /\ client.item = 0 /\ ~ up /\ requests = <<>>
      /\ qemu.drops = 0
  BY DEF QmpInit
<1>2. Unnoticed = {}
  BY <1>1 DEF Unnoticed
<1>3. LossBound
  BY <1>1, <1>2, FS_EmptySet DEF LossBound
<1> QED
  BY <1>1, <1>3 DEF LossInv, Stream, Reads, Latest, At, OneBehind

\* What heard changes to is the reply that was next.
LEMMA LagStep ==
    ASSUME QmpInv, LossInv, [QmpNext]_qmpVars, client'.heard # client.heard
    PROVE  LET n == Len(client.sent)
           IN  client'.heard.command = IF n = 1 THEN -1 ELSE client.sent[n - 1]
<1>1. CASE Receive
  <2>1. Returned(Head(replies)) /\ Head(replies).kind \in {"greeting", "return"}
    BY <1>1, StreamTypes, DiesType DEF Receive, Cause
  <2>2. client.pc = "receive" /\ replies # <<>> /\ Head(replies) \in Reply
    BY <1>1, StreamTypes DEF Receive, At
  <2>3. PICK f : Numbering(f)
    BY <2>2 DEF LossInv, Stream, Reads
  <2>4. client'.heard = Head(replies)
    BY <2>1, <2>2, StreamTypes, ReturnedType
  <2> QED
    BY <2>1, <2>2, <2>3, <2>4, HeadReply
<1>2. CASE ConnectFails
  BY <1>2, StreamTypes, TryAgainType DEF ConnectFails
<1>3. CASE SendFails \/ ReceiveFails \/ ReopenFails
  BY <1>3, StreamTypes, LostType DEF SendFails, ReceiveFails, ReopenFails
<1>4. CASE Connect \/ Reopen \/ Send
  BY <1>4, StreamTypes DEF Connect, Reopen, Send, Client
<1>5. CASE Convert \/ PollFails \/ Finish \/ Continue
  BY <1>5, StreamTypes DEF Convert, PollFails, Finish, Continue, NextItem, Dies, Client
<1>6. CASE UNCHANGED qmpVars \/ Obey \/ Event \/ WriteDump \/ Drop \/ QemuExits
  BY <1>6 DEF qmpVars, Obey, Event, WriteDump, Drop, QemuExits
<1> QED
  BY <1>1, <1>2, <1>3, <1>4, <1>5, <1>6 DEF QmpNext, ClientStep

LEMMA LossInvariance == QmpSpec => []LossInv
<1>1. QmpInit => LossInv
  BY LossBeginning
<1>2. QmpInv /\ QmpInv' /\ LossInv /\ [QmpNext]_qmpVars => LossInv'
  BY LossStep
<1> QED
  BY <1>1, <1>2, QmpInvariance, PTL DEF QmpSpec

\* Qmp takes the greeting of a connection for its first return; so whatever
\* is lost, and however often it reconnects, the return a call gets is that of
\* the command sent just before its own, never an older one and never its own.
THEOREM LagOfOne == QmpSpec => LagIsOne
<1>1. QmpInv /\ LossInv /\ [QmpNext]_qmpVars =>
          [client'.heard # client.heard =>
             LET n == Len(client.sent)
             IN  client'.heard.command = IF n = 1 THEN -1 ELSE client.sent[n - 1]
          ]_qmpVars
  BY LagStep
<1> QED
  BY <1>1, QmpInvariance, LossInvariance, PTL DEF QmpSpec, LagIsOne

\* The commands that calls have returned from and that QEMU never saw are no
\* more than the connections lost.
THEOREM LossBounded == QmpSpec => []LossBound
BY LossInvariance, PTL DEF LossInv

-----------------------------------------------------------------------------
(* What ends a run *)

\* The commands of the script that QEMU refused.
Refused == qemu.refused \ {Capabilities}

\* A connection was lost.
Broken == qemu.drops > 0 \/ ~ qemu.alive

\* There was something to fail by an error for.
Excuse == Refused # {} \/ qemu.early

\* What a reply that is bad news stands for.
Causes ==
    /\ client.cause = "error" => Excuse
    /\ client.cause = "connection" => Broken /\ ~ client.retry /\ At("failed")
    /\ \A i \in DOMAIN replies : /\ replies[i].kind = "error" => Excuse
                                 /\ replies[i].kind = "partial" => Broken
    /\ At("connect") => ~ up
    /\ ~ up => Broken \/ client.pc \in {"connect", "failed"}

\* Unless the connection drops inside __init__, each begins with one
\* qmp_capabilities, and no more follow.
Handshake ==
    /\ client.pc \in {"receive", "next", "check", "poll"} => client.sent # <<>>
    /\ ~ qemu.early /\ qemu.alive =>
          /\ At("send") => (Command = Capabilities <=> client.sent = <<>>)
          /\ client.item = 0 => ~ client.again /\ (up \/ client.pc \in {"connect", "failed"})
          /\ up /\ client.sent = <<>> => requests = <<>> /\ qemu.mode = "negotiation"
          /\ up /\ client.sent # <<>> /\ qemu.mode = "negotiation" =>
                /\ requests # <<>>
                /\ \A r \in DOMAIN requests : requests[r] = Capabilities <=> r = 1
          /\ up /\ client.sent # <<>> /\ qemu.mode # "negotiation" =>
                \A r \in DOMAIN requests : requests[r] # Capabilities

CauseInv == Causes /\ Handshake

\* The cause a call leaves behind.
LEMMA DiesCause ==
    ASSUME client \in Client, NEW cause \in Cause, Dies(cause)
    PROVE  client'.cause = cause
BY DEF Dies, Client, Cause

LEMMA TryAgainCause ==
    ASSUME client \in Client, TryAgain
    PROVE  client'.cause \in {client.cause, "cannot connect"}
BY DEF TryAgain, Dies, Client

LEMMA LostCause ==
    ASSUME client \in Client, Lost
    PROVE  client'.cause \in {client.cause, "cannot connect", "connection"}
BY TryAgainCause DEF Lost, Dies, Client

\* The connection is the cause once the call has made its retry.
LEMMA LostRetried ==
    ASSUME client \in Client, Lost, client'.cause = "connection",
           client.cause # "connection"
    PROVE  client'.pc = "failed" /\ ~ client'.retry
<1>1. ~ client.retry /\ client.item # 0
  BY TryAgainCause DEF Lost, Client
<1>2. Dies("connection")
  BY <1>1 DEF Lost
<1> QED
  BY <1>1, <1>2, DiesType DEF Cause

LEMMA ReturnedCause ==
    ASSUME client \in Client, NEW m, Returned(m)
    PROVE  client'.cause = client.cause
BY DEF Returned, Client

\* A call finds the connection gone.
LEMMA CauseLost ==
    ASSUME QmpInv, CauseInv, SendFails \/ ReceiveFails \/ ReopenFails
    PROVE  CauseInv'
<1>1. /\ client.pc \in {"send", "receive", "reopen"} /\ ~ up /\ Lost
      /\ UNCHANGED <<up, requests, replies, qemu>>
  BY DEF SendFails, ReceiveFails, ReopenFails, At, QmpInv, ClientHolds
<1>2. /\ client'.pc \in {"connect", "reopen", "failed"}
      /\ client'.item = client.item /\ client'.sent = client.sent
      /\ client'.again => client.again
      /\ client'.cause \in {client.cause, "cannot connect", "connection"}
  BY <1>1, StreamTypes, LostType, LostCause
<1>3. Broken
  BY <1>1 DEF CauseInv, Causes
<1>4. Causes'
  <2>1. client.cause # "connection"
    BY <1>1 DEF CauseInv, Causes, At
  <2>2. client'.cause = "connection" => client'.pc = "failed" /\ ~ client'.retry
    BY <1>1, <2>1, StreamTypes, LostRetried
  <2> QED
    BY <1>1, <1>2, <1>3, <2>2 DEF CauseInv, Causes, Excuse, Broken, Refused, At
<1>5. Handshake'
  BY <1>1, <1>2 DEF CauseInv, Handshake, At
<1> QED
  BY <1>4, <1>5 DEF CauseInv

\* __init__ cannot connect, and has all its attempts or fewer.
LEMMA CauseConnectFails ==
    ASSUME QmpInv, CauseInv, ConnectFails
    PROVE  CauseInv'
<1>1. client.pc = "connect" /\ TryAgain /\ UNCHANGED <<up, requests, replies, qemu>>
  BY DEF ConnectFails, At
<1>2. /\ client'.pc \in {"connect", "failed"}
      /\ client'.item = client.item /\ client'.sent = client.sent
      /\ client'.again => client.again
      /\ client'.cause \in {client.cause, "cannot connect"}
  BY <1>1, StreamTypes, TryAgainType, TryAgainCause
<1>3. Causes'
  BY <1>1, <1>2 DEF CauseInv, Causes, Excuse, Broken, Refused, At
<1>4. Handshake'
  BY <1>1, <1>2 DEF CauseInv, Handshake, At
<1> QED
  BY <1>3, <1>4 DEF CauseInv

\* A new connection wants qmp_capabilities, and gets it next.
LEMMA CauseOpened ==
    ASSUME QmpInv, CauseInv, Connect \/ Reopen
    PROVE  CauseInv'
<1>1. /\ up' /\ requests' = <<>> /\ qemu.alive /\ qemu \in Qemu
      /\ replies' = Append(<<>>, Message("greeting", -1))
      /\ qemu' = [qemu EXCEPT !.mode = "negotiation"]
      /\ client \in Client
  BY StreamTypes DEF Connect, Reopen, Opened, QmpInv, ScriptOrder, QmpTypeOK
<1>2. /\ qemu'.mode = "negotiation" /\ qemu'.refused = qemu.refused
      /\ qemu'.early = qemu.early /\ qemu'.drops = qemu.drops /\ qemu'.alive = qemu.alive
  BY <1>1 DEF Qemu
<1>3. \A i \in DOMAIN replies' : replies'[i].kind = "greeting"
  BY <1>1 DEF Message
<1>4. /\ client'.pc = "send" /\ client'.sent = <<>> /\ client'.item = client.item
      /\ client'.cause = client.cause
      /\ \/ client.pc = "connect" /\ client.item = 0 /\ ~ client.again /\ ~ client'.again
         \/ client.pc = "reopen" /\ client'.again /\ ~ up
  BY <1>1 DEF Connect, Reopen, Client, At, QmpInv, ClientHolds
<1>5. Causes'
  BY <1>1, <1>2, <1>3, <1>4 DEF CauseInv, Causes, Excuse, Broken, Refused, At
<1>6. Command' = Capabilities
  BY <1>4 DEF Command, Capabilities
<1>7. Handshake'
  BY <1>1, <1>2, <1>4, <1>6 DEF CauseInv, Handshake, At
<1> QED
  BY <1>5, <1>7 DEF CauseInv

\* The first command on a connection is qmp_capabilities, no other is.
LEMMA CauseSend ==
    ASSUME QmpInv, CauseInv, Send
    PROVE  CauseInv'
<1>1. /\ client.pc = "send" /\ UNCHANGED <<up, qemu, replies>>
      /\ client' = [client EXCEPT !.pc = "receive", !.sent = Append(client.sent, Command)]
      /\ up => requests' = Append(requests, Command)
      /\ ~ up => requests' = requests
  BY DEF Send, At
<1>2. /\ client'.pc = "receive" /\ client'.sent = Append(client.sent, Command)
      /\ client'.item = client.item /\ client'.again = client.again
      /\ client'.cause = client.cause
  BY <1>1, StreamTypes DEF Client
<1>3. Causes'
  BY <1>1, <1>2 DEF CauseInv, Causes, Excuse, Broken, Refused, At
<1>4. client'.sent # <<>> /\ Command \in Items \union {Capabilities}
  BY <1>2, StreamTypes, CommandType
<1>5. ASSUME up
      PROVE  /\ requests' # <<>> /\ Len(requests) \in Nat
             /\ requests'[Len(requests) + 1] = Command
             /\ DOMAIN requests = 1..Len(requests)
             /\ DOMAIN requests' = 1..(Len(requests) + 1)
             /\ \A r \in DOMAIN requests : requests'[r] = requests[r]
  BY <1>1, <1>4, <1>5, StreamTypes, Appended
<1>6. ASSUME ~ qemu.early, qemu.alive, up
      PROVE  /\ qemu.mode = "negotiation" =>
                   \A r \in DOMAIN requests' : requests'[r] = Capabilities <=> r = 1
             /\ qemu.mode # "negotiation" =>
                   \A r \in DOMAIN requests' : requests'[r] # Capabilities
  <2>1. CASE client.sent = <<>>
    <3>1. requests = <<>> /\ qemu.mode = "negotiation" /\ Command = Capabilities
      BY <1>1, <1>6, <2>1 DEF CauseInv, Handshake, At
    <3> QED
      BY <1>5, <1>6, <3>1
  <2>2. CASE client.sent # <<>>
    <3>1. Command # Capabilities
      BY <1>1, <1>6, <2>2 DEF CauseInv, Handshake, At
    <3>2. \A r \in DOMAIN requests' : r \in DOMAIN requests \/ r = Len(requests) + 1
      BY <1>5, <1>6
    <3>3. requests # <<>> => Len(requests) + 1 # 1
      BY StreamTypes
    <3> QED
      BY <1>5, <1>6, <2>2, <3>1, <3>2, <3>3 DEF CauseInv, Handshake
  <2> QED
    BY <2>1, <2>2
<1>7. Handshake'
  BY <1>1, <1>2, <1>4, <1>5, <1>6 DEF CauseInv, Handshake, At
<1> QED
  BY <1>3, <1>7 DEF CauseInv

\* The call reads a line; an error or a line cut short ends the run.
LEMMA CauseReceive ==
    ASSUME QmpInv, CauseInv, Receive
    PROVE  CauseInv'
<1> DEFINE m == Head(replies)
<1>1. /\ client.pc = "receive" /\ replies # <<>> /\ replies' = Tail(replies) /\ m \in Reply
      /\ UNCHANGED <<up, requests, qemu>> /\ client \in Client
  BY StreamTypes DEF Receive, At
<1>2. /\ 1 \in DOMAIN replies /\ m = replies[1]
      /\ \A i \in DOMAIN replies' : i + 1 \in DOMAIN replies /\ replies'[i] = replies[i + 1]
  BY <1>1, StreamTypes, Tailed
<1>3. \/ UNCHANGED client
      \/ m.kind = "error" /\ client'.cause = "error" /\ client'.pc = "failed"
      \/ m.kind = "partial" /\ client'.cause = "partial" /\ client'.pc = "failed"
      \/ Returned(m)
  BY <1>1, DiesType, DiesCause DEF Receive, Cause
<1>4. /\ m.kind = "error" => Excuse
      /\ m.kind = "partial" => Broken
  BY <1>2 DEF CauseInv, Causes
<1>5. /\ client'.item = client.item /\ client'.sent = client.sent
      /\ client'.pc # "connect" /\ (client'.again => client.again)
  BY <1>1, <1>3, DiesType, ReturnedType DEF Receive, Cause
<1>6. Causes'
  <2>1. /\ client'.cause = "error" => Excuse
        /\ client'.cause # "connection"
    BY <1>1, <1>3, <1>4, ReturnedCause DEF CauseInv, Causes, At
  <2>2. \A i \in DOMAIN replies' : /\ replies'[i].kind = "error" => Excuse
                                   /\ replies'[i].kind = "partial" => Broken
    BY <1>2 DEF CauseInv, Causes
  <2>3. ~ up => Broken
    BY <1>1 DEF CauseInv, Causes
  <2> QED
    BY <1>1, <1>5, <2>1, <2>2, <2>3 DEF Causes, Excuse, Broken, Refused, At
<1>7. Handshake'
  <2>1. client.sent # <<>>
    BY <1>1 DEF CauseInv, Handshake
  <2>2. ASSUME ~ qemu.early, qemu.alive, client'.pc = "send"
        PROVE  Command' # Capabilities
    <3>1. Returned(m) /\ client.again
      <4>1. client'.pc # client.pc /\ client'.pc # "failed"
        BY <1>1, <2>2
      <4>2. Returned(m)
        BY <1>3, <4>1
      <4> QED
        BY <1>1, <2>2, <4>2, ReturnedType
    <3>2. client.item # 0 /\ ~ client'.again
      BY <1>1, <2>2, <3>1, ReturnedType DEF CauseInv, Handshake
    <3> QED
      BY <1>5, <3>2 DEF Command, Capabilities
  <2> QED
    BY <1>1, <1>5, <2>1, <2>2 DEF CauseInv, Handshake, At
<1> QED
  BY <1>6, <1>7 DEF CauseInv

\* main goes on with its items.
LEMMA CauseItem ==
    ASSUME QmpInv, CauseInv, Convert \/ PollFails \/ Finish \/ Continue
    PROVE  CauseInv'
<1>1. /\ client.pc \in {"poll", "check", "next"} /\ client'.sent = client.sent
      /\ UNCHANGED <<up, requests, replies, qemu>>
      /\ client'.cause \in {client.cause, "image", "no file"}
      /\ \/ /\ client'.pc \in {"done", "failed", "next", "check"}
            /\ client'.item = client.item /\ client'.again = client.again
         \/ /\ client'.pc = "send" /\ client'.item = client.item + 1 /\ ~ client'.again
  BY StreamTypes DEF Convert, PollFails, Finish, Continue, NextItem, Dies, At, Client
<1>2. client.item \in Nat
  BY StreamTypes, Numbers
<1>3. Causes'
  BY <1>1 DEF CauseInv, Causes, Excuse, Broken, Refused, At
<1>4. client.sent # <<>>
  BY <1>1 DEF CauseInv, Handshake
<1>5. client'.pc = "send" => client'.item # 0 /\ Command' # Capabilities
  <2>1. client'.pc = "send" => client'.item = client.item + 1 /\ ~ client'.again
    BY <1>1
  <2>2. client.item + 1 # 0
    BY <1>2
  <2> QED
    BY <2>1, <2>2 DEF Command, Capabilities
<1>6. Handshake'
  BY <1>1, <1>4, <1>5 DEF CauseInv, Handshake, At
<1> QED
  BY <1>3, <1>6 DEF CauseInv

\* What QEMU refuses, and what it thinks of the connection.
LEMMA ObeyRefuses ==
    ASSUME QmpInv, Obey
    PROVE  LET c == Head(requests)
           IN  \E kind \in {"return", "error"} :
                  /\ replies' = Append(replies, Message(kind, c))
                  /\ Message(kind, c) \in Reply
                  /\ qemu.mode = "negotiation" => (kind = "return" <=> c = Capabilities)
                  /\ kind = "return" => qemu'.mode = "command"
                  /\ kind = "error" => qemu'.mode = qemu.mode
                  /\ qemu'.refused = IF kind = "return" \/ qemu.mode = "negotiation"
                                     THEN qemu.refused ELSE qemu.refused \union {c}
                  /\ qemu'.early = qemu.early
<1> DEFINE c == Head(requests)
<1>1. qemu \in Qemu /\ c \in Items \union {Capabilities}
  BY ObeyFacts DEF QmpInv, ScriptOrder, QmpTypeOK
<1>2. PICK refuse \in BOOLEAN :
          /\ IF qemu.mode = "negotiation" THEN ~ refuse <=> c = Capabilities
             ELSE /\ c = Capabilities => refuse
                  /\ c # Capabilities /\ c \notin Refusable => ~ refuse
          /\ replies' = Append(replies,
                               Message(IF ~ refuse THEN "return" ELSE "error", c))
          /\ qemu' = [qemu EXCEPT
                !.mode = IF ~ refuse THEN "command" ELSE @,
                !.seen = IF c = Capabilities THEN @ ELSE Append(@, c),
                !.refused = IF ~ refuse \/ qemu.mode = "negotiation" THEN @
                            ELSE @ \union {c},
                !.dumps = IF ~ refuse /\ c # Capabilities
                             /\ Item[c].op \in {"shot", "interval"}
                          THEN Append(@, Item[c].file) ELSE @]
  BY DEF Obey
<1>3. PICK seen, dumps : qemu' = [qemu EXCEPT
                !.mode = IF ~ refuse THEN "command" ELSE qemu.mode,
                !.seen = seen,
                !.refused = IF ~ refuse \/ qemu.mode = "negotiation" THEN qemu.refused
                            ELSE qemu.refused \union {c},
                !.dumps = dumps]
  BY <1>2
<1>4. /\ qemu'.mode = IF ~ refuse THEN "command" ELSE qemu.mode
      /\ qemu'.refused = IF ~ refuse \/ qemu.mode = "negotiation" THEN qemu.refused
                         ELSE qemu.refused \union {c}
      /\ qemu'.early = qemu.early
  BY <1>1, <1>3 DEF Qemu
<1>5. \A kind \in {"return", "error"} : Message(kind, c) \in Reply
  BY <1>1 DEF Message, Reply
<1> HIDE DEF c
<1>6. CASE refuse
  <2>1. /\ replies' = Append(replies, Message("error", c))
        /\ qemu.mode = "negotiation" => c # Capabilities
        /\ qemu'.mode = qemu.mode
        /\ qemu'.refused = IF qemu.mode = "negotiation" THEN qemu.refused
                           ELSE qemu.refused \union {c}
    BY <1>2, <1>4, <1>6
  <2> QED
    BY <1>4, <1>5, <2>1 DEF c
<1>7. CASE ~ refuse
  <2>1. /\ replies' = Append(replies, Message("return", c))
        /\ qemu.mode = "negotiation" => c = Capabilities
        /\ qemu'.mode = "command"
        /\ qemu'.refused = qemu.refused
    BY <1>2, <1>4, <1>7
  <2> QED
    BY <1>4, <1>5, <2>1 DEF c
<1> QED
  BY <1>6, <1>7

\* QEMU answers; without a drop inside __init__, an error is a refusal.
LEMMA CauseObey ==
    ASSUME QmpInv, LossInv, CauseInv, Obey
    PROVE  CauseInv'
<1> DEFINE c == Head(requests)
<1>1. /\ up /\ UNCHANGED <<client, up>> /\ requests # <<>> /\ requests' = Tail(requests)
      /\ qemu'.drops = qemu.drops /\ qemu'.alive = qemu.alive /\ qemu.alive
  BY ObeyFacts DEF LossInv
<1>2. PICK kind \in {"return", "error"} :
          /\ replies' = Append(replies, Message(kind, c))
          /\ Message(kind, c) \in Reply
          /\ qemu.mode = "negotiation" => (kind = "return" <=> c = Capabilities)
          /\ kind = "return" => qemu'.mode = "command"
          /\ kind = "error" => qemu'.mode = qemu.mode
          /\ qemu'.refused = IF kind = "return" \/ qemu.mode = "negotiation"
                             THEN qemu.refused ELSE qemu.refused \union {c}
          /\ qemu'.early = qemu.early
  BY ObeyRefuses
<1>3. /\ 1 \in DOMAIN requests /\ c = requests[1]
      /\ \A r \in DOMAIN requests' : /\ r + 1 \in DOMAIN requests /\ r + 1 # 1
                                     /\ requests'[r] = requests[r + 1]
  BY <1>1, StreamTypes, Tailed
<1>4. \A i \in DOMAIN replies' : \/ i \in DOMAIN replies /\ replies'[i] = replies[i]
                                 \/ replies'[i].kind = kind
  BY <1>2, StreamTypes, Appended DEF Message
<1>5. Excuse => Excuse'
  BY <1>2 DEF Excuse, Refused
<1>6. CASE ~ qemu.early
  <2>1. client.sent # <<>>
    BY <1>1, <1>6 DEF CauseInv, Handshake
  <2>2. CASE qemu.mode = "negotiation"
    <3>1. \A r \in DOMAIN requests : requests[r] = Capabilities <=> r = 1
      BY <1>1, <1>6, <2>1, <2>2 DEF CauseInv, Handshake
    <3>2. kind = "return" /\ qemu'.mode # "negotiation"
      BY <1>2, <1>3, <2>2, <3>1
    <3>3. \A r \in DOMAIN requests' : requests'[r] # Capabilities
      BY <1>3, <3>1
    <3>4. Causes'
      BY <1>1, <1>4, <1>5, <3>2 DEF CauseInv, Causes, Broken, At
    <3>5. Handshake'
      BY <1>1, <1>2, <2>1, <3>2, <3>3 DEF CauseInv, Handshake, At, Command
    <3> QED
      BY <3>4, <3>5 DEF CauseInv
  <2>3. CASE qemu.mode # "negotiation"
    <3>1. \A r \in DOMAIN requests : requests[r] # Capabilities
      BY <1>1, <1>6, <2>1, <2>3 DEF CauseInv, Handshake
    <3>2. kind = "error" => Excuse'
      BY <1>2, <1>3, <2>3, <3>1 DEF Excuse, Refused
    <3>3. qemu'.mode # "negotiation"
      BY <1>2, <2>3
    <3>4. Causes'
      BY <1>1, <1>2, <1>4, <1>5, <3>2 DEF CauseInv, Causes, Broken, At
    <3>5. Handshake'
      BY <1>1, <1>2, <1>3, <2>1, <3>1, <3>3 DEF CauseInv, Handshake, At, Command
    <3> QED
      BY <3>4, <3>5 DEF CauseInv
  <2> QED
    BY <2>2, <2>3
<1>7. CASE qemu.early
  <2>1. Excuse'
    BY <1>2, <1>7 DEF Excuse
  <2>2. Causes'
    BY <1>1, <1>2, <1>4, <2>1 DEF CauseInv, Causes, Broken, At
  <2>3. Handshake'
    BY <1>1, <1>2, <1>7 DEF CauseInv, Handshake
  <2> QED
    BY <2>2, <2>3 DEF CauseInv
<1> QED
  BY <1>6, <1>7

\* QEMU sends an event, or writes a screendump.
LEMMA CauseQuiet ==
    ASSUME QmpInv, CauseInv, Event \/ WriteDump
    PROVE  CauseInv'
<1>1. /\ UNCHANGED <<client, up, requests>>
      /\ qemu'.mode = qemu.mode /\ qemu'.refused = qemu.refused /\ qemu'.early = qemu.early
      /\ qemu'.drops = qemu.drops /\ qemu'.alive = qemu.alive
  BY DEF Event, WriteDump, QmpInv, ScriptOrder, QmpTypeOK, Qemu
<1>2. \A i \in DOMAIN replies' : \/ i \in DOMAIN replies /\ replies'[i] = replies[i]
                                 \/ replies'[i].kind = "event"
  <2>1. CASE Event
    <3>1. /\ Message("event", -1) \in Reply /\ Message("event", -1).kind = "event"
          /\ replies' = Append(replies, Message("event", -1))
      BY <2>1 DEF Event, Message, Reply
    <3> QED
      BY <3>1, StreamTypes, Appended
  <2>2. CASE WriteDump
    BY <2>2 DEF WriteDump
  <2> QED
    BY <2>1, <2>2
<1>3. Causes'
  BY <1>1, <1>2 DEF CauseInv, Causes, Excuse, Broken, Refused, At
<1>4. Handshake'
  BY <1>1 DEF CauseInv, Handshake, At, Command
<1> QED
  BY <1>3, <1>4 DEF CauseInv

\* The connection is lost, and may leave a line cut short.
LEMMA CauseCut ==
    ASSUME QmpInv, CauseInv, Drop \/ QemuExits
    PROVE  CauseInv'
<1>1. /\ Disconnect /\ UNCHANGED client /\ ~ up'
      /\ qemu \in Qemu
  BY Cut DEF Drop, QemuExits, QmpInv, ScriptOrder, QmpTypeOK
<1>2. /\ qemu'.refused = qemu.refused /\ (qemu.early => qemu'.early)
      /\ \/ /\ qemu'.drops = qemu.drops + 1 /\ qemu'.alive = qemu.alive /\ up
            /\ client.item = 0 => qemu'.early
         \/ ~ qemu'.alive
  <2>1. CASE Drop
    <3> DEFINE e == qemu.early \/ client.item = 0
    <3>1. e \in BOOLEAN
      BY <1>1 DEF Qemu
    <3>2. qemu' = [qemu EXCEPT !.drops = qemu.drops + 1, !.early = e] /\ up
      BY <2>1 DEF Drop
    <3>3. (qemu.early => e) /\ (client.item = 0 => e)
      BY <1>1 DEF Qemu
    <3> HIDE DEF e
    <3>4. /\ qemu'.refused = qemu.refused /\ qemu'.early = e
          /\ qemu'.drops = qemu.drops + 1 /\ qemu'.alive = qemu.alive
      BY <1>1, <3>2 DEF Qemu
    <3> QED
      BY <3>2, <3>3, <3>4
  <2>2. CASE QemuExits
    BY <1>1, <2>2 DEF QemuExits, Qemu
  <2> QED
    BY <2>1, <2>2
<1>3. Broken'
  <2>1. qemu.drops \in Nat
    BY <1>1 DEF Qemu
  <2> QED
    BY <1>2, <2>1 DEF Broken
<1>4. \A i \in DOMAIN replies' : \/ i \in DOMAIN replies /\ replies'[i] = replies[i]
                                 \/ replies'[i].kind = "partial"
  <2>1. PICK n \in 0..Len(replies) :
          \/ replies' = SubSeq(replies, 1, n)
          \/ replies' = Append(SubSeq(replies, 1, n), Message("partial", -1))
    BY <1>1 DEF Disconnect
  <2>2. /\ Len(SubSeq(replies, 1, n)) = n /\ SubSeq(replies, 1, n) \in Seq(Reply)
        /\ DOMAIN SubSeq(replies, 1, n) = 1..n
        /\ \A i \in 1..n : i \in DOMAIN replies /\ SubSeq(replies, 1, n)[i] = replies[i]
    BY StreamTypes
  <2>3. Message("partial", -1) \in Reply /\ Message("partial", -1).kind = "partial"
    BY DEF Message, Reply
  <2> QED
    BY <2>1, <2>2, <2>3, Appended
<1>5. Causes'
  <2>1. Excuse => Excuse'
    BY <1>2 DEF Excuse, Refused
  <2>2. ~ At("connect")' \/ ~ up'
    BY <1>1
  <2> QED
    BY <1>1, <1>3, <1>4, <2>1 DEF CauseInv, Causes, At
<1>6. Handshake'
  <2>1. ASSUME ~ qemu'.early, qemu'.alive
        PROVE  /\ ~ qemu.early /\ qemu.alive /\ client.item # 0
    BY <1>2, <2>1
  <2> QED
    BY <1>1, <2>1 DEF CauseInv, Handshake, At, Command
<1> QED
  BY <1>5, <1>6 DEF CauseInv

LEMMA CauseStep ==
    ASSUME QmpInv, LossInv, CauseInv, [QmpNext]_qmpVars
    PROVE  CauseInv'
<1>1. CASE UNCHANGED qmpVars
  BY <1>1 DEF qmpVars, CauseInv, Causes, Handshake, Excuse, Broken, Refused, Command, At
<1>2. CASE Connect \/ Reopen
  BY <1>2, CauseOpened
<1>3. CASE ConnectFails
  BY <1>3, CauseConnectFails
<1>4. CASE SendFails \/ ReceiveFails \/ ReopenFails
  BY <1>4, CauseLost
<1>5. CASE Send
  BY <1>5, CauseSend
<1>6. CASE Receive
  BY <1>6, CauseReceive
<1>7. CASE Convert \/ PollFails \/ Finish \/ Continue
  BY <1>7, CauseItem
<1>8. CASE Obey
  BY <1>8, CauseObey
<1>9. CASE Event \/ WriteDump
  BY <1>9, CauseQuiet
<1>10. CASE Drop \/ QemuExits
  BY <1>10, CauseCut
<1> QED
  BY <1>1, <1>2, <1>3, <1>4, <1>5, <1>6, <1>7, <1>8, <1>9, <1>10 DEF QmpNext, ClientStep

LEMMA CauseBeginning ==
    ASSUME QmpInit
    PROVE  CauseInv
<1>1. /\ client.pc = "connect" /\ client.item = 0 /\ ~ up /\ replies = <<>>
      /\ client.cause = "none" /\ ~ client.again
  BY DEF QmpInit
<1> QED
  BY <1>1 DEF CauseInv, Causes, Handshake, At

LEMMA CauseInvariance == QmpSpec => []CauseInv
<1>1. QmpInit => CauseInv
  BY CauseBeginning
<1>2. QmpInv /\ LossInv /\ CauseInv /\ [QmpNext]_qmpVars => CauseInv'
  BY CauseStep
<1> QED
  BY <1>1, <1>2, QmpInvariance, LossInvariance, PTL DEF QmpSpec

\* The error of command c is still to be read, or was lost with QEMU.
Owed(f, c) ==
    \/ \E i \in DOMAIN replies : replies[i].kind = "error" /\ replies[i].command = c
    \/ ~ up /\ \E p \in DOMAIN client.sent : p >= Due(f) /\ client.sent[p] = c

\* The commands whose errors nobody will ever read.
Unheard(f) == {c \in Refused : ~ Owed(f, c)}

\* The commands refused or still to be answered, but the last.
Rest == (Refused \union (ToSet(requests) \ {Capabilities})) \ {client.item}

RefusalsPaid ==
    /\ Reads => \E f : Numbering(f) /\ Cardinality(Unheard(f)) <= 2 * qemu.drops
    /\ ~ up /\ qemu.alive /\ ~ At("failed") => Cardinality(Refused) <= 2 * qemu.drops
    /\ At("done") => Cardinality(Rest) <= 2 * qemu.drops

\* The refused commands are some of the script.
LEMMA RefusedTypes ==
    ASSUME QmpInv
    PROVE  /\ qemu.drops \in Nat
           /\ \A c \in Refused : c \in Nat \ {0}
           /\ \A T \in SUBSET Refused : IsFiniteSet(T) /\ Cardinality(T) \in Nat
<1>1. qemu \in Qemu
  BY DEF QmpInv, ScriptOrder, QmpTypeOK
<1>2. /\ Refused \subseteq Refusable /\ qemu.drops \in Nat
  BY <1>1 DEF Refused, Qemu
<1>3. /\ Refused \subseteq 1..(Len(Script) + MaxShots)
      /\ Len(Script) \in Nat /\ MaxShots \in Nat
  BY <1>2, Script0, QmpAssumption
<1>4. IsFiniteSet(1..(Len(Script) + MaxShots))
  BY <1>3, FS_Interval
<1>5. \A T \in SUBSET Refused : IsFiniteSet(T)
  BY <1>3, <1>4, FS_Subset
<1> QED
  BY <1>2, <1>3, <1>5, FS_CardinalityType

\* They are finitely many.
LEMMA RestFinite ==
    ASSUME QmpInv
    PROVE  IsFiniteSet(Rest) /\ Cardinality(Rest) \in Nat
<1>1. IsFiniteSet(Refused)
  BY RefusedTypes
<1>2. ToSet(requests) \ {Capabilities} \subseteq Items
  BY StreamTypes DEF ToSet
<1>3. IsFiniteSet(Items)
  <2>1. 1 \in Int /\ Len(Script) + MaxShots \in Int
    BY Script0
  <2> QED
    BY <2>1, FS_Interval DEF Items
<1>4. IsFiniteSet(Refused \union Items)
  BY <1>1, <1>3, FS_Union
<1>5. Rest \subseteq Refused \union Items
  BY <1>2 DEF Rest
<1> QED
  BY <1>4, <1>5, FS_Subset, FS_CardinalityType

\* The error replies still to be read are those of the last two commands, or
\* the last.
LEMMA LastErrors ==
    ASSUME QmpInv, NEW f, Numbering(f), NEW i \in DOMAIN replies,
           replies[i].kind = "error", replies[i].command # -1
    PROVE  LET n == Len(client.sent)
           IN  /\ f[i] \in DOMAIN client.sent /\ replies[i].command = client.sent[f[i]]
               /\ f[i] \in {n - 1, n}
               /\ client.pc # "receive" => f[i] = n
<1> DEFINE n == Len(client.sent)
<1>1. n \in Nat /\ DOMAIN client.sent = 1..n /\ Len(replies) \in Nat /\ i \in 1..Len(replies)
  BY StreamTypes
<1>2. f[i] \in DOMAIN client.sent /\ replies[i].command = client.sent[f[i]]
  BY DEF Numbering
<1>3. f[i] \in 1..n
  BY <1>1, <1>2
<1>4. f[1] <= f[i]
  <2>1. 1 \in 1..(Len(replies) + 1) /\ i \in 1..(Len(replies) + 1) /\ 1 <= i
    BY <1>1
  <2> QED
    BY <2>1 DEF Numbering
<1>5. f[1] \in Nat /\ n = f[1] + (IF client.pc = "receive" THEN 1 ELSE 0)
  <2>1. f \in [1..(Len(replies) + 1) -> Nat] /\ 1 \in 1..(Len(replies) + 1)
    BY <1>1 DEF Numbering
  <2> QED
    BY <2>1 DEF Numbering, At
<1> QED
  BY <1>1, <1>2, <1>3, <1>4, <1>5

\* Nothing more goes unheard.
LEMMA UnheardKept ==
    ASSUME QmpInv, RefusalsPaid, NEW f, Cardinality(Unheard(f)) <= 2 * qemu.drops,
           qemu'.drops = qemu.drops, NEW g, Unheard(g)' \subseteq Unheard(f)
    PROVE  Cardinality(Unheard(g)') <= 2 * qemu'.drops
<1>1. IsFiniteSet(Unheard(f)) /\ Cardinality(Unheard(f)) \in Nat /\ qemu.drops \in Nat
  BY RefusedTypes DEF Unheard
<1>2. Cardinality(Unheard(g)') <= Cardinality(Unheard(f)) /\ IsFiniteSet(Unheard(g)')
  BY <1>1, FS_Subset
<1>3. Cardinality(Unheard(g)') \in Nat
  BY <1>2, FS_CardinalityType
<1> QED
  BY <1>1, <1>2, <1>3

\* A call that fails, or is to reconnect.
LEMMA RefusalsLeft ==
    ASSUME RefusalsPaid, UNCHANGED <<up, requests, qemu>>, client.pc # "failed",
           client'.pc \in {"connect", "reopen", "failed"}
    PROVE  RefusalsPaid'
BY DEF RefusalsPaid, Reads, Refused, At

\* A call that goes on.
LEMMA RefusalsOn ==
    ASSUME QmpInv, RefusalsPaid, UNCHANGED <<up, qemu>>, client.pc # "failed",
           client'.pc \notin {"done", "failed"},
           NEW f, Cardinality(Unheard(f)) <= 2 * qemu.drops,
           NEW g, Numbering(g)', \A c : Owed(f, c) => Owed(g, c)'
    PROVE  RefusalsPaid'
<1>1. Unheard(g)' \subseteq Unheard(f)
  BY DEF Unheard, Refused
<1>2. Cardinality(Unheard(g)') <= 2 * qemu'.drops
  BY <1>1, UnheardKept
<1> QED
  BY <1>2 DEF RefusalsPaid, Refused, At

\* All that is unread on the old connection has been counted.
LEMMA RefusalsOpened ==
    ASSUME QmpInv, CauseInv, RefusalsPaid, Connect \/ Reopen
    PROVE  RefusalsPaid'
<1>1. /\ Opened(<<>>) /\ up' /\ qemu.alive /\ qemu \in Qemu /\ client \in Client
      /\ qemu' = [qemu EXCEPT !.mode = "negotiation"]
      /\ client.pc \in {"connect", "reopen"}
  BY StreamTypes DEF Connect, Reopen, Opened, At, QmpInv, ScriptOrder, QmpTypeOK
<1>2. /\ qemu'.refused = qemu.refused /\ qemu'.drops = qemu.drops
  BY <1>1 DEF Qemu
<1>3. client'.sent = <<>> /\ client'.pc = "send"
  BY <1>1 DEF Connect, Reopen, Client
<1>4. PICK g : Numbering(g)'
  BY <1>1, <1>3, StreamOpened
<1>5. Cardinality(Refused) <= 2 * qemu.drops
  <2>1. ~ up
    BY <1>1 DEF CauseInv, Causes, QmpInv, ClientHolds, At
  <2> QED
    BY <1>1, <2>1 DEF RefusalsPaid, At
<1>6. Unheard(g)' \subseteq Refused
  BY <1>2 DEF Unheard, Refused
<1>7. /\ Cardinality(Unheard(g)') <= Cardinality(Refused)
      /\ Cardinality(Unheard(g)') \in Nat /\ Cardinality(Refused) \in Nat
      /\ qemu.drops \in Nat
  <2>1. IsFiniteSet(Refused)
    BY RefusedTypes
  <2> QED
    BY <1>6, <2>1, RefusedTypes, FS_Subset
<1>8. Cardinality(Unheard(g)') <= 2 * qemu'.drops
  BY <1>2, <1>5, <1>7
<1> QED
  BY <1>1, <1>3, <1>4, <1>8 DEF RefusalsPaid, At

\* The call sends its command.
LEMMA RefusalsSend ==
    ASSUME QmpInv, RefusalsPaid, Send
    PROVE  RefusalsPaid'
<1>1. /\ client.pc = "send" /\ UNCHANGED <<up, qemu, replies>>
      /\ client' = [client EXCEPT !.pc = "receive", !.sent = Append(client.sent, Command)]
  BY DEF Send, At
<1>2. /\ client'.pc = "receive" /\ client'.sent = Append(client.sent, Command)
      /\ Command \in Items \union {Capabilities}
  BY <1>1, StreamTypes, CommandType DEF Client
<1>3. \A i \in DOMAIN client.sent : i \in DOMAIN client'.sent
                                    /\ client'.sent[i] = client.sent[i]
  BY <1>2, StreamTypes, Appended
<1>4. PICK f : Numbering(f) /\ Cardinality(Unheard(f)) <= 2 * qemu.drops
  BY <1>1 DEF RefusalsPaid, Reads
<1>5. Numbering(f)'
  BY <1>4, StreamSend
<1>6. \A c : Owed(f, c) => Owed(f, c)'
  BY <1>1, <1>3 DEF Owed, Due
<1> QED
  BY <1>1, <1>2, <1>4, <1>5, <1>6, RefusalsOn

\* A line that does not end the run is no error.
LEMMA RefusalsReceive ==
    ASSUME QmpInv, RefusalsPaid, Receive
    PROVE  RefusalsPaid'
<1> DEFINE m == Head(replies)
<1>1. /\ client.pc = "receive" /\ replies # <<>> /\ replies' = Tail(replies) /\ m \in Reply
      /\ UNCHANGED <<up, requests, qemu>> /\ client \in Client
  BY StreamTypes DEF Receive, At
<1>2. CASE client'.pc = "failed"
  BY <1>1, <1>2, RefusalsLeft
<1>3. CASE client'.pc # "failed"
  <2>1. m.kind # "error" /\ client'.pc # "done"
    BY <1>1, <1>3, DiesType, ReturnedType DEF Receive, Cause
  <2>2. PICK f : Numbering(f) /\ Cardinality(Unheard(f)) <= 2 * qemu.drops
    BY <1>1 DEF RefusalsPaid, Reads
  <2>3. PICK g : Numbering(g)' /\ g[Len(replies') + 1] = f[Len(replies) + 1]
    BY <1>3, <2>2, StreamReceive
  <2>4. client'.sent = client.sent
    BY <1>3, <2>2, StreamReceive
  <2>5. \A i \in DOMAIN replies : replies[i].kind = "error" =>
            i - 1 \in DOMAIN replies' /\ replies'[i - 1] = replies[i]
    <3>1. replies[1] = m /\ DOMAIN replies = 1..Len(replies) /\ Len(replies) \in Nat
      BY <1>1, StreamTypes, Tailed
    <3>2. /\ DOMAIN replies' = 1..(Len(replies) - 1)
          /\ \A r \in 1..(Len(replies) - 1) : replies'[r] = replies[r + 1]
      BY <1>1, StreamTypes
    <3>3. \A i \in DOMAIN replies : i # 1 => i - 1 \in 1..(Len(replies) - 1) /\ (i - 1) + 1 = i
      BY <3>1
    <3> QED
      BY <2>1, <3>1, <3>2, <3>3
  <2>6. \A c : Owed(f, c) => Owed(g, c)'
    BY <1>1, <2>3, <2>4, <2>5 DEF Owed, Due
  <2> QED
    BY <1>1, <1>3, <2>1, <2>2, <2>3, <2>6, RefusalsOn
<1> QED
  BY <1>2, <1>3

\* When main is done, only the last command can still be refused.
LEMMA RefusalsFinish ==
    ASSUME QmpInv, LossInv, RefusalsPaid, Finish
    PROVE  RefusalsPaid'
<1> DEFINE n == Len(client.sent)
<1>1. /\ client.pc = "check" /\ client'.pc = "done" /\ client'.item = client.item
      /\ UNCHANGED <<up, requests, replies, qemu>>
  BY StreamTypes DEF Finish, At, Client
<1>2. PICK f : Numbering(f) /\ Cardinality(Unheard(f)) <= 2 * qemu.drops
  BY <1>1 DEF RefusalsPaid, Reads
<1>3. /\ n \in Nat /\ n >= 1 /\ client.sent[n] = client.item
      /\ DOMAIN client.sent = 1..n /\ Len(replies) \in Nat /\ Len(requests) \in Nat
      /\ DOMAIN requests = 1..Len(requests)
  BY <1>1, StreamTypes DEF LossInv, Latest
<1>4. Due(f) \in Nat /\ Due(f) >= n
  <2>1. /\ f \in [1..(Len(replies) + 1) -> Nat] /\ n = f[1] + 0
        /\ \A i, j \in 1..(Len(replies) + 1) : i <= j => f[i] <= f[j]
    BY <1>1, <1>2 DEF Numbering, At
  <2>2. 1 \in 1..(Len(replies) + 1) /\ Len(replies) + 1 \in 1..(Len(replies) + 1)
        /\ 1 <= Len(replies) + 1
    BY <1>3
  <2>3. f[1] \in Nat /\ f[Len(replies) + 1] \in Nat /\ f[1] <= f[Len(replies) + 1]
    BY <2>1, <2>2
  <2> QED
    BY <2>1, <2>3 DEF Due
<1>5. \A c \in Refused : Owed(f, c) => c = client.item
  <2>1. ASSUME NEW c \in Refused, NEW i \in DOMAIN replies,
               replies[i].kind = "error", replies[i].command = c
        PROVE  c = client.item
    <3>1. c # -1
      <4>1. c \in Nat
        BY RefusedTypes
      <4> QED
        BY <4>1
    <3> QED
      BY <1>1, <1>2, <1>3, <2>1, <3>1, LastErrors
  <2>2. ASSUME NEW c, NEW p \in DOMAIN client.sent, p >= Due(f), client.sent[p] = c
        PROVE  c = client.item
    <3>1. p = n
      BY <1>3, <1>4, <2>2
    <3> QED
      BY <1>3, <2>2, <3>1
  <2> QED
    BY <2>1, <2>2 DEF Owed
<1>6. \A r \in DOMAIN requests : requests[r] = client.item
  <2>1. ASSUME NEW r \in DOMAIN requests
        PROVE  requests[r] = client.item
    <3>1. up
      BY <2>1 DEF QmpInv, ClientHolds
    <3>2. /\ Due(f) + Len(requests) = n + 1
          /\ requests[r] = client.sent[Due(f) + r - 1]
      BY <1>2, <2>1, <3>1 DEF Numbering, Due
    <3>3. Due(f) + r - 1 = n
      BY <1>3, <1>4, <2>1, <3>2
    <3> QED
      BY <1>3, <3>2, <3>3
  <2> QED
    BY <2>1
<1>7. Rest \subseteq Unheard(f)
  BY <1>5, <1>6 DEF Rest, Unheard, ToSet
<1>8. Cardinality(Rest) <= 2 * qemu.drops
  <2>1. /\ IsFiniteSet(Unheard(f)) /\ Cardinality(Unheard(f)) \in Nat
        /\ qemu.drops \in Nat
    BY RefusedTypes DEF Unheard
  <2>2. Cardinality(Rest) <= Cardinality(Unheard(f))
    BY <1>7, <2>1, FS_Subset
  <2>3. Cardinality(Rest) \in Nat
    BY RestFinite
  <2> QED
    BY <1>2, <2>1, <2>2, <2>3
<1> QED
  BY <1>1, <1>8 DEF RefusalsPaid, Reads, Rest, Refused, At

\* main goes on with its items.
LEMMA RefusalsItem ==
    ASSUME QmpInv, RefusalsPaid, Convert \/ PollFails \/ Continue
    PROVE  RefusalsPaid'
<1>1. /\ client.pc \in {"poll", "check", "next"} /\ client'.sent = client.sent
      /\ UNCHANGED <<up, requests, replies, qemu>>
      /\ client'.pc \in {"failed", "next", "check", "send"}
  BY StreamTypes DEF Convert, PollFails, Continue, NextItem, Dies, At, Client
<1>2. CASE client'.pc = "failed"
  BY <1>1, <1>2, RefusalsLeft
<1>3. CASE client'.pc # "failed"
  <2>1. PICK f : Numbering(f) /\ Cardinality(Unheard(f)) <= 2 * qemu.drops
    BY <1>1 DEF RefusalsPaid, Reads
  <2>2. Numbering(f)'
    BY <1>1, <1>3, <2>1, StreamKept
  <2>3. \A c : Owed(f, c) => Owed(f, c)'
    BY <1>1 DEF Owed, Due
  <2> QED
    BY <1>1, <1>3, <2>1, <2>2, <2>3, RefusalsOn
<1> QED
  BY <1>2, <1>3

\* A command is refused, and its error is there to be read.
LEMMA RefusalsObey ==
    ASSUME QmpInv, RefusalsPaid, Obey
    PROVE  RefusalsPaid'
<1>0. PICK c : c = Head(requests)
  OBVIOUS
<1>1. /\ up /\ UNCHANGED <<client, up>> /\ requests # <<>> /\ requests' = Tail(requests)
      /\ qemu'.drops = qemu.drops
  BY ObeyFacts
<1>2. PICK kind \in {"return", "error"} :
          /\ replies' = Append(replies, Message(kind, c))
          /\ Message(kind, c) \in Reply
          /\ qemu'.refused = IF kind = "return" \/ qemu.mode = "negotiation"
                             THEN qemu.refused ELSE qemu.refused \union {c}
  BY <1>0, ObeyRefuses
<1>3. /\ 1 \in DOMAIN requests /\ c = requests[1]
      /\ \A r \in DOMAIN requests' : r + 1 \in DOMAIN requests
                                     /\ requests'[r] = requests[r + 1]
  BY <1>0, <1>1, StreamTypes, Tailed
<1>4. /\ \A i \in DOMAIN replies : i \in DOMAIN replies' /\ replies'[i] = replies[i]
      /\ Len(replies) + 1 \in DOMAIN replies' /\ replies'[Len(replies) + 1] = Message(kind, c)
  <2>1. /\ Len(replies') = Len(replies) + 1 /\ Len(replies) \in Nat
        /\ DOMAIN replies' = 1..Len(replies')
        /\ replies'[Len(replies) + 1] = Message(kind, c)
        /\ \A i \in DOMAIN replies : i \in DOMAIN replies' /\ replies'[i] = replies[i]
    BY <1>2, StreamTypes, Appended
  <2> QED
    BY <2>1
<1>5. /\ Refused' \subseteq Refused \union ({c} \ {Capabilities})
      /\ Refused' \subseteq Refused \/ kind = "error"
  BY <1>2 DEF Refused
<1>6. CASE Reads
  <2>1. PICK f : Numbering(f) /\ Cardinality(Unheard(f)) <= 2 * qemu.drops
    BY <1>6 DEF RefusalsPaid
  <2>2. PICK g : Numbering(g)'
    BY <2>1, StreamObey
  <2>3. \A d : Owed(f, d) => Owed(g, d)'
    BY <1>1, <1>4 DEF Owed
  <2>4. kind = "error" => Owed(g, c)'
    BY <1>4 DEF Owed, Message
  <2>5. Unheard(g)' \subseteq Unheard(f)
    BY <1>5, <2>3, <2>4 DEF Unheard
  <2>6. Cardinality(Unheard(g)') <= 2 * qemu'.drops
    BY <1>1, <2>1, <2>5, UnheardKept
  <2> QED
    BY <1>1, <1>6, <2>2, <2>6 DEF RefusalsPaid, Reads, At
<1>7. CASE At("done")
  <2>1. Rest' \subseteq Rest
    <3>1. ToSet(requests') \subseteq ToSet(requests) /\ c \in ToSet(requests)
      BY <1>3 DEF ToSet
    <3> QED
      BY <1>1, <1>5, <3>1 DEF Rest
  <2>2. Cardinality(Rest') <= Cardinality(Rest)
    BY <2>1, RestFinite, FS_Subset
  <2>3. Cardinality(Rest) <= 2 * qemu.drops /\ qemu.drops \in Nat
    BY <1>7, RefusedTypes DEF RefusalsPaid
  <2>4. Cardinality(Rest') \in Nat /\ Cardinality(Rest) \in Nat
    <3>1. IsFiniteSet(Rest')
      BY <2>1, RestFinite, FS_Subset
    <3> QED
      BY <3>1, RestFinite, FS_CardinalityType
  <2>5. Cardinality(Rest') <= 2 * qemu'.drops
    BY <1>1, <2>2, <2>3, <2>4
  <2> QED
    BY <1>1, <1>7, <2>5 DEF RefusalsPaid, Reads, At
<1>8. CASE ~ Reads /\ ~ At("done")
  BY <1>1, <1>8 DEF RefusalsPaid, Reads, At
<1> QED
  BY <1>6, <1>7, <1>8

\* QEMU sends an event, or writes a screendump.
LEMMA RefusalsQuiet ==
    ASSUME QmpInv, RefusalsPaid, Event \/ WriteDump
    PROVE  RefusalsPaid'
<1>1. /\ UNCHANGED <<client, up, requests>>
      /\ qemu'.refused = qemu.refused
      /\ qemu'.drops = qemu.drops /\ qemu'.alive = qemu.alive
      /\ Event => up
  BY DEF Event, WriteDump, QmpInv, ScriptOrder, QmpTypeOK, Qemu
<1>2. ASSUME Reads
      PROVE  \E g : Numbering(g)' /\ Cardinality(Unheard(g)') <= 2 * qemu'.drops
  <2>1. PICK f : Numbering(f) /\ Cardinality(Unheard(f)) <= 2 * qemu.drops
    BY <1>2 DEF RefusalsPaid
  <2>2. PICK g : Numbering(g)' /\ \A c : Owed(f, c) => Owed(g, c)'
    <3>1. CASE Event
      <4>1. PICK g : Numbering(g)'
        BY <2>1, <3>1, StreamEvent
      <4>2. /\ replies' = Append(replies, Message("event", -1))
            /\ Message("event", -1) \in Reply
        BY <3>1 DEF Event, Message, Reply
      <4>3. \A i \in DOMAIN replies : i \in DOMAIN replies' /\ replies'[i] = replies[i]
        BY <4>2, StreamTypes, Appended
      <4>4. \A c : Owed(f, c) => Owed(g, c)'
        BY <1>1, <3>1, <4>3 DEF Owed
      <4> QED
        BY <4>1, <4>4
    <3>2. CASE WriteDump
      <4>1. replies' = replies
        BY <3>2 DEF WriteDump
      <4>2. Numbering(f)'
        BY <1>1, <2>1, <4>1, StreamKept
      <4>3. \A c : Owed(f, c) => Owed(f, c)'
        BY <1>1, <4>1 DEF Owed, Due
      <4> QED
        BY <4>2, <4>3
    <3> QED
      BY <3>1, <3>2
  <2>3. Unheard(g)' \subseteq Unheard(f)
    BY <1>1, <2>2 DEF Unheard, Refused
  <2> QED
    BY <1>1, <2>1, <2>2, <2>3, UnheardKept
<1> QED
  BY <1>1, <1>2 DEF RefusalsPaid, Reads, Rest, Refused, At

\* On a connection that is there, no more than the last two can be owed.
LEMMA AllButTwo ==
    ASSUME QmpInv, up, NEW f, Numbering(f)
    PROVE  Cardinality(Refused) <= Cardinality(Unheard(f)) + 2
<1> DEFINE n == Len(client.sent)
           U == Unheard(f)
           V == U \union {client.sent[n - 1]}
<1>1. IsFiniteSet(U) /\ Cardinality(U) \in Nat
  BY RefusedTypes DEF Unheard
<1>2. /\ Cardinality(V) <= Cardinality(U) + 1 /\ Cardinality(V) \in Nat
  BY <1>1, OneMore
<1>3. IsFiniteSet(V)
  BY <1>1, FS_AddElement
<1>4. Refused \subseteq V \union {client.sent[n]}
  <2>1. ASSUME NEW c \in Refused, c \notin U
        PROVE  c \in {client.sent[n - 1], client.sent[n]}
    <3>1. PICK i \in DOMAIN replies : replies[i].kind = "error" /\ replies[i].command = c
      BY <2>1 DEF Unheard, Owed
    <3>2. c # -1
      <4>1. c \in Nat
        BY RefusedTypes
      <4> QED
        BY <4>1
    <3> QED
      BY <3>1, <3>2, LastErrors
  <2> HIDE DEF U
  <2> QED
    BY <2>1
<1> HIDE DEF V
<1>5. Cardinality(Refused) <= Cardinality(V) + 1 /\ Cardinality(Refused) \in Nat
  BY <1>3, <1>4, OneMore
<1> QED
  BY <1>1, <1>2, <1>5

\* A lost connection takes two errors with it at most; where QEMU exits, the
\* client knows the end of what it will read.
LEMMA RefusalsCut ==
    ASSUME QmpInv, QmpInv', LossInv, CauseInv, RefusalsPaid, Drop \/ QemuExits
    PROVE  RefusalsPaid'
<1>1. /\ Disconnect /\ UNCHANGED client /\ ~ up' /\ requests' = <<>>
      /\ qemu \in Qemu /\ qemu.drops \in Nat
  BY Cut DEF Drop, QemuExits, QmpInv, ScriptOrder, QmpTypeOK, Qemu
<1>2. /\ qemu'.refused = qemu.refused
      /\ \/ up /\ qemu'.drops = qemu.drops + 1
         \/ qemu'.drops = qemu.drops /\ ~ qemu'.alive
  <2>1. CASE Drop
    <3>1. PICK e : qemu' = [qemu EXCEPT !.drops = qemu.drops + 1, !.early = e]
      BY <2>1 DEF Drop
    <3> QED
      BY <1>1, <2>1, <3>1 DEF Drop, Qemu
  <2>2. CASE QemuExits
    BY <1>1, <2>2 DEF QemuExits, Qemu
  <2> QED
    BY <2>1, <2>2
<1>3. Cardinality(Refused) \in Nat /\ IsFiniteSet(Refused) /\ Refused' = Refused
  BY <1>2, RefusedTypes DEF Refused
<1>4. ASSUME At("done")
      PROVE  /\ Cardinality(Refused) <= 2 * qemu.drops + 1
             /\ Cardinality(Rest') <= 2 * qemu.drops
  <2>1. PICK Others : Others = Refused \ {client.item}
    OBVIOUS
  <2>2. IsFiniteSet(Others) /\ Cardinality(Others) \in Nat
    BY <2>1, RefusedTypes
  <2>3. Rest' = Others /\ Others \subseteq Rest
    BY <1>1, <1>3, <2>1 DEF Rest, ToSet
  <2>4. /\ Cardinality(Others) <= Cardinality(Rest) /\ Cardinality(Rest) \in Nat
        /\ Cardinality(Rest) <= 2 * qemu.drops
    BY <1>4, <2>3, RestFinite, FS_Subset DEF RefusalsPaid
  <2>5. Cardinality(Refused) <= Cardinality(Others) + 1
    <3>1. Refused \subseteq Others \union {client.item}
      BY <2>1
    <3> QED
      BY <2>2, <3>1, OneMore
  <2> QED
    BY <1>1, <1>3, <2>2, <2>3, <2>4, <2>5
<1>5. ASSUME up, ~ At("failed")
      PROVE  Cardinality(Refused) <= 2 * qemu.drops + 2
  <2>1. CASE At("done")
    BY <1>1, <1>3, <1>4, <2>1
  <2>2. CASE Reads
    <3>1. PICK f : Numbering(f) /\ Cardinality(Unheard(f)) <= 2 * qemu.drops
      BY <2>2 DEF RefusalsPaid
    <3>2. Cardinality(Refused) <= Cardinality(Unheard(f)) + 2
      BY <1>5, <3>1, AllButTwo
    <3>3. Cardinality(Unheard(f)) \in Nat
      BY RefusedTypes DEF Unheard
    <3> QED
      BY <1>1, <1>3, <3>1, <3>2, <3>3
  <2>3. Reads \/ At("done")
    <3>1. ~ At("connect") /\ ~ At("reopen")
      BY <1>5 DEF CauseInv, Causes, QmpInv, ClientHolds
    <3>2. client.pc \in {"connect", "send", "receive", "reopen", "poll", "next",
                         "check", "done", "failed"}
      BY StreamTypes DEF Client
    <3> QED
      BY <1>5, <3>1, <3>2 DEF Reads, At
  <2> QED
    BY <2>1, <2>2, <2>3
<1>6. ASSUME Reads
      PROVE  \E g : Numbering(g)' /\ Cardinality(Unheard(g)') <= 2 * qemu'.drops
  <2>1. PICK f : Numbering(f) /\ Cardinality(Unheard(f)) <= 2 * qemu.drops
    BY <1>6 DEF RefusalsPaid
  <2>2. PICK g : /\ Numbering(g)' /\ g[Len(replies') + 1] <= f[Len(replies) + 1]
                 /\ \A i \in DOMAIN replies :
                       \/ \E j \in DOMAIN replies' : replies'[j] = replies[i]
                       \/ f[i] >= g[Len(replies') + 1]
    BY <1>1, <2>1, StreamCut
  <2>3. CASE up /\ qemu'.drops = qemu.drops + 1
    <3>1. Unheard(g)' \subseteq Refused
      BY <1>3 DEF Unheard
    <3>2. /\ Cardinality(Unheard(g)') <= Cardinality(Refused)
          /\ Cardinality(Unheard(g)') \in Nat
      BY <1>3, <3>1, RefusedTypes, FS_Subset
    <3>3. Cardinality(Refused) <= 2 * qemu.drops + 2
      BY <1>5, <1>6, <2>3 DEF Reads, At
    <3>4. Cardinality(Unheard(g)') <= 2 * (qemu.drops + 1)
      BY <1>1, <1>3, <3>2, <3>3
    <3> QED
      BY <2>2, <2>3, <3>4
  <2>4. CASE qemu'.drops = qemu.drops
    <3>1. \A c \in Refused : Owed(f, c) => Owed(g, c)'
      <4>1. /\ f \in [1..(Len(replies) + 1) -> Nat] /\ g \in [1..(Len(replies') + 1) -> Nat]
            /\ Len(replies') \in Nat /\ Len(replies) \in Nat
        BY <1>1, <2>1, <2>2, Cut, StreamTypes DEF Numbering
      <4>2. Due(g)' \in Nat /\ Due(f) \in Nat /\ Due(g)' <= Due(f)
        BY <2>2, <4>1 DEF Due
      <4>3. ASSUME NEW c \in Refused, NEW i \in DOMAIN replies,
                   replies[i].kind = "error", replies[i].command = c
            PROVE  Owed(g, c)'
        <5>1. CASE \E j \in DOMAIN replies' : replies'[j] = replies[i]
          BY <4>3, <5>1 DEF Owed
        <5>2. CASE f[i] >= g[Len(replies') + 1]
          <6>1. c # -1
            <7>1. c \in Nat
              BY RefusedTypes
            <7> QED
              BY <7>1
          <6>2. f[i] \in DOMAIN client.sent /\ c = client.sent[f[i]]
            BY <2>1, <4>3, <6>1, LastErrors
          <6> QED
            BY <1>1, <5>2, <6>2 DEF Owed, Due
        <5> QED
          BY <2>2, <5>1, <5>2
      <4>4. ASSUME NEW c, NEW p \in DOMAIN client.sent, p >= Due(f), client.sent[p] = c
            PROVE  Owed(g, c)'
        <5>1. p \in Nat
          BY StreamTypes
        <5>2. p >= Due(g)'
          BY <4>2, <4>4, <5>1
        <5> QED
          BY <1>1, <4>4, <5>2 DEF Owed
      <4> QED
        BY <4>3, <4>4 DEF Owed
    <3>2. Unheard(g)' \subseteq Unheard(f)
      BY <1>3, <3>1 DEF Unheard
    <3>3. Cardinality(Unheard(g)') <= 2 * qemu'.drops
      BY <2>1, <2>4, <3>2, UnheardKept
    <3> QED
      BY <2>2, <3>3
  <2> QED
    BY <1>2, <2>3, <2>4
<1>7. ~ up' /\ qemu'.alive /\ ~ At("failed")' => Cardinality(Refused') <= 2 * qemu'.drops
  <2>1. ASSUME qemu'.alive, ~ At("failed")
        PROVE  Cardinality(Refused) <= 2 * qemu'.drops
    <3>1. up /\ qemu'.drops = qemu.drops + 1
      BY <1>2, <2>1
    <3>2. Cardinality(Refused) <= 2 * qemu.drops + 2
      BY <1>5, <2>1, <3>1
    <3> QED
      BY <1>1, <1>3, <3>1, <3>2
  <2> QED
    BY <1>1, <1>3, <2>1 DEF At
<1>8. At("done")' => Cardinality(Rest') <= 2 * qemu'.drops
  <2>1. ASSUME At("done")
        PROVE  Cardinality(Rest') <= 2 * qemu'.drops
    <3>1. Cardinality(Rest') <= 2 * qemu.drops
      BY <1>4, <2>1
    <3>2. Rest' \subseteq Refused
      BY <1>1, <1>3 DEF Rest, ToSet
    <3>3. Cardinality(Rest') \in Nat
      BY <3>2, RefusedTypes
    <3> QED
      BY <1>1, <1>2, <3>1, <3>3
  <2> QED
    BY <1>1, <2>1 DEF At
<1> QED
  BY <1>1, <1>6, <1>7, <1>8 DEF RefusalsPaid, Reads, At

LEMMA RefusalsStep ==
    ASSUME QmpInv, QmpInv', LossInv, CauseInv, RefusalsPaid, [QmpNext]_qmpVars
    PROVE  RefusalsPaid'
<1>1. CASE UNCHANGED qmpVars
  <2>1. UNCHANGED <<client, up, requests, replies, qemu>>
    BY <1>1 DEF qmpVars
  <2>2. ASSUME NEW f, Numbering(f), Cardinality(Unheard(f)) <= 2 * qemu.drops
        PROVE  Numbering(f)' /\ Cardinality(Unheard(f)') <= 2 * qemu'.drops
    BY <2>1, <2>2 DEF Numbering, Unheard, Owed, Due, Refused, At
  <2> QED
    BY <2>1, <2>2 DEF RefusalsPaid, Reads, Rest, Refused, At
<1>2. CASE Connect \/ Reopen
  BY <1>2, RefusalsOpened
<1>3. CASE ConnectFails
  BY <1>3, StreamTypes, TryAgainType, RefusalsLeft DEF ConnectFails, At
<1>4. CASE SendFails \/ ReceiveFails \/ ReopenFails
  BY <1>4, StreamTypes, LostType, RefusalsLeft DEF SendFails, ReceiveFails, ReopenFails, At
<1>5. CASE Send
  BY <1>5, RefusalsSend
<1>6. CASE Receive
  BY <1>6, RefusalsReceive
<1>7. CASE Convert \/ PollFails \/ Continue
  BY <1>7, RefusalsItem
<1>8. CASE Finish
  BY <1>8, RefusalsFinish
<1>9. CASE Obey
  BY <1>9, RefusalsObey
<1>10. CASE Event \/ WriteDump
  BY <1>10, RefusalsQuiet
<1>11. CASE Drop \/ QemuExits
  BY <1>11, RefusalsCut
<1> QED
  BY <1>1, <1>2, <1>3, <1>4, <1>5, <1>6, <1>7, <1>8, <1>9, <1>10, <1>11
     DEF QmpNext, ClientStep

LEMMA RefusalsBeginning ==
    ASSUME QmpInit
    PROVE  RefusalsPaid
<1>1. client.pc = "connect" /\ Refused = {} /\ qemu.drops = 0
  BY DEF QmpInit, Refused
<1> QED
  BY <1>1, FS_EmptySet DEF RefusalsPaid, Reads, At

LEMMA RefusalsInvariance == QmpSpec => []RefusalsPaid
<1>1. QmpInit => RefusalsPaid
  BY RefusalsBeginning
<1>2. /\ QmpInv /\ QmpInv' /\ LossInv /\ CauseInv /\ RefusalsPaid /\ [QmpNext]_qmpVars
      => RefusalsPaid'
  BY RefusalsStep
<1> QED
  BY <1>1, <1>2, QmpInvariance, LossInvariance, CauseInvariance, PTL DEF QmpSpec

\* A run of qmp_drive.py fails by an error only if QEMU refused a command of
\* the script or the connection dropped inside __init__; and by a connection
\* it cannot mend only if one was lost and the retry has been made.
THEOREM FailureExplained == QmpSpec => []FailsForCause
<1>1. CauseInv => FailsForCause
  BY DEF FailsForCause, CauseInv, Causes, Excuse, Broken, Refused
<1> QED
  BY <1>1, CauseInvariance, PTL

\* A run that exits with 0 can have had commands refused, against
\* qmp_drive.py:10, but not many: the last one and two for each lost
\* connection.
THEOREM UnheardBounded == QmpSpec => []UnheardFew
<1>1. ASSUME QmpInv, RefusalsPaid, At("done")
      PROVE  Cardinality(Refused) <= 1 + 2 * qemu.drops
  <2>1. PICK Others : Others = Refused \ {client.item}
    OBVIOUS
  <2>2. /\ Cardinality(Others) <= Cardinality(Rest) /\ Cardinality(Rest) \in Nat
        /\ Cardinality(Rest) <= 2 * qemu.drops
    <3>1. Others \subseteq Rest
      BY <2>1 DEF Rest
    <3> QED
      BY <1>1, <3>1, RestFinite, FS_Subset DEF RefusalsPaid
  <2>3. IsFiniteSet(Others) /\ Cardinality(Others) \in Nat /\ qemu.drops \in Nat
        /\ Cardinality(Refused) \in Nat
    BY <1>1, <2>1, RefusedTypes
  <2>4. Refused \subseteq Others \union {client.item}
    BY <2>1
  <2>5. Cardinality(Refused) <= Cardinality(Others) + 1
    BY <2>3, <2>4, OneMore
  <2> QED
    BY <2>2, <2>3, <2>5
<1>2. QmpInv /\ RefusalsPaid => UnheardFew
  BY <1>1 DEF UnheardFew, Refused
<1> QED
  BY <1>2, QmpInvariance, RefusalsInvariance, PTL
=============================================================================
