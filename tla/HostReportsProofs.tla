-------------------------- MODULE HostReportsProofs --------------------------
(***************************************************************************)
(* The other direction of the host link, for every number of dispatches,   *)
(* rows and faults and every size of the windows: the server applies the   *)
(* events of the host's outbox in order and once, and no sequence of lost  *)
(* sockets and process stops makes either side meet a cursor, a message or *)
(* an acknowledgement it cannot place.                                     *)
(*                                                                         *)
(* The two claims need each other: an acknowledgement the server refuses   *)
(* is gone from the socket, and the events behind it would be applied      *)
(* without it; and it is refused only if an earlier one was not applied.   *)
(***************************************************************************)
EXTENDS HostMailboxProofs

IsEvent(frame) == frame.kind = "event"
IsMessage(frame) == frame.kind = "message"

\* The server has the first events of the outbox, in order.
Recorded == \A i \in 1..Len(recorded) : recorded[i] = i

\* What the host no longer reports is recorded.
Done(h) == {j \in 1..Len(h.outbox) : h.outbox[j].state # "pending"}
Reported == Done(db) \subseteq 1..Len(recorded)

\* An event on the way follows the last one recorded or another on the way.
EventsOnTheWay ==
    \A p \in 1..Len(toServer) : IsEvent(toServer[p]) =>
        \/ toServer[p].id <= Len(recorded) + 1
        \/ \E q \in 1..p - 1 : IsEvent(toServer[q]) /\ toServer[q].id = toServer[p].id - 1

\* What the drain has sent over a socket that works is on its way or recorded.
Drained ==
    connected /\ session # "closed" =>
        \A j \in inFlight :
            \/ j <= Len(recorded)
            \/ \E p \in 1..Len(toServer) : IsEvent(toServer[p]) /\ toServer[p].id = j

\* A socket that is gone holds nothing.
Sockets ==
    /\ session = "closed" => toServer = <<>>
    /\ session = "open" => toHost = <<>>
    /\ ~connected => inFlight = {} /\ toHost = <<>> /\ ~welcomed
    /\ ~up => ~connected

\* Every message the host has stored has its acknowledgement in the outbox,
\* behind that of the message before it.
AckFor(h, s) == {j \in 1..Len(h.outbox) :
                    h.outbox[j].event.type = "ack" /\ h.outbox[j].event.seq = s}
AcksInOrder(h) ==
    /\ \A k \in 1..Len(h.inbox) : AckFor(h, mailbox[k].seq) # {}
    /\ \A k \in 1..Len(h.inbox) : \A j \in AckFor(h, mailbox[k].seq) :
          mailbox[k].prev = 0 \/ \E i \in AckFor(h, mailbox[k].prev) : i < j

\* The hello opens a session, with a cursor the server knows; the welcome
\* returns the host's own, and no error is on the way.
HelloFirst ==
    \A p \in 1..Len(toServer) : toServer[p].kind = "hello" =>
        /\ p = 1
        /\ session = "open"
        /\ toServer[p].acknowledged \in ackedRows \cup {0}
        /\ connected => toServer[p].acknowledged = db.acknowledged
WelcomeFirst ==
    \A p \in 1..Len(toHost) : toHost[p].kind = "welcome" =>
        p = 1 /\ toHost[p].acknowledged = db.acknowledged
NoErrors == \A p \in 1..Len(toHost) : toHost[p].kind # "protocol_error"

\* A command on the way follows what the host has or another on the way; so
\* does the next one the delivery sends.
CommandsChained ==
    \A p \in 1..Len(toHost) : IsMessage(toHost[p]) =>
        \/ toHost[p].msg.prev <= db.received
        \/ \E q \in 1..p - 1 : IsMessage(toHost[q]) /\ toHost[q].msg.seq = toHost[p].msg.prev
SentPlaced ==
    connected /\ session = "ready" =>
        \/ sentSequence <= db.received
        \/ \E p \in 1..Len(toHost) : IsMessage(toHost[p]) /\ toHost[p].msg.seq = sentSequence
CallbacksStored == \A c \in 1..Len(callbacks) : callbacks[c] <= db.received

\* What is on the way from the server, and what the host has to report.
FromServer == WelcomeFirst /\ NoErrors /\ CommandsChained
ToReport == Recorded /\ Reported /\ EventsOnTheWay /\ Drained /\ HelloFirst

ReportInv ==
    /\ MailboxInv
    /\ ToReport
    /\ FromServer
    /\ SentPlaced
    /\ CallbacksStored
    /\ Sockets
    /\ AcksInOrder(db)
    /\ CursorsAgree

-----------------------------------------------------------------------------
(* What the frames and the rows give. *)

\* Sequences numbers are naturals.
LEMMA RowTypes ==
    ASSUME MailboxInv, NEW row \in MailboxRows
    PROVE  row \in Rows /\ row.seq \in Nat /\ row.prev \in Nat /\ row.seq # 0
  <1>1. row \in Rows
    BY DEF MailboxInv, Types, MailboxRows
  <1>. QED
    BY <1>1, HostMailboxAssumption DEF Rows

\* What the host may find in a frame.
LEMMA ServerFrameTypes ==
    ASSUME MailboxInv, NEW f \in ServerFrames
    PROVE  /\ IsMessage(f) => f.msg \in MailboxRows /\ f.msg.seq \in Nat /\ f.msg.prev \in Nat
           /\ f.kind = "event_ack" => f.id \in Receipts
  <1>1. IsMessage(f) => f.msg \in MailboxRows
    BY DEF ServerFrames, IsMessage
  <1>2. f.kind = "event_ack" => f.id \in Receipts
    BY DEF ServerFrames
  <1>. QED
    BY <1>1, <1>2, RowTypes

\* What the server may find in a frame.
LEMMA HostFrameTypes ==
    ASSUME MailboxInv, NEW f \in HostFrames, IsEvent(f)
    PROVE  f.id \in 1..Len(db.outbox) /\ f.id \in Nat /\ f.event = db.outbox[f.id].event
  BY DEF HostFrames, IsEvent

\* The tail of a channel.
LEMMA TailFacts ==
    ASSUME NEW S, NEW s \in Seq(S), s # <<>>
    PROVE  /\ Len(s) \in Nat /\ Len(s) >= 1 /\ Head(s) = s[1] /\ Head(s) \in S
           /\ Tail(s) \in Seq(S) /\ Len(Tail(s)) = Len(s) - 1
           /\ \A p \in 1..Len(s) - 1 : Tail(s)[p] = s[p + 1]
  OBVIOUS

\* An element of a sequence.
LEMMA SeqElement ==
    ASSUME NEW S, NEW s \in Seq(S)
    PROVE  \A i \in 1..Len(s) : s[i] \in S
  OBVIOUS

\* A concatenation.
LEMMA ConcatFacts ==
    ASSUME NEW S, NEW s \in Seq(S), NEW t \in Seq(S)
    PROVE  /\ Len(s \o t) = Len(s) + Len(t)
           /\ \A j \in 1..Len(s) : (s \o t)[j] = s[j]
           /\ \A j \in Len(s) + 1..Len(s) + Len(t) : (s \o t)[j] = t[j - Len(s)]
  OBVIOUS

\* A channel with one more frame.
LEMMA AppendFacts ==
    ASSUME NEW S, NEW s \in Seq(S), NEW e
    PROVE  /\ Len(s) \in Nat /\ Len(Append(s, e)) = Len(s) + 1
           /\ \A j \in 1..Len(s) : Append(s, e)[j] = s[j]
           /\ Append(s, e)[Len(s) + 1] = e
  <1>1. s \in Seq(S \cup {e})
    BY SeqSubset
  <1>. QED
    BY <1>1

\* What the host has received is the last of the rows it has stored.
LEMMA ReceivedRows ==
    ASSUME MailboxInv, NEW r \in 1..Len(mailbox)
    PROVE  /\ mailbox[r].seq <= db.received <=> r <= Len(db.inbox)
           /\ mailbox[r].prev <= db.received => r <= Len(db.inbox) + 1
           /\ r = Len(db.inbox) + 1 => mailbox[r].prev = db.received
  <1>. DEFINE m == Len(db.inbox)
  <1>1. /\ mailbox \in Seq(Rows) /\ m \in Nat /\ m <= Len(mailbox) /\ Len(mailbox) \in Nat
        /\ db.received \in Nat
        /\ db.received = IF m = 0 THEN 0 ELSE mailbox[m].seq
    BY DEF MailboxInv, Types, Databases, Stored
  <1>2. \A i \in 1..Len(mailbox) : mailbox[i].seq \in Nat /\ mailbox[i].seq # 0
    BY RowTypes DEF MailboxRows
  <1>3. \A i, j \in 1..Len(mailbox) : i < j => mailbox[i].seq < mailbox[j].seq
    BY DEF MailboxInv, Chain
  <1>4. mailbox[r].prev = IF r = 1 THEN 0 ELSE mailbox[r - 1].seq
    BY DEF MailboxInv, Chain
  <1>. HIDE DEF m
  <1>5. \A i \in 1..Len(mailbox) : mailbox[i].seq <= db.received <=> i <= m
    <2>. TAKE i \in 1..Len(mailbox)
    <2>1. CASE m = 0
      BY <1>1, <1>2, <2>1
    <2>2. CASE m # 0
      <3>1. m \in 1..Len(mailbox) /\ db.received = mailbox[m].seq
        BY <1>1, <2>2
      <3>2. mailbox[i].seq \in Nat /\ mailbox[m].seq \in Nat
        BY <1>2, <3>1
      <3>3. i < m \/ i = m \/ m < i
        BY <1>1
      <3>. QED
        BY <1>1, <1>3, <3>1, <3>2, <3>3
    <2>. QED
      BY <2>1, <2>2
  <1>6. ASSUME mailbox[r].prev <= db.received PROVE r <= m + 1
    <2>1. CASE r = 1
      BY <1>1, <2>1
    <2>2. CASE r # 1
      <3>1. r - 1 \in 1..Len(mailbox)
        BY <1>1, <2>2
      <3>2. r - 1 <= m
        BY <1>4, <1>5, <1>6, <2>2, <3>1
      <3>. QED
        BY <1>1, <3>2
    <2>. QED
      BY <2>1, <2>2
  <1>7. ASSUME r = m + 1 PROVE mailbox[r].prev = db.received
    BY <1>1, <1>4, <1>7
  <1>. QED
    BY <1>5, <1>6, <1>7 DEF m

\* A command that follows what the host has is known or the next one, unless it
\* is refused as a conflict: the host never reaches the other two errors.
LEMMA CommandPlaced ==
    ASSUME MailboxInv, NEW row \in MailboxRows, row.prev <= db.received
    PROVE  /\ Verdict(db, row) \in {"known", "new", "mailbox_message_conflict"}
           /\ Verdict(db, row) = "known" => row.seq <= db.received
  <1>1. PICK r \in 1..Len(mailbox) : row = mailbox[r]
    BY DEF MailboxRows
  <1>2. Len(db.inbox) \in Nat /\ \A i \in 1..Len(db.inbox) : db.inbox[i].msg = mailbox[i]
    BY DEF MailboxInv, Types, Databases, Stored
  <1>3. CASE r <= Len(db.inbox)
    <2>1. r \in 1..Len(db.inbox) /\ db.inbox[r].msg.seq = row.seq
      BY <1>1, <1>2, <1>3
    <2>2. Verdict(db, row) = "known"
      BY <2>1 DEF Verdict
    <2>. QED
      BY <1>1, <1>3, <2>2, ReceivedRows
  <1>4. CASE ~(r <= Len(db.inbox))
    <2>1. r = Len(db.inbox) + 1
      BY <1>1, <1>2, <1>4, ReceivedRows
    <2>2. ~(row.seq <= db.received) /\ row.prev = db.received
      BY <1>1, <1>4, <2>1, ReceivedRows
    <2>3. \A i \in 1..Len(db.inbox) : db.inbox[i].msg.seq # row.seq
      <3>. SUFFICES ASSUME NEW i \in 1..Len(db.inbox), mailbox[i].seq = row.seq PROVE FALSE
        BY <1>2
      <3>1. i \in 1..Len(mailbox) /\ i <= Len(db.inbox)
        BY <1>2 DEF MailboxInv, Types, Stored
      <3>. QED
        BY <2>2, <3>1, ReceivedRows
    <2>. QED
      BY <2>2, <2>3 DEF Verdict
  <1>. QED
    BY <1>3, <1>4

-----------------------------------------------------------------------------
(* The outbox: only an acknowledgement of the server's takes an event out of *)
(* what is pending.                                                          *)

\* Events queued for a set of dispatches are pending.
LEMMA QueueForDone ==
    ASSUME NEW h \in Databases, NEW ds \in SUBSET Dispatches, NEW type
    PROVE  Done(QueueFor(h, type, ds)) \subseteq Done(h)
  <1>. DEFINE n == Cardinality(ds)
              order == SetToSeq(ds)
              row(i) == [event |-> Event(type, 0, order[i]), state |-> "pending"]
              new == [i \in 1..n |-> row(i)]
              g == QueueFor(h, type, ds)
  <1>1. n \in Nat
    <2>1. IsFiniteSet(ds)
      BY HostMailboxAssumption, FS_Subset
    <2>. QED
      BY <2>1, SetToSeqType
  <1>2. \A i \in 1..n : row(i).state = "pending"
    OBVIOUS
  <1>3. g = [h EXCEPT !.outbox = @ \o new]
    BY DEF QueueFor
  <1>. HIDE DEF row
  <1>4. new \in Seq({row(i) : i \in 1..n}) /\ Len(new) = n /\ \A i \in 1..n : new[i] = row(i)
    BY <1>1
  <1>. HIDE DEF new, n, g
  <1>5. h.outbox \in Seq(OutboxRows) /\ Len(h.outbox) \in Nat
    BY DEF Databases
  <1>6. g.outbox = h.outbox \o new
    BY <1>3 DEF Databases
  <1>7. /\ Len(g.outbox) = Len(h.outbox) + n
        /\ \A j \in 1..Len(h.outbox) : g.outbox[j] = h.outbox[j]
        /\ \A j \in Len(h.outbox) + 1..Len(g.outbox) :
              g.outbox[j] = new[j - Len(h.outbox)] /\ j - Len(h.outbox) \in 1..n
    <2>. DEFINE T == OutboxRows \cup {row(i) : i \in 1..n}
    <2>1. h.outbox \in Seq(T) /\ new \in Seq(T)
      BY <1>4, <1>5, SeqSubset
    <2>. HIDE DEF T
    <2>2. Len(new) = n /\ Len(h.outbox) \in Nat
      BY <1>4, <1>5
    <2>. DEFINE o == h.outbox
    <2>. HIDE DEF o
    <2>3. o \in Seq(T) /\ Len(o) \in Nat /\ g.outbox = o \o new
      BY <1>6, <2>1, <2>2 DEF o
    <2>4. /\ Len(g.outbox) = Len(o) + n
          /\ \A j \in 1..Len(o) : g.outbox[j] = o[j]
          /\ \A j \in Len(o) + 1..Len(g.outbox) : g.outbox[j] = new[j - Len(o)]
      <3>1. /\ Len(o \o new) = Len(o) + Len(new)
            /\ \A j \in 1..Len(o) : (o \o new)[j] = o[j]
            /\ \A j \in Len(o) + 1..Len(o) + Len(new) : (o \o new)[j] = new[j - Len(o)]
        BY <2>1, <2>3, ConcatFacts, Zenon
      <3>. QED
        BY <2>2, <2>3, <3>1, Zenon
    <2>5. \A j \in Len(o) + 1..Len(g.outbox) : j - Len(o) \in 1..n
      BY <1>1, <2>3, <2>4
    <2>. QED
      BY <2>4, <2>5 DEF o
  <1>8. ASSUME NEW j \in Done(g) PROVE j \in Done(h)
    <2>1. j \in 1..Len(g.outbox) /\ g.outbox[j].state # "pending"
      BY <1>8 DEF Done
    <2>2. j \notin Len(h.outbox) + 1..Len(g.outbox)
      BY <1>2, <1>4, <1>7, <2>1
    <2>3. j \in 1..Len(h.outbox)
      BY <1>1, <1>5, <1>7, <2>1, <2>2
    <2>. QED
      BY <1>7, <2>1, <2>3 DEF Done
  <1>. QED
    BY <1>8 DEF g

\* A pending event keeps its dispatch from being compacted.
LEMMA CompactDone ==
    ASSUME NEW h \in Databases
    PROVE  Done(Compact(h)) \subseteq Done(h)
  <1>. DEFINE ds == Compactable(h)
              deleted(j) == \E d \in ds : Related(h.outbox[j].event, d, h.inbox)
              out == [j \in 1..Len(h.outbox) |->
                        IF deleted(j) THEN [h.outbox[j] EXCEPT !.state = "deleted"]
                        ELSE h.outbox[j]]
              g == Compact(h)
  <1>1. h.outbox \in Seq(OutboxRows) /\ Len(h.outbox) \in Nat
    BY DEF Databases
  <1>2. g.outbox = out
    BY DEF Compact, Databases
  <1>3. \A j \in 1..Len(h.outbox) : h.outbox[j].state = "pending" => ~deleted(j)
    BY DEF Compactable
  <1>. HIDE DEF deleted, g
  <1>4. Len(out) = Len(h.outbox) /\ \A j \in 1..Len(h.outbox) : ~deleted(j) => out[j] = h.outbox[j]
    BY <1>1
  <1>. HIDE DEF out
  <1>5. ASSUME NEW j \in Done(g) PROVE j \in Done(h)
    <2>1. j \in 1..Len(h.outbox) /\ out[j].state # "pending"
      BY <1>2, <1>4, <1>5 DEF Done
    <2>. QED
      BY <1>3, <1>4, <2>1 DEF Done
  <1>. QED
    BY <1>5 DEF g

\* What the pump queues is pending.
LEMMA PumpHostDone ==
    ASSUME NEW h \in Databases
    PROVE  Done(PumpHost(h)) \subseteq Done(h)
  <1>. DEFINE pending == {i \in 1..Len(h.inbox) : /\ h.inbox[i].msg.type = "cancel"
                                                  /\ ~h.inbox[i].processed
                                                  /\ ~h.inbox[i].compacted}
              cancelled == {d \in Dispatches : /\ \E i \in pending : h.inbox[i].msg.dispatch = d
                                               /\ h.execution[d] \in {"accepted", "interrupted"}}
              started == {d \in Dispatches : h.execution[d] = "accepted"} \ cancelled
              in == [i \in 1..Len(h.inbox) |->
                       IF i \in pending THEN [h.inbox[i] EXCEPT !.processed = TRUE] ELSE h.inbox[i]]
              ex == [d \in Dispatches |-> IF d \in cancelled THEN "terminal"
                                          ELSE IF d \in started THEN "running"
                                          ELSE h.execution[d]]
              after == [h EXCEPT !.inbox = in, !.execution = ex]
              mid == QueueFor(after, "terminal", cancelled)
              last == QueueFor(mid, "accepted", started)
  <1>1. /\ h.inbox \in Seq(InboxRows) /\ Len(h.inbox) \in Nat
        /\ h.execution \in [Dispatches -> ExecutionStates]
    BY DEF Databases
  <1>2. PumpHost(h) = last
    BY DEF PumpHost
  <1>3. in = [i \in 1..Len(h.inbox) |-> in[i]]
    OBVIOUS
  <1>4. \A i \in 1..Len(h.inbox) : in[i] \in InboxRows
    <2>. TAKE i \in 1..Len(h.inbox)
    <2>. DEFINE row == h.inbox[i]
    <2>1. row \in InboxRows
      BY <1>1
    <2>2. in[i] = row \/ in[i] = [row EXCEPT !.processed = TRUE]
      OBVIOUS
    <2>. HIDE DEF row, in
    <2>. QED
      BY <2>1, <2>2 DEF InboxRows
  <1>. HIDE DEF in
  <1>5. in \in Seq(InboxRows)
    BY <1>1, <1>3, <1>4, FunctionIsSeq
  <1>6. ex \in [Dispatches -> ExecutionStates]
    BY <1>1 DEF ExecutionStates
  <1>7. cancelled \in SUBSET Dispatches /\ started \in SUBSET Dispatches
    OBVIOUS
  <1>. HIDE DEF ex, cancelled, started
  <1>8. after \in Databases /\ after.outbox = h.outbox
    BY <1>5, <1>6 DEF Databases
  <1>. HIDE DEF after
  <1>9. mid \in Databases /\ Done(mid) \subseteq Done(after)
    BY <1>7, <1>8, QueueForKeeps, QueueForDone
  <1>. HIDE DEF mid
  <1>10. Done(last) \subseteq Done(mid)
    BY <1>7, <1>9, QueueForDone
  <1>11. Done(after) = Done(h)
    BY <1>8 DEF Done
  <1>. QED
    BY <1>2, <1>9, <1>10, <1>11

\* Receiving a message leaves what is pending pending, and its acknowledgement
\* is in the outbox afterwards.
LEMMA ReceiveQueues ==
    ASSUME NEW h \in Databases, NEW row \in Rows
    PROVE  /\ Done(Receive(h, row)) \subseteq Done(h)
           /\ AckFor(Receive(h, row), row.seq) # {}
  <1>. DEFINE e == Event("ack", row.seq, NoDispatch)
              new == [msg |-> row, acked |-> FALSE, processed |-> FALSE, compacted |-> FALSE]
              ex == IF row.type = "execute" THEN [h.execution EXCEPT ![row.dispatch] = "accepted"]
                    ELSE h.execution
              stored == [h EXCEPT !.inbox = Append(h.inbox, new), !.received = row.seq,
                                  !.execution = ex]
              mid == IF Verdict(h, row) = "known" THEN h ELSE stored
              pend == [event |-> e, state |-> "pending"]
              g == Receive(h, row)
  <1>1. g = Queue(mid, e)
    BY DEF Receive
  <1>2. h.outbox \in Seq(OutboxRows) /\ Len(h.outbox) \in Nat
    BY DEF Databases
  <1>3. stored.outbox = h.outbox
    BY DEF Databases
  <1>. HIDE DEF stored
  <1>4. mid.outbox = h.outbox
    BY <1>3
  <1>5. e.type = "ack" /\ e.seq = row.seq /\ pend.event = e /\ pend.state = "pending"
    BY DEF Event
  <1>6. ex \in [Dispatches -> ExecutionStates] /\ row.seq \in 0..MaxSequence
    BY HostMailboxAssumption DEF Databases, ExecutionStates, Rows
  <1>7. Append(h.inbox, new) \in Seq(InboxRows)
    <2>1. new \in InboxRows /\ h.inbox \in Seq(InboxRows)
      BY DEF InboxRows, Databases
    <2>. HIDE DEF new
    <2>. QED
      BY <2>1
  <1>. HIDE DEF ex, new
  <1>8. mid \in Databases
    BY <1>6, <1>7 DEF Databases, stored
  <1>. HIDE DEF mid, g, e, pend
  <1>9. CASE \E j \in 1..Len(h.outbox) : h.outbox[j].event = e /\ h.outbox[j].state # "deleted"
    <2>1. g = mid
      BY <1>1, <1>4, <1>9 DEF Queue
    <2>2. Done(g) = Done(h)
      BY <1>4, <2>1 DEF Done
    <2>3. \E j \in 1..Len(g.outbox) : g.outbox[j].event = e
      BY <1>4, <1>9, <2>1
    <2>. QED
      BY <1>5, <2>2, <2>3 DEF AckFor, g
  <1>10. CASE ~\E j \in 1..Len(h.outbox) : h.outbox[j].event = e /\ h.outbox[j].state # "deleted"
    <2>1. g = [mid EXCEPT !.outbox = Append(@, pend)]
      BY <1>1, <1>4, <1>10 DEF Queue, pend
    <2>2. g.outbox = Append(h.outbox, pend)
      BY <1>4, <1>8, <2>1 DEF Databases
    <2>3. /\ Len(g.outbox) = Len(h.outbox) + 1
          /\ \A j \in 1..Len(h.outbox) : g.outbox[j] = h.outbox[j]
          /\ g.outbox[Len(h.outbox) + 1] = pend
      <3>1. h.outbox \in Seq(OutboxRows \cup {pend})
        BY <1>2, SeqSubset
      <3>. QED
        BY <1>2, <2>2, <3>1
    <2>4. ASSUME NEW j \in Done(g) PROVE j \in Done(h)
      <3>1. j \in 1..Len(g.outbox) /\ g.outbox[j].state # "pending"
        BY <2>4 DEF Done
      <3>2. j # Len(h.outbox) + 1
        BY <1>5, <2>3, <3>1
      <3>3. j \in 1..Len(h.outbox)
        BY <1>2, <2>3, <3>1, <3>2
      <3>. QED
        BY <2>3, <3>1, <3>3 DEF Done
    <2>5. Len(h.outbox) + 1 \in AckFor(g, row.seq)
      BY <1>2, <1>5, <2>3 DEF AckFor
    <2>. QED
      BY <2>4, <2>5 DEF g
  <1>. QED
    BY <1>9, <1>10

\* A receipt of the server's takes one event out of what is pending.
LEMMA AcknowledgeDone ==
    ASSUME NEW h \in Databases, NEW id \in 1..Len(h.outbox)
    PROVE  Done(Acknowledge(h, id)) \subseteq Done(h) \cup {id}
  <1>. DEFINE e == h.outbox[id].event
              old == h.outbox[id]
              out == [h.outbox EXCEPT ![id] = [old EXCEPT !.state = "acked"]]
              in == [i \in 1..Len(h.inbox) |->
                       IF e.type = "ack" /\ h.inbox[i].msg.seq = e.seq
                       THEN [h.inbox[i] EXCEPT !.acked = TRUE] ELSE h.inbox[i]]
              cursor == IF e.type = "ack" /\ e.seq > h.acknowledged THEN e.seq ELSE h.acknowledged
              marked == [h EXCEPT !.outbox = out, !.inbox = in, !.acknowledged = cursor]
              g == Acknowledge(h, id)
  <1>1. /\ h.inbox \in Seq(InboxRows) /\ Len(h.inbox) \in Nat
        /\ h.outbox \in Seq(OutboxRows) /\ Len(h.outbox) \in Nat
        /\ h.acknowledged \in 0..MaxSequence
    BY DEF Databases
  <1>2. g = h \/ g = Compact(marked)
    BY DEF Acknowledge
  <1>3. old \in OutboxRows
    BY <1>1
  <1>4. e \in Events
    BY <1>3 DEF OutboxRows
  <1>5. in \in Seq(InboxRows)
    <2>1. in = [i \in 1..Len(h.inbox) |-> in[i]]
      OBVIOUS
    <2>2. \A i \in 1..Len(h.inbox) : in[i] \in InboxRows
      <3>. TAKE i \in 1..Len(h.inbox)
      <3>. DEFINE row == h.inbox[i]
      <3>1. row \in InboxRows
        BY <1>1
      <3>2. in[i] = row \/ in[i] = [row EXCEPT !.acked = TRUE]
        OBVIOUS
      <3>. HIDE DEF row, in
      <3>. QED
        BY <3>1, <3>2 DEF InboxRows
    <2>. HIDE DEF in
    <2>. QED
      BY <1>1, <2>1, <2>2, FunctionIsSeq
  <1>6. cursor \in 0..MaxSequence
    <2>1. e.seq \in 0..MaxSequence
      BY <1>4 DEF Events
    <2>. QED
      BY <1>1, <2>1
  <1>7. /\ out \in Seq(OutboxRows) /\ Len(out) = Len(h.outbox)
        /\ \A j \in 1..Len(h.outbox) : j # id => out[j] = h.outbox[j]
    <2>. DEFINE row == [old EXCEPT !.state = "acked"]
    <2>1. row \in OutboxRows
      BY <1>3 DEF OutboxRows
    <2>. HIDE DEF row
    <2>2. out = [h.outbox EXCEPT ![id] = row]
      BY DEF row
    <2>. QED
      BY <1>1, <2>1, <2>2
  <1>. HIDE DEF in, out, cursor, g
  <1>8. marked \in Databases /\ marked.outbox = out
    BY <1>5, <1>6, <1>7 DEF Databases
  <1>. HIDE DEF marked
  <1>9. Done(marked) \subseteq Done(h) \cup {id}
    BY <1>7, <1>8 DEF Done
  <1>10. CASE g = h
    BY <1>10 DEF g
  <1>11. CASE g = Compact(marked)
    BY <1>8, <1>9, <1>11, CompactDone DEF g
  <1>. QED
    BY <1>2, <1>10, <1>11

-----------------------------------------------------------------------------
(* The order of the acknowledgements. *)

\* The sequences of the mailbox, as the proofs below use them.
LEMMA MailboxOrder ==
    ASSUME MailboxInv
    PROVE  /\ Len(mailbox) \in Nat /\ Len(db.inbox) \in Nat /\ Len(db.inbox) <= Len(mailbox)
           /\ Len(db.outbox) \in Nat
           /\ \A i \in 1..Len(mailbox) :
                 mailbox[i] \in Rows /\ mailbox[i].seq \in Nat /\ mailbox[i].seq # 0
           /\ \A i \in 1..Len(mailbox) :
                 mailbox[i].prev = IF i = 1 THEN 0 ELSE mailbox[i - 1].seq
           /\ \A i, j \in 1..Len(mailbox) : i < j => mailbox[i].seq < mailbox[j].seq
           /\ \A i, j \in 1..Len(mailbox) : mailbox[i].seq = mailbox[j].seq => i = j
  <1>1. /\ Len(mailbox) \in Nat /\ Len(db.inbox) \in Nat /\ Len(db.inbox) <= Len(mailbox)
        /\ Len(db.outbox) \in Nat
    BY DEF MailboxInv, Types, Databases, Stored
  <1>2. \A i \in 1..Len(mailbox) :
           mailbox[i] \in Rows /\ mailbox[i].seq \in Nat /\ mailbox[i].seq # 0
    BY RowTypes DEF MailboxRows
  <1>3. /\ \A i \in 1..Len(mailbox) : mailbox[i].prev = IF i = 1 THEN 0 ELSE mailbox[i - 1].seq
        /\ \A i, j \in 1..Len(mailbox) : i < j => mailbox[i].seq < mailbox[j].seq
    BY DEF MailboxInv, Chain
  <1>4. \A i, j \in 1..Len(mailbox) : mailbox[i].seq = mailbox[j].seq => i = j
    <2>. TAKE i, j \in 1..Len(mailbox)
    <2>1. i < j \/ i = j \/ j < i
      BY <1>1
    <2>2. mailbox[i].seq \in Nat /\ mailbox[j].seq \in Nat
      BY <1>2
    <2>. QED
      BY <1>3, <2>1, <2>2
  <1>. QED
    BY <1>1, <1>2, <1>3, <1>4

\* A database that keeps the queued events keeps the acknowledgements in order.
LEMMA AcksKept ==
    ASSUME NEW h \in Databases, NEW g \in Databases, Keeps(h, g), AcksInOrder(h)
    PROVE  AcksInOrder(g)
  <1>1. Len(h.outbox) \in Nat /\ Len(g.outbox) \in Nat
    BY DEF Databases
  <1>2. ASSUME NEW s PROVE AckFor(g, s) = AckFor(h, s)
    <2>1. \A j \in 1..Len(g.outbox) : g.outbox[j].event.type = "ack" => j \in 1..Len(h.outbox)
      BY <1>1 DEF Keeps
    <2>2. \A j \in 1..Len(h.outbox) : j \in 1..Len(g.outbox)
                                      /\ g.outbox[j].event = h.outbox[j].event
      BY <1>1 DEF Keeps
    <2>. QED
      BY <2>1, <2>2 DEF AckFor
  <1>3. Len(g.inbox) = Len(h.inbox)
    BY DEF Keeps
  <1>. QED
    BY <1>2, <1>3 DEF AcksInOrder

\* A step that changes neither the mailbox nor the database.
LEMMA AcksStay ==
    ASSUME AcksInOrder(db), UNCHANGED <<mailbox, db>>
    PROVE  AcksInOrder(db)'
  BY DEF AcksInOrder

\* A message the host stores gets its acknowledgement behind the earlier ones.
LEMMA AcksReceived ==
    ASSUME MailboxInv, AcksInOrder(db), NEW r \in 1..Len(mailbox),
           Verdict(db, mailbox[r]) \in {"known", "new"}
    PROVE  AcksInOrder(Receive(db, mailbox[r]))
  <1>. DEFINE row == mailbox[r]
              g == Receive(db, row)
              m == Len(db.inbox)
              e == Event("ack", row.seq, NoDispatch)
  <1>1. /\ Len(mailbox) \in Nat /\ m \in Nat /\ m <= Len(mailbox) /\ Len(db.outbox) \in Nat
        /\ row \in Rows
        /\ \A i \in 1..Len(mailbox) : mailbox[i].seq \in Nat /\ mailbox[i].seq # 0
        /\ \A i \in 1..Len(mailbox) : mailbox[i].prev = IF i = 1 THEN 0 ELSE mailbox[i - 1].seq
        /\ \A i, j \in 1..Len(mailbox) : mailbox[i].seq = mailbox[j].seq => i = j
    BY MailboxOrder
  <1>2. db \in Databases /\ Types /\ Chain /\ Stored(db)
    BY DEF MailboxInv, Types
  <1>3. Verdict(db, row) # "known" => r = m + 1
    BY <1>2, ReceiveStored
  <1>4. e.type = "ack" /\ e.seq = row.seq
    BY DEF Event
  <1>5. /\ g \in Databases
        /\ Verdict(db, row) = "known" => Len(g.inbox) = m
        /\ Verdict(db, row) # "known" => Len(g.inbox) = m + 1
        /\ Len(g.outbox) >= Len(db.outbox)
        /\ \A j \in 1..Len(db.outbox) : g.outbox[j].event = db.outbox[j].event
        /\ \A j \in Len(db.outbox) + 1..Len(g.outbox) : g.outbox[j].event = e
    <2>1. row \in Rows /\ db \in Databases
      BY <1>1, <1>2
    <2>. HIDE DEF row
    <2>. QED
      BY <2>1, ReceiveStores
  <1>6. AckFor(g, row.seq) # {}
    BY <1>1, <1>2, ReceiveQueues
  <1>. HIDE DEF g, e, row, m
  <1>7. Len(g.outbox) \in Nat
    BY <1>5 DEF Databases
  <1>8. ASSUME NEW s PROVE AckFor(db, s) \subseteq AckFor(g, s)
    <2>1. \A j \in 1..Len(db.outbox) : j \in 1..Len(g.outbox)
      BY <1>1, <1>5, <1>7
    <2>. QED
      BY <2>1, <1>5 DEF AckFor
  <1>9. \A k \in 1..Len(g.inbox) : k \in 1..m \/ (k = m + 1 /\ k = r)
    BY <1>1, <1>3, <1>5
  <1>10. \A k \in 1..Len(g.inbox) : AckFor(g, mailbox[k].seq) # {}
    <2>. TAKE k \in 1..Len(g.inbox)
    <2>1. CASE k \in 1..m
      <3>1. AckFor(db, mailbox[k].seq) # {}
        BY <2>1 DEF AcksInOrder, m
      <3>. QED
        BY <1>8, <3>1
    <2>2. CASE k = r
      BY <1>6, <2>2 DEF row
    <2>. QED
      BY <1>9, <2>1, <2>2
  <1>11. ASSUME NEW k \in 1..Len(g.inbox), NEW j \in AckFor(g, mailbox[k].seq), mailbox[k].prev # 0
         PROVE  \E i \in AckFor(g, mailbox[k].prev) : i < j
    <2>1. /\ j \in 1..Len(g.outbox) /\ g.outbox[j].event.type = "ack"
          /\ g.outbox[j].event.seq = mailbox[k].seq
      BY DEF AckFor
    <2>2. k \in 1..Len(mailbox)
      BY <1>1, <1>9
    <2>3. CASE j \in 1..Len(db.outbox)
      <3>1. j \in AckFor(db, mailbox[k].seq)
        BY <1>5, <2>1, <2>3 DEF AckFor
      <3>2. PICK i \in 1..m : mailbox[i].seq = mailbox[k].seq
        BY <1>2, <3>1 DEF AckFor, Stored, m
      <3>3. k \in 1..m
        BY <1>1, <2>2, <3>2
      <3>4. \E q \in AckFor(db, mailbox[k].prev) : q < j
        BY <1>11, <3>1, <3>3 DEF AcksInOrder, m
      <3>. QED
        BY <1>8, <3>4
    <2>4. CASE j \notin 1..Len(db.outbox)
      <3>1. j > Len(db.outbox)
        BY <1>1, <1>7, <2>1, <2>4
      <3>2. k # 1 /\ mailbox[k].prev = mailbox[k - 1].seq
        BY <1>1, <1>11, <2>2
      <3>3. k - 1 \in 1..m
        BY <1>1, <1>9, <2>2, <3>2
      <3>4. AckFor(db, mailbox[k - 1].seq) # {}
        BY <3>3 DEF AcksInOrder, m
      <3>5. PICK i : i \in AckFor(db, mailbox[k].prev)
        BY <3>2, <3>4
      <3>6. i \in 1..Len(db.outbox)
        BY <3>5 DEF AckFor
      <3>7. i < j
        BY <1>1, <1>7, <2>1, <3>1, <3>6
      <3>. QED
        BY <1>8, <3>5, <3>7
    <2>. QED
      BY <2>3, <2>4
  <1>. QED
    BY <1>10, <1>11 DEF AcksInOrder, g, row

\* The server's acknowledgements are behind what the host has received.
LEMMA AckedReceived ==
    ASSUME MailboxInv, NEW s \in ackedRows \cup {0}
    PROVE  s \in Nat /\ s <= db.received /\ s <= LastAcknowledged
  <1>1. /\ LastAcknowledged \in 0..MaxSequence
        /\ \A other \in ackedRows : other <= LastAcknowledged
    BY LastAcknowledgedIsMax DEF MailboxInv
  <1>2. ackedRows \subseteq 1..MaxSequence /\ db.received \in Nat
    BY DEF MailboxInv, Types, Databases
  <1>3. s \in Nat /\ s <= LastAcknowledged
    <2>. DEFINE last == LastAcknowledged
    <2>1. last \in Nat /\ \A other \in ackedRows : other <= last
      BY <1>1
    <2>. HIDE DEF last
    <2>2. s \in Nat /\ s <= last
      BY <1>2, <2>1
    <2>. QED
      BY <2>2 DEF last
  <1>4. s <= db.received
    <2>1. CASE s = 0
      BY <1>2, <2>1
    <2>2. CASE s \in ackedRows
      <3>1. PICK i \in 1..Len(db.inbox) : mailbox[i].seq = s
        BY <2>2 DEF MailboxInv, Acked
      <3>2. i \in 1..Len(mailbox) /\ i <= Len(db.inbox)
        BY MailboxOrder
      <3>. QED
        BY <3>1, <3>2, ReceivedRows
    <2>. QED
      BY <2>1, <2>2
  <1>. QED
    BY <1>3, <1>4

\* The server never finds the next event of the outbox out of order.
LEMMA NeverOutOfOrder ==
    ASSUME MailboxInv, Recorded, AcksInOrder(db), NEW id \in 1..Len(db.outbox),
           id <= Len(recorded) + 1, db.outbox[id].event.type = "ack"
    PROVE  ~AckOutOfOrder(db.outbox[id].event.seq)
  <1>. DEFINE s == db.outbox[id].event.seq
              last == LastAcknowledged
  <1>1. PICK k \in 1..Len(db.inbox) : mailbox[k].seq = s
    BY DEF MailboxInv, Stored
  <1>2. /\ Len(mailbox) \in Nat /\ Len(db.inbox) \in Nat /\ Len(db.inbox) <= Len(mailbox)
        /\ \A i \in 1..Len(mailbox) : mailbox[i].seq \in Nat /\ mailbox[i].seq # 0
        /\ \A i \in 1..Len(mailbox) : mailbox[i].prev = IF i = 1 THEN 0 ELSE mailbox[i - 1].seq
        /\ \A i, j \in 1..Len(mailbox) : i < j => mailbox[i].seq < mailbox[j].seq
    BY MailboxOrder
  <1>3. k \in 1..Len(mailbox)
    BY <1>2
  <1>4. id \in AckFor(db, s)
    BY DEF AckFor
  <1>5. last \in ackedRows \cup {0} /\ last \in Nat /\ \A t \in ackedRows : t <= last
    BY LastAcknowledgedIsMax DEF MailboxInv
  <1>6. Len(recorded) \in Nat /\ recorded \in Seq(Settled)
    BY DEF MailboxInv, Channels
  <1>. HIDE DEF s, last
  <1>7. SUFFICES ASSUME s > last PROVE mailbox[k].prev = last
    BY <1>1, <1>3 DEF AckOutOfOrder, s, last
  <1>8. ASSUME last \in ackedRows PROVE k # 1 /\ last <= mailbox[k].prev
    <2>1. PICK q \in 1..Len(db.inbox) : mailbox[q].seq = last
      BY <1>8 DEF MailboxInv, Acked
    <2>2. q \in 1..Len(mailbox)
      BY <1>2
    <2>3. q < k
      <3>1. k = q \/ k < q \/ q < k
        BY <1>2
      <3>2. mailbox[k].seq \in Nat /\ mailbox[q].seq \in Nat
        BY <1>2, <1>3, <2>2
      <3>. QED
        BY <1>1, <1>2, <1>3, <1>7, <2>1, <2>2, <3>1, <3>2
    <2>4. k # 1 /\ k - 1 \in 1..Len(mailbox) /\ mailbox[k].prev = mailbox[k - 1].seq
      <3>1. k # 1 /\ k - 1 \in 1..Len(mailbox)
        BY <1>2, <1>3, <2>2, <2>3
      <3>. QED
        BY <1>2, <1>3, <3>1
    <2>5. q = k - 1 \/ q < k - 1
      BY <2>3
    <2>6. mailbox[q].seq \in Nat /\ mailbox[k - 1].seq \in Nat
          /\ (q < k - 1 => mailbox[q].seq < mailbox[k - 1].seq)
      BY <1>2, <2>2, <2>4
    <2>. QED
      BY <2>1, <2>4, <2>5, <2>6
  <1>9. CASE mailbox[k].prev = 0
    <2>1. k = 1
      BY <1>2, <1>3, <1>9
    <2>. QED
      BY <1>5, <1>8, <1>9, <2>1
  <1>10. CASE mailbox[k].prev # 0
    <2>1. PICK i \in AckFor(db, mailbox[k].prev) : i < id
      BY <1>1, <1>4, <1>10 DEF AcksInOrder
    <2>2. i \in 1..Len(db.outbox) /\ db.outbox[i].event.type = "ack"
          /\ db.outbox[i].event.seq = mailbox[k].prev
      BY <2>1 DEF AckFor
    <2>3. i \in 1..Len(recorded)
      BY <1>6, <2>1, <2>2
    <2>4. recorded[i] = i /\ recorded[i] \in Settled
      BY <1>6, <2>3 DEF Recorded
    <2>5. mailbox[k].prev \in ackedRows
      BY <2>2, <2>4 DEF Settled
    <2>6. mailbox[k].prev <= last /\ mailbox[k].prev \in Nat
      BY <2>5, AckedReceived DEF last
    <2>7. last \in ackedRows
      BY <1>5, <1>10, <2>6
    <2>8. last <= mailbox[k].prev
      BY <1>8, <2>7
    <2>. QED
      BY <1>5, <2>6, <2>8
  <1>. QED
    BY <1>9, <1>10

-----------------------------------------------------------------------------
(* What a step does to a channel, and what that leaves true. *)

\* The types of the link.
LEMMA LinkTypes ==
    ASSUME MailboxInv
    PROVE  /\ toHost \in Seq(ServerFrames) /\ Len(toHost) \in Nat
           /\ toServer \in Seq(HostFrames) /\ Len(toServer) \in Nat
           /\ recorded \in Seq(Settled) /\ Len(recorded) \in Nat
           /\ db \in Databases /\ db.received \in Nat /\ Len(db.outbox) \in Nat
           /\ sentSequence \in Nat
           /\ inFlight \subseteq 1..Len(db.outbox)
           /\ \A p \in 1..Len(toServer) : IsEvent(toServer[p]) => toServer[p].id \in Nat
           /\ \A p \in 1..Len(toHost) : IsMessage(toHost[p]) =>
                 /\ toHost[p].msg \in MailboxRows
                 /\ toHost[p].msg.seq \in Nat /\ toHost[p].msg.prev \in Nat
  <1>1. /\ toHost \in Seq(ServerFrames) /\ toServer \in Seq(HostFrames)
        /\ recorded \in Seq(Settled) /\ inFlight \subseteq 1..Len(db.outbox)
    BY DEF MailboxInv, Channels
  <1>2. Len(toHost) \in Nat /\ Len(toServer) \in Nat /\ Len(recorded) \in Nat
    BY <1>1
  <1>3. db \in Databases /\ sentSequence \in Nat
    BY DEF MailboxInv, Types
  <1>4. db.received \in Nat /\ Len(db.outbox) \in Nat
    BY <1>3 DEF Databases
  <1>5. \A p \in 1..Len(toServer) : IsEvent(toServer[p]) => toServer[p].id \in Nat
    BY <1>1, HostFrameTypes
  <1>6. \A p \in 1..Len(toHost) : IsMessage(toHost[p]) =>
           /\ toHost[p].msg \in MailboxRows
           /\ toHost[p].msg.seq \in Nat /\ toHost[p].msg.prev \in Nat
    BY <1>1, ServerFrameTypes
  <1>. QED
    BY <1>1, <1>2, <1>3, <1>4, <1>5, <1>6

\* The server reads the first frame: an event, which has its receipt then.
LEMMA ServerReads ==
    ASSUME MailboxInv, EventsOnTheWay, Drained, HelloFirst,
           toServer # <<>>, toServer' = Tail(toServer),
           Len(recorded') \in Nat, Len(recorded) <= Len(recorded'),
           IsEvent(Head(toServer)) => Head(toServer).id <= Len(recorded'),
           inFlight' = inFlight, connected' = connected, session # "closed"
    PROVE  /\ EventsOnTheWay'
           /\ Drained'
           /\ \A p \in 1..Len(toServer') : toServer'[p].kind # "hello"
  <1>. DEFINE s == toServer
              n == Len(recorded)
  <1>1. /\ s \in Seq(HostFrames) /\ Len(s) \in Nat /\ n \in Nat
        /\ \A p \in 1..Len(s) : IsEvent(s[p]) => s[p].id \in Nat
        /\ inFlight \subseteq Nat
    BY LinkTypes
  <1>2. /\ Len(s) >= 1 /\ Head(s) = s[1] /\ Len(s') = Len(s) - 1
        /\ \A p \in 1..Len(s) - 1 : s'[p] = s[p + 1]
    BY <1>1, TailFacts
  <1>. HIDE DEF s, n
  <1>3. \A p \in 1..Len(s') : p + 1 \in 1..Len(s) /\ s'[p] = s[p + 1]
    BY <1>1, <1>2
  \* An event that was on the way still is, or is the one read now.
  <1>4. ASSUME NEW q \in 1..Len(s), IsEvent(s[q])
        PROVE  \/ s[q].id <= Len(recorded')
               \/ q > 1 /\ q - 1 \in 1..Len(s') /\ s'[q - 1] = s[q]
    <2>1. CASE q = 1
      BY <1>2, <1>4, <2>1 DEF s
    <2>2. CASE q # 1
      <3>1. q > 1 /\ q - 1 \in 1..Len(s) - 1 /\ (q - 1) + 1 = q
        BY <1>1, <2>2
      <3>. QED
        BY <1>2, <3>1
    <2>. QED
      BY <2>1, <2>2
  <1>5. EventsOnTheWay'
    <2>1. ASSUME NEW p \in 1..Len(s'), IsEvent(s'[p])
          PROVE  \/ s'[p].id <= Len(recorded') + 1
                 \/ \E q \in 1..p - 1 : IsEvent(s'[q]) /\ s'[q].id = s'[p].id - 1
      <3>1. p + 1 \in 1..Len(s) /\ s'[p] = s[p + 1] /\ IsEvent(s[p + 1]) /\ s[p + 1].id \in Nat
        BY <1>1, <1>3, <2>1 DEF IsEvent
      <3>2. CASE s[p + 1].id <= n + 1
        BY <1>1, <3>1, <3>2 DEF n
      <3>3. CASE \E q \in 1..(p + 1) - 1 : IsEvent(s[q]) /\ s[q].id = s[p + 1].id - 1
        <4>0. (p + 1) - 1 = p
          BY <1>1, <1>2
        <4>1. PICK q \in 1..p : IsEvent(s[q]) /\ s[q].id = s[p + 1].id - 1
          BY <3>3, <4>0
        <4>2. q \in 1..Len(s) /\ s[q].id \in Nat
          BY <1>1, <3>1, <4>1
        <4>3. CASE s[q].id <= Len(recorded')
          BY <3>1, <4>1, <4>2, <4>3
        <4>4. CASE q > 1 /\ q - 1 \in 1..Len(s') /\ s'[q - 1] = s[q]
          <5>1. q - 1 \in 1..p - 1
            BY <4>4, <4>1
          <5>. QED
            BY <3>1, <4>1, <4>4, <5>1
        <4>. QED
          BY <1>4, <4>1, <4>2, <4>3, <4>4
      <3>. QED
        BY <3>1, <3>2, <3>3 DEF EventsOnTheWay, s, n
    <2>. QED
      BY <2>1 DEF EventsOnTheWay, s, IsEvent
  <1>6. Drained'
    <2>1. ASSUME connected, NEW j \in inFlight
          PROVE  \/ j <= Len(recorded')
                 \/ \E p \in 1..Len(s') : IsEvent(s'[p]) /\ s'[p].id = j
      <3>1. CASE j <= n
        BY <1>1, <3>1 DEF n
      <3>2. CASE \E p \in 1..Len(s) : IsEvent(s[p]) /\ s[p].id = j
        <4>1. PICK p \in 1..Len(s) : IsEvent(s[p]) /\ s[p].id = j
          BY <3>2
        <4>. QED
          BY <1>4, <4>1
      <3>. QED
        BY <2>1, <3>1, <3>2 DEF Drained, s, n
    <2>. QED
      BY <2>1 DEF Drained, s, IsEvent
  <1>7. ASSUME NEW p \in 1..Len(s') PROVE s'[p].kind # "hello"
    <2>1. p + 1 \in 1..Len(s) /\ s'[p] = s[p + 1] /\ p + 1 # 1
      BY <1>1, <1>3
    <2>. QED
      BY <2>1 DEF HelloFirst, s
  <1>. QED
    BY <1>5, <1>6, <1>7 DEF s

\* The host reads the first frame: a message, which it has stored then.
LEMMA HostReads ==
    ASSUME MailboxInv, FromServer, SentPlaced, toHost # <<>>, toHost' = Tail(toHost),
           db'.received \in Nat, db.received <= db'.received,
           IsMessage(Head(toHost)) => Head(toHost).msg.seq <= db'.received,
           UNCHANGED <<sentSequence, connected, session>>
    PROVE  /\ FromServer'
           /\ SentPlaced'
           /\ \A p \in 1..Len(toHost') : toHost'[p].kind # "welcome"
  <1>. DEFINE s == toHost
              r == db.received
              u == db'.received
  <1>1. /\ s \in Seq(ServerFrames) /\ Len(s) \in Nat /\ r \in Nat /\ u \in Nat /\ r <= u
        /\ sentSequence \in Nat
        /\ \A p \in 1..Len(s) : IsMessage(s[p]) =>
              s[p].msg.seq \in Nat /\ s[p].msg.prev \in Nat
    BY LinkTypes
  <1>2. /\ Len(s) >= 1 /\ Head(s) = s[1] /\ Len(s') = Len(s) - 1
        /\ \A p \in 1..Len(s) - 1 : s'[p] = s[p + 1]
    BY <1>1, TailFacts
  <1>. HIDE DEF s, r, u
  <1>3. \A p \in 1..Len(s') : p + 1 \in 1..Len(s) /\ s'[p] = s[p + 1] /\ p + 1 # 1
    BY <1>1, <1>2
  <1>4. ASSUME NEW q \in 1..Len(s), IsMessage(s[q])
        PROVE  \/ s[q].msg.seq <= u
               \/ q > 1 /\ q - 1 \in 1..Len(s') /\ s'[q - 1] = s[q]
    <2>1. CASE q = 1
      BY <1>2, <1>4, <2>1 DEF s, u
    <2>2. CASE q # 1
      <3>1. q > 1 /\ q - 1 \in 1..Len(s) - 1 /\ (q - 1) + 1 = q
        BY <1>1, <2>2
      <3>. QED
        BY <1>2, <3>1
    <2>. QED
      BY <2>1, <2>2
  <1>5. ASSUME NEW p \in 1..Len(s'), IsMessage(s'[p])
        PROVE  \/ s'[p].msg.prev <= u
               \/ \E q \in 1..p - 1 : IsMessage(s'[q]) /\ s'[q].msg.seq = s'[p].msg.prev
    <2>1. p + 1 \in 1..Len(s) /\ s'[p] = s[p + 1] /\ IsMessage(s[p + 1])
          /\ s[p + 1].msg.prev \in Nat
      BY <1>1, <1>3, <1>5 DEF IsMessage
    <2>2. CASE s[p + 1].msg.prev <= r
      BY <1>1, <2>1, <2>2
    <2>3. CASE \E q \in 1..(p + 1) - 1 : IsMessage(s[q]) /\ s[q].msg.seq = s[p + 1].msg.prev
      <3>1. PICK q \in 1..p : IsMessage(s[q]) /\ s[q].msg.seq = s[p + 1].msg.prev
        BY <2>1, <2>3
      <3>2. q \in 1..Len(s)
        BY <1>1, <2>1, <3>1
      <3>3. CASE s[q].msg.seq <= u
        BY <2>1, <3>1, <3>3
      <3>4. CASE q > 1 /\ q - 1 \in 1..Len(s') /\ s'[q - 1] = s[q]
        <4>1. q - 1 \in 1..p - 1
          BY <3>1, <3>4
        <4>. QED
          BY <2>1, <3>1, <3>4, <4>1
      <3>. QED
        BY <1>4, <3>1, <3>2, <3>3, <3>4
    <2>. QED
      BY <2>1, <2>2, <2>3 DEF FromServer, CommandsChained, s, r
  <1>6. CommandsChained'
    BY <1>5 DEF CommandsChained, s, u, IsMessage
  <1>7. \A p \in 1..Len(s') : s'[p].kind # "welcome" /\ s'[p].kind # "protocol_error"
    BY <1>3 DEF FromServer, WelcomeFirst, NoErrors, s
  <1>8. WelcomeFirst' /\ NoErrors'
    BY <1>7 DEF WelcomeFirst, NoErrors, s
  <1>9. SentPlaced'
    <2>. SUFFICES ASSUME connected, session = "ready"
                  PROVE  \/ sentSequence <= u
                         \/ \E p \in 1..Len(s') : IsMessage(s'[p]) /\ s'[p].msg.seq = sentSequence
      BY DEF SentPlaced, s, u, IsMessage
    <2>1. CASE sentSequence <= r
      BY <1>1, <2>1
    <2>2. CASE \E p \in 1..Len(s) : IsMessage(s[p]) /\ s[p].msg.seq = sentSequence
      BY <1>4, <2>2
    <2>. QED
      BY <2>1, <2>2 DEF SentPlaced, s, r
  <1>. QED
    BY <1>6, <1>7, <1>8, <1>9 DEF FromServer, s

\* The server sends a frame: a message that follows, a welcome that is first.
LEMMA ServerSends ==
    ASSUME MailboxInv, FromServer, NEW f, Reply(<<f>>), UNCHANGED <<db, connected>>,
           f.kind # "protocol_error",
           connected /\ f.kind = "welcome" => toHost = <<>> /\ f.acknowledged = db.acknowledged,
           connected /\ IsMessage(f) =>
              \/ f.msg.prev <= db.received
              \/ \E q \in 1..Len(toHost) : IsMessage(toHost[q]) /\ toHost[q].msg.seq = f.msg.prev
    PROVE  /\ FromServer'
           /\ ~connected => toHost' = toHost
           /\ \A p \in 1..Len(toHost) : p \in 1..Len(toHost') /\ toHost'[p] = toHost[p]
           /\ connected => Len(toHost) + 1 \in 1..Len(toHost') /\ toHost'[Len(toHost) + 1] = f
  <1>. DEFINE s == toHost
  <1>1. s \in Seq(ServerFrames) /\ Len(s) \in Nat
    BY LinkTypes
  <1>2. CASE ~connected
    <2>1. toHost' = toHost
      BY <1>2 DEF Reply
    <2>. QED
      BY <1>2, <2>1 DEF FromServer, WelcomeFirst, NoErrors, CommandsChained
  <1>3. CASE connected
    <2>1. s' = s \o <<f>>
      BY <1>3 DEF Reply
    <2>2. /\ Len(s') = Len(s) + 1 /\ s'[Len(s) + 1] = f
          /\ \A p \in 1..Len(s) : s'[p] = s[p]
      <3>1. s \in Seq(ServerFrames \cup {f}) /\ <<f>> \in Seq(ServerFrames \cup {f})
        BY <1>1, SeqSubset
      <3>. QED
        BY <1>1, <2>1, <3>1
    <2>. HIDE DEF s
    <2>3. \A p \in 1..Len(s') : p \in 1..Len(s) \/ p = Len(s) + 1
      BY <1>1, <2>2
    <2>4. \A p \in 1..Len(s) : p \in 1..Len(s')
      BY <1>1, <2>2
    <2>5. ASSUME NEW p \in 1..Len(s')
          PROVE  /\ s'[p].kind = "welcome" => p = 1 /\ s'[p].acknowledged = db.acknowledged
                 /\ s'[p].kind # "protocol_error"
      <3>1. CASE p \in 1..Len(s)
        BY <2>2, <3>1 DEF FromServer, WelcomeFirst, NoErrors, s
      <3>2. CASE p = Len(s) + 1
        <4>1. s = <<>> => p = 1
          BY <3>2
        <4>. QED
          BY <1>3, <2>2, <3>2, <4>1 DEF s
      <3>. QED
        BY <2>3, <3>1, <3>2
    <2>6. ASSUME NEW p \in 1..Len(s'), IsMessage(s'[p])
          PROVE  \/ s'[p].msg.prev <= db.received
                 \/ \E q \in 1..p - 1 : IsMessage(s'[q]) /\ s'[q].msg.seq = s'[p].msg.prev
      <3>1. ASSUME NEW q \in 1..p - 1 PROVE q \in 1..Len(s) /\ s'[q] = s[q]
        BY <1>1, <2>2, <3>1
      <3>2. CASE p \in 1..Len(s)
        BY <2>2, <2>6, <3>1, <3>2 DEF FromServer, CommandsChained, s
      <3>3. CASE p = Len(s) + 1
        <4>1. p - 1 = Len(s) /\ s'[p] = f
          BY <1>1, <2>2, <3>3
        <4>2. \/ f.msg.prev <= db.received
              \/ \E q \in 1..Len(s) : IsMessage(s[q]) /\ s[q].msg.seq = f.msg.prev
          BY <1>3, <2>6, <4>1 DEF s
        <4>. QED
          BY <3>1, <4>1, <4>2
      <3>. QED
        BY <2>3, <3>2, <3>3
    <2>7. FromServer'
      BY <2>5, <2>6 DEF FromServer, WelcomeFirst, NoErrors, CommandsChained, s, IsMessage
    <2>8. Len(s) + 1 \in 1..Len(s')
      BY <1>1, <2>2
    <2>. QED
      BY <1>3, <2>2, <2>4, <2>7, <2>8 DEF s
  <1>. QED
    BY <1>2, <1>3

-----------------------------------------------------------------------------
(* The steps. *)

\* A step that leaves the link alone and the stored rows of the mailbox.
LEMMA QuietReports ==
    ASSUME ReportInv, MailboxInv', \A k \in 1..Len(db.inbox) : mailbox'[k] = mailbox[k],
           UNCHANGED <<ackedRows, recorded, session, sentSequence, callbacks, toHost, toServer, db,
                       hostMemory>>
    PROVE  ReportInv'
  <1>1. ToReport' /\ FromServer' /\ SentPlaced' /\ CallbacksStored' /\ Sockets' /\ CursorsAgree'
    <2>1. UNCHANGED <<up, connected, welcomed, inFlight, stopped>>
      BY DEF hostMemory
    <2>2. ToReport'
      BY <2>1 DEF ReportInv, ToReport, Recorded, Reported, Done, EventsOnTheWay, Drained, HelloFirst
    <2>3. FromServer' /\ SentPlaced' /\ CallbacksStored' /\ Sockets' /\ CursorsAgree'
      BY <2>1 DEF ReportInv, FromServer, WelcomeFirst, NoErrors, CommandsChained, SentPlaced,
                  CallbacksStored, Sockets, CursorsAgree
    <2>. QED
      BY <2>2, <2>3
  <1>2. AcksInOrder(db)'
    <2>1. ASSUME NEW k \in 1..Len(db.inbox)
          PROVE  /\ AckFor(db, mailbox'[k].seq) # {}
                 /\ \A j \in AckFor(db, mailbox'[k].seq) :
                       mailbox'[k].prev = 0 \/ \E i \in AckFor(db, mailbox'[k].prev) : i < j
      <3>1. mailbox'[k] = mailbox[k]
        OBVIOUS
      <3>2. /\ AckFor(db, mailbox[k].seq) # {}
            /\ \A j \in AckFor(db, mailbox[k].seq) :
                  mailbox[k].prev = 0 \/ \E i \in AckFor(db, mailbox[k].prev) : i < j
        BY DEF ReportInv, AcksInOrder
      <3>. QED
        BY <3>1, <3>2
    <2>2. db' = db
      OBVIOUS
    <2>. QED
      BY <2>1, <2>2 DEF AcksInOrder
  <1>. QED
    BY <1>1, <1>2 DEF ReportInv

\* The delivery sends the row behind the last one sent.
LEMMA PumpReports ==
    ASSUME ReportInv, MailboxInv', Pump
    PROVE  ReportInv'
  <1>1. PICK i \in 1..Len(mailbox) :
          /\ mailbox[i].seq > sentSequence
          /\ \A j \in 1..Len(mailbox) : mailbox[j].seq > sentSequence => i <= j
          /\ Reply(<<[kind |-> "message", msg |-> mailbox[i]]>>)
          /\ sentSequence' = mailbox[i].seq
    BY DEF Pump
  <1>2. /\ session = "ready"
        /\ UNCHANGED <<mailbox, ackedRows, recorded, session, callbacks, toServer, db, up,
                       connected, welcomed, inFlight, stopped>>
    BY DEF Pump, serverDisk, hostMemory
  <1>. DEFINE f == [kind |-> "message", msg |-> mailbox[i]]
              prev == mailbox[i].prev
  <1>3. /\ Len(mailbox) \in Nat
        /\ \A k \in 1..Len(mailbox) : mailbox[k].seq \in Nat
        /\ \A k \in 1..Len(mailbox) : mailbox[k].prev = IF k = 1 THEN 0 ELSE mailbox[k - 1].seq
        /\ \A k, j \in 1..Len(mailbox) : k < j => mailbox[k].seq < mailbox[j].seq
    BY MailboxOrder DEF ReportInv
  <1>4. sentSequence \in Nat /\ db.received \in Nat
    BY LinkTypes DEF ReportInv
  <1>5. connected => \/ prev <= db.received
                     \/ \E q \in 1..Len(toHost) : IsMessage(toHost[q]) /\ toHost[q].msg.seq = prev
    <2>. SUFFICES ASSUME connected, ~(prev <= db.received)
                  PROVE  \E q \in 1..Len(toHost) : IsMessage(toHost[q]) /\ toHost[q].msg.seq = prev
      OBVIOUS
    <2>1. i # 1 /\ i - 1 \in 1..Len(mailbox) /\ prev = mailbox[i - 1].seq
      BY <1>3, <1>4
    <2>2. prev <= sentSequence /\ prev \in Nat
      BY <1>1, <1>3, <1>4, <2>1
    <2>3. ~(sentSequence <= db.received)
      BY <1>4, <2>2
    <2>4. PICK q \in 1..Len(toHost) : IsMessage(toHost[q]) /\ toHost[q].msg.seq = sentSequence
      BY <1>2, <2>3 DEF ReportInv, SentPlaced
    <2>5. PICK k \in 1..Len(mailbox) : mailbox[k].seq = sentSequence
      <3>1. toHost[q].msg \in MailboxRows
        BY <2>4, LinkTypes DEF ReportInv
      <3>. QED
        BY <2>4, <3>1 DEF MailboxRows
    <2>6. k <= i - 1
      <3>1. k < i \/ k = i \/ i < k
        BY <1>3
      <3>2. mailbox[i].seq \in Nat /\ (i < k => mailbox[i].seq < mailbox[k].seq)
        BY <1>3
      <3>. QED
        BY <1>1, <1>3, <1>4, <2>5, <3>1, <3>2
    <2>7. sentSequence <= prev
      <3>1. k = i - 1 \/ k < i - 1
        BY <1>3, <2>1, <2>6
      <3>. QED
        BY <1>3, <1>4, <2>1, <2>5, <3>1
    <2>. QED
      BY <1>4, <2>2, <2>4, <2>7
  <1>6. f.kind = "message" /\ f.msg = mailbox[i] /\ IsMessage(f)
    BY DEF IsMessage
  <1>. HIDE DEF f
  <1>7. /\ FromServer'
        /\ ~connected => toHost' = toHost
        /\ connected => Len(toHost) + 1 \in 1..Len(toHost') /\ toHost'[Len(toHost) + 1] = f
    <2>1. Reply(<<f>>)
      BY <1>1 DEF f
    <2>. QED
      BY <1>2, <1>5, <1>6, <2>1, ServerSends DEF ReportInv
  <1>8. SentPlaced'
    BY <1>1, <1>2, <1>6, <1>7 DEF SentPlaced, IsMessage
  <1>9. ToReport' /\ CallbacksStored' /\ CursorsAgree'
    BY <1>2 DEF ReportInv, ToReport, Recorded, Reported, Done, EventsOnTheWay, Drained, HelloFirst,
                CallbacksStored, CursorsAgree
  <1>10. Sockets'
    BY <1>2, <1>7 DEF ReportInv, Sockets
  <1>11. AcksInOrder(db)'
    BY <1>2, AcksStay DEF ReportInv
  <1>. QED
    BY <1>7, <1>8, <1>9, <1>10, <1>11 DEF ReportInv

\* The delivery learns that the host has stored a message.
LEMMA ConfirmReports ==
    ASSUME ReportInv, MailboxInv', Confirm
    PROVE  ReportInv'
  <1>1. /\ callbacks # <<>> /\ callbacks' = Tail(callbacks)
        /\ sentSequence' = sentSequence \/ sentSequence' = Head(callbacks)
        /\ UNCHANGED <<mailbox, ackedRows, recorded, session, toHost, toServer, db, up,
                       connected, welcomed, inFlight, stopped>>
    BY DEF Confirm, delivery, serverDisk, hostMemory
  <1>2. callbacks \in Seq(0..MaxSequence)
    BY DEF ReportInv, MailboxInv, Types
  <1>3. /\ Len(callbacks) \in Nat /\ Len(callbacks) >= 1 /\ Head(callbacks) = callbacks[1]
        /\ Len(callbacks') = Len(callbacks) - 1
        /\ \A c \in 1..Len(callbacks) - 1 : callbacks'[c] = callbacks[c + 1]
    BY <1>1, <1>2, TailFacts
  <1>4. Head(callbacks) <= db.received
    BY <1>3 DEF ReportInv, CallbacksStored
  <1>5. CallbacksStored'
    <2>1. ASSUME NEW c \in 1..Len(callbacks') PROVE callbacks'[c] <= db.received
      <3>1. c + 1 \in 1..Len(callbacks) /\ callbacks'[c] = callbacks[c + 1]
        BY <1>3
      <3>. QED
        BY <3>1 DEF ReportInv, CallbacksStored
    <2>. QED
      BY <1>1, <2>1 DEF CallbacksStored
  <1>6. SentPlaced'
    BY <1>1, <1>4 DEF ReportInv, SentPlaced
  <1>7. ToReport'
    BY <1>1 DEF ReportInv, ToReport, Recorded, Reported, Done, EventsOnTheWay, Drained, HelloFirst
  <1>8. FromServer' /\ Sockets' /\ CursorsAgree'
    BY <1>1 DEF ReportInv, FromServer, WelcomeFirst, NoErrors, CommandsChained, Sockets,
                CursorsAgree
  <1>9. AcksInOrder(db)'
    BY <1>1, AcksStay DEF ReportInv
  <1>. QED
    BY <1>5, <1>6, <1>7, <1>8, <1>9 DEF ReportInv

\* What a step does to the reports: the host queues more, or the server applies
\* the next one.
ReportStep ==
    \/ recorded' = recorded /\ Len(db.outbox) <= Len(db'.outbox)
    \/ /\ Len(recorded) < Len(db.outbox)
       /\ recorded' = Append(recorded, Len(recorded) + 1)
       /\ UNCHANGED db

\* The hello is accepted: the host's cursor is one of the server's.
LEMMA HelloReports ==
    ASSUME ReportInv, MailboxInv', toServer # <<>>, Head(toServer).kind = "hello",
           ServerHello(Head(toServer)), toServer' = Tail(toServer),
           UNCHANGED <<db, hostMemory, faults>>
    PROVE  ReportInv' /\ ReportStep
  <1>. DEFINE cursor == Head(toServer).acknowledged
              f == [kind |-> "welcome", acknowledged |-> cursor]
  <1>1. /\ toServer \in Seq(HostFrames) /\ toHost \in Seq(ServerFrames)
        /\ Len(recorded) \in Nat /\ Len(db.outbox) \in Nat
    BY LinkTypes DEF ReportInv
  <1>2. Head(toServer) = toServer[1] /\ 1 \in 1..Len(toServer)
    BY <1>1, TailFacts
  <1>3. /\ session = "open" /\ cursor \in ackedRows \cup {0}
        /\ connected => cursor = db.acknowledged
    BY <1>2 DEF ReportInv, ToReport, HelloFirst
  <1>4. /\ cursor \in Nat /\ cursor <= db.received /\ cursor <= LastAcknowledged
        /\ LastAcknowledged \in Nat
    <2>1. LastAcknowledged \in 0..MaxSequence
      BY LastAcknowledgedIsMax DEF ReportInv, MailboxInv
    <2>. QED
      BY <1>3, <2>1, AckedReceived DEF ReportInv
  <1>5. ~(cursor > LastAcknowledged \/ (cursor > 0 /\ cursor \notin ackedRows))
    BY <1>3, <1>4
  <1>6. /\ Reply(<<f>>) /\ session' = "ready" /\ sentSequence' = cursor
        /\ UNCHANGED <<mailbox, ackedRows, recorded, callbacks, up, connected, welcomed, inFlight,
                       stopped>>
    BY <1>5 DEF ServerHello, serverDisk, hostMemory
  <1>7. f.kind = "welcome" /\ f.acknowledged = cursor /\ ~IsMessage(f) /\ f.kind # "protocol_error"
    BY DEF IsMessage
  <1>8. toHost = <<>>
    BY <1>3 DEF ReportInv, Sockets
  <1>. HIDE DEF f, cursor
  <1>9. FromServer' /\ (~connected => toHost' = toHost)
    BY <1>3, <1>6, <1>7, <1>8, ServerSends DEF ReportInv
  <1>10. /\ EventsOnTheWay' /\ Drained'
         /\ \A p \in 1..Len(toServer') : toServer'[p].kind # "hello"
    <2>1. ~IsEvent(Head(toServer))
      BY DEF IsEvent
    <2>. QED
      BY <1>1, <1>3, <1>6, <2>1, ServerReads DEF ReportInv, ToReport
  <1>11. ToReport'
    BY <1>6, <1>10 DEF ReportInv, ToReport, Recorded, Reported, Done, HelloFirst
  <1>12. SentPlaced' /\ CallbacksStored' /\ CursorsAgree'
    BY <1>4, <1>6 DEF ReportInv, SentPlaced, CallbacksStored, CursorsAgree
  <1>13. Sockets'
    BY <1>6, <1>9 DEF ReportInv, Sockets
  <1>14. AcksInOrder(db)'
    BY <1>6, AcksStay DEF ReportInv
  <1>. QED
    BY <1>1, <1>6, <1>9, <1>11, <1>12, <1>13, <1>14 DEF ReportInv, ReportStep

\* The event the server reads has its receipt or is the next one, which the
\* server applies.
LEMMA EventReports ==
    ASSUME ReportInv, MailboxInv', toServer # <<>>, Head(toServer).kind = "event",
           ServerEvent(Head(toServer)), toServer' = Tail(toServer),
           UNCHANGED <<db, hostMemory, faults>>
    PROVE  ReportInv' /\ ReportStep
  <1>. DEFINE id == Head(toServer).id
              e == Head(toServer).event
              f == [kind |-> "event_ack", id |-> id]
              n == Len(recorded)
  <1>1. /\ toServer \in Seq(HostFrames) /\ Len(toServer) \in Nat
        /\ n \in Nat /\ Len(db.outbox) \in Nat /\ recorded \in Seq(Settled)
    BY LinkTypes DEF ReportInv
  <1>2. Head(toServer) = toServer[1] /\ 1 \in 1..Len(toServer) /\ Head(toServer) \in HostFrames
    BY <1>1, TailFacts
  <1>3. id \in 1..Len(db.outbox) /\ e = db.outbox[id].event
    BY <1>2, HostFrameTypes DEF ReportInv, IsEvent
  <1>4. id <= n + 1
    <2>1. \A q : q \notin 1..1 - 1
      OBVIOUS
    <2>. QED
      BY <1>2, <2>1 DEF ReportInv, ToReport, EventsOnTheWay, IsEvent
  <1>5. Recorded /\ AcksInOrder(db) /\ MailboxInv
    BY DEF ReportInv, ToReport
  <1>6. HasReceipt(id) <=> id <= n
    BY <1>1, <1>3, <1>5 DEF HasReceipt, Recorded
  <1>7. e.type = "ack" => ~AckOutOfOrder(e.seq)
    BY <1>3, <1>4, <1>5, NeverOutOfOrder
  <1>8. /\ session = "ready"
        /\ Reply(<<f>>)
        /\ IF HasReceipt(id) THEN recorded' = recorded ELSE recorded' = Append(recorded, id)
        /\ callbacks' = IF e.type = "ack" THEN Append(callbacks, e.seq) ELSE callbacks
        /\ UNCHANGED <<mailbox, session, sentSequence>>
    BY <1>7 DEF ServerEvent, serverDisk, delivery
  <1>9. UNCHANGED <<up, connected, welcomed, inFlight, stopped>>
    BY DEF hostMemory
  <1>10. /\ f.kind = "event_ack" /\ ~IsMessage(f) /\ f.kind # "protocol_error"
         /\ f.kind # "welcome"
    BY DEF IsMessage
  <1>. HIDE DEF f, id, e, n
  <1>11. /\ FromServer' /\ (~connected => toHost' = toHost)
         /\ \A p \in 1..Len(toHost) : p \in 1..Len(toHost') /\ toHost'[p] = toHost[p]
    BY <1>8, <1>9, <1>10, ServerSends DEF ReportInv
  \* The receipts.
  <1>12. /\ Len(recorded') \in Nat /\ n <= Len(recorded') /\ id <= Len(recorded')
         /\ Recorded' /\ ReportStep
    <2>1. CASE id <= n
      BY <1>1, <1>5, <1>6, <1>8, <2>1 DEF Recorded, ReportStep, n
    <2>2. CASE ~(id <= n)
      <3>1. id = n + 1
        BY <1>1, <1>3, <1>4, <2>2
      <3>2. recorded' = Append(recorded, id)
        BY <1>6, <1>8, <2>2
      <3>3. /\ Len(recorded') = n + 1 /\ recorded'[n + 1] = id
            /\ \A i \in 1..n : recorded'[i] = recorded[i]
        BY <1>1, <3>2, AppendFacts DEF n
      <3>4. Recorded'
        <4>1. ASSUME NEW i \in 1..n + 1 PROVE recorded'[i] = i
          <5>1. i \in 1..n \/ i = n + 1
            BY <1>1
          <5>. QED
            BY <1>5, <3>1, <3>3, <5>1 DEF Recorded, n
        <4>. QED
          BY <3>3, <4>1 DEF Recorded
      <3>5. Len(recorded) < Len(db.outbox)
        BY <1>1, <1>3, <3>1 DEF n
      <3>. QED
        BY <1>1, <3>1, <3>2, <3>3, <3>4, <3>5 DEF ReportStep, n
    <2>. QED
      BY <2>1, <2>2
  <1>13. /\ EventsOnTheWay' /\ Drained'
         /\ \A p \in 1..Len(toServer') : toServer'[p].kind # "hello"
    BY <1>8, <1>9, <1>12, ServerReads DEF ReportInv, ToReport, id, n
  <1>14. Reported'
    <2>1. 1..n \subseteq 1..Len(recorded')
      BY <1>1, <1>12
    <2>2. Done(db') = Done(db)
      OBVIOUS
    <2>. QED
      BY <2>1, <2>2 DEF ReportInv, ToReport, Reported, n
  <1>15. ToReport'
    BY <1>12, <1>13, <1>14 DEF ToReport, HelloFirst
  <1>16. SentPlaced'
    BY <1>8, <1>9, <1>11 DEF ReportInv, SentPlaced, IsMessage
  <1>17. CallbacksStored'
    <2>1. CASE e.type # "ack"
      BY <1>8, <2>1 DEF ReportInv, CallbacksStored
    <2>2. CASE e.type = "ack"
      <3>1. PICK k \in 1..Len(db.inbox) : mailbox[k].seq = e.seq
        <4>1. Stored(db)
          BY DEF ReportInv, MailboxInv
        <4>. QED
          BY <1>3, <2>2, <4>1 DEF Stored, e, id
      <3>2. k \in 1..Len(mailbox) /\ k <= Len(db.inbox)
        BY <1>5, MailboxOrder
      <3>3. e.seq <= db.received
        BY <1>5, <3>1, <3>2, ReceivedRows
      <3>4. callbacks \in Seq(0..MaxSequence) /\ callbacks' = Append(callbacks, e.seq)
        BY <1>8, <2>2 DEF ReportInv, MailboxInv, Types
      <3>5. /\ Len(callbacks) \in Nat /\ Len(callbacks') = Len(callbacks) + 1
            /\ \A c \in 1..Len(callbacks) : callbacks'[c] = callbacks[c]
            /\ callbacks'[Len(callbacks) + 1] = e.seq
        BY <3>4, AppendFacts
      <3>6. \A c \in 1..Len(callbacks') : c \in 1..Len(callbacks) \/ c = Len(callbacks) + 1
        BY <3>5
      <3>. QED
        BY <3>3, <3>5, <3>6 DEF ReportInv, CallbacksStored
    <2>. QED
      BY <2>1, <2>2
  <1>18. Sockets' /\ CursorsAgree'
    BY <1>8, <1>9, <1>11 DEF ReportInv, Sockets, CursorsAgree
  <1>19. AcksInOrder(db)'
    BY <1>8, AcksStay DEF ReportInv
  <1>. QED
    BY <1>11, <1>12, <1>15, <1>16, <1>17, <1>18, <1>19 DEF ReportInv

\* A new socket starts with the hello.
LEMMA ConnectReports ==
    ASSUME ReportInv, MailboxInv', Connect
    PROVE  ReportInv'
  <1>. DEFINE f == [kind |-> "hello", acknowledged |-> db.acknowledged]
  <1>1. /\ ~connected /\ up /\ session' = "open" /\ callbacks' = <<>> /\ toHost' = <<>>
        /\ toServer' = <<f>>
        /\ UNCHANGED <<mailbox, ackedRows, recorded, db, up, welcomed, inFlight, stopped>>
    BY DEF Connect, serverDisk
  <1>2. inFlight = {} /\ ~welcomed
    BY <1>1 DEF ReportInv, Sockets
  <1>3. db.acknowledged \in ackedRows \cup {0}
    BY DEF ReportInv, MailboxInv, Acked
  <1>4. \A p \in 1..Len(toServer') : p = 1 /\ toServer'[p] = f
    BY <1>1
  <1>5. ~IsEvent(f) /\ f.kind = "hello" /\ f.acknowledged = db.acknowledged
    BY DEF IsEvent
  <1>. HIDE DEF f
  <1>6. ToReport'
    <2>1. EventsOnTheWay'
      BY <1>4, <1>5 DEF EventsOnTheWay, IsEvent
    <2>2. Drained'
      BY <1>1, <1>2 DEF Drained
    <2>3. HelloFirst'
      BY <1>1, <1>3, <1>4, <1>5 DEF HelloFirst
    <2>. QED
      BY <1>1, <2>1, <2>2, <2>3 DEF ReportInv, ToReport, Recorded, Reported, Done
  <1>7. FromServer' /\ SentPlaced' /\ CallbacksStored'
    BY <1>1 DEF FromServer, WelcomeFirst, NoErrors, CommandsChained, SentPlaced, CallbacksStored
  <1>8. Sockets' /\ CursorsAgree'
    BY <1>1, <1>2 DEF ReportInv, Sockets, CursorsAgree
  <1>9. AcksInOrder(db)'
    BY <1>1, AcksStay DEF ReportInv
  <1>. QED
    BY <1>6, <1>7, <1>8, <1>9 DEF ReportInv

\* The host sends the first pending event it has not sent: the one before it is
\* settled or on its way.
LEMMA DrainReports ==
    ASSUME ReportInv, MailboxInv', Drain
    PROVE  ReportInv'
  <1>1. PICK id \in 1..Len(db.outbox) :
          /\ \A j \in 1..Len(db.outbox) :
                db.outbox[j].state = "pending" /\ j \notin inFlight => id <= j
          /\ inFlight' = inFlight \cup {id}
          /\ toServer' = IF session = "closed" THEN toServer
                         ELSE Append(toServer, [kind |-> "event", id |-> id,
                                                event |-> db.outbox[id].event])
    BY DEF Drain
  <1>. DEFINE f == [kind |-> "event", id |-> id, event |-> db.outbox[id].event]
              s == toServer
              n == Len(recorded)
  <1>2. /\ up /\ connected
        /\ UNCHANGED <<mailbox, ackedRows, recorded, session, sentSequence, callbacks, toHost, db,
                       up, connected, welcomed, stopped>>
    BY DEF Drain, serverVars, serverDisk, delivery
  <1>3. /\ s \in Seq(HostFrames) /\ Len(s) \in Nat /\ n \in Nat /\ Len(db.outbox) \in Nat
        /\ inFlight \subseteq 1..Len(db.outbox)
    BY LinkTypes DEF ReportInv
  <1>4. f.kind = "event" /\ f.id = id /\ IsEvent(f)
    BY DEF IsEvent
  <1>. HIDE DEF f, s, n
  <1>5. /\ FromServer' /\ SentPlaced' /\ CallbacksStored' /\ Recorded' /\ Reported'
        /\ CursorsAgree'
    BY <1>2 DEF ReportInv, ToReport, FromServer, WelcomeFirst, NoErrors, CommandsChained,
                SentPlaced, CallbacksStored, Recorded, Reported, Done, CursorsAgree
  <1>6. AcksInOrder(db)'
    BY <1>2, AcksStay DEF ReportInv
  <1>7. CASE session = "closed"
    <2>1. toServer' = toServer
      BY <1>1, <1>7
    <2>2. EventsOnTheWay' /\ HelloFirst' /\ Drained' /\ Sockets'
      BY <1>2, <1>7, <2>1 DEF ReportInv, ToReport, EventsOnTheWay, HelloFirst, Drained, Sockets
    <2>. QED
      BY <1>5, <1>6, <2>2 DEF ReportInv, ToReport
  <1>8. CASE session # "closed"
    <2>1. s' = Append(s, f)
      BY <1>1, <1>8 DEF s, f
    <2>2. /\ Len(s') = Len(s) + 1 /\ s'[Len(s) + 1] = f
          /\ \A p \in 1..Len(s) : s'[p] = s[p]
      BY <1>3, <2>1, AppendFacts
    <2>3. /\ \A p \in 1..Len(s') : p \in 1..Len(s) \/ p = Len(s) + 1
          /\ \A p \in 1..Len(s) : p \in 1..Len(s')
          /\ Len(s) + 1 \in 1..Len(s')
      BY <1>3, <2>2
    <2>4. \/ id <= n + 1
          \/ \E q \in 1..Len(s) : IsEvent(s[q]) /\ s[q].id = id - 1
      <3>1. CASE id = 1
        BY <1>3, <3>1
      <3>2. CASE id # 1
        <4>1. id - 1 \in 1..Len(db.outbox) /\ ~(id <= id - 1)
          BY <1>3, <3>2
        <4>2. CASE db.outbox[id - 1].state # "pending"
          <5>1. id - 1 \in 1..n
            BY <4>1, <4>2 DEF ReportInv, ToReport, Reported, Done, n
          <5>. QED
            BY <1>3, <5>1
        <4>3. CASE id - 1 \in inFlight
          <5>1. \/ id - 1 <= n
                \/ \E q \in 1..Len(s) : IsEvent(s[q]) /\ s[q].id = id - 1
            BY <1>2, <1>8, <4>3 DEF ReportInv, ToReport, Drained, s, n
          <5>. QED
            BY <1>3, <5>1
        <4>. QED
          BY <1>1, <4>1, <4>2, <4>3
      <3>. QED
        BY <3>1, <3>2
    <2>5. EventsOnTheWay'
      <3>1. ASSUME NEW p \in 1..Len(s'), IsEvent(s'[p])
            PROVE  \/ s'[p].id <= n + 1
                   \/ \E q \in 1..p - 1 : IsEvent(s'[q]) /\ s'[q].id = s'[p].id - 1
        <4>1. ASSUME NEW q \in 1..p - 1 PROVE q \in 1..Len(s) /\ s'[q] = s[q]
          BY <1>3, <2>2, <4>1
        <4>2. CASE p \in 1..Len(s)
          BY <2>2, <3>1, <4>1, <4>2 DEF ReportInv, ToReport, EventsOnTheWay, s, n
        <4>3. CASE p = Len(s) + 1
          <5>1. p - 1 = Len(s) /\ s'[p] = f
            BY <1>3, <2>2, <4>3
          <5>. QED
            BY <1>4, <2>4, <4>1, <5>1
        <4>. QED
          BY <2>3, <4>2, <4>3
      <3>. QED
        BY <1>2, <3>1 DEF EventsOnTheWay, s, n, IsEvent
    <2>6. Drained'
      <3>1. ASSUME NEW j \in inFlight'
            PROVE  j <= n \/ \E p \in 1..Len(s') : IsEvent(s'[p]) /\ s'[p].id = j
        <4>1. CASE j = id
          BY <1>4, <2>2, <2>3, <4>1
        <4>2. CASE j \in inFlight
          <5>1. j <= n \/ \E p \in 1..Len(s) : IsEvent(s[p]) /\ s[p].id = j
            BY <1>2, <1>8, <4>2 DEF ReportInv, ToReport, Drained, s, n
          <5>. QED
            BY <2>2, <2>3, <5>1
        <4>. QED
          BY <1>1, <4>1, <4>2
      <3>. QED
        BY <1>2, <3>1 DEF Drained, s, n, IsEvent
    <2>7. HelloFirst'
      <3>1. ASSUME NEW p \in 1..Len(s'), s'[p].kind = "hello" PROVE p \in 1..Len(s) /\ s'[p] = s[p]
        BY <1>4, <2>2, <2>3, <3>1
      <3>. QED
        BY <1>2, <3>1 DEF ReportInv, ToReport, HelloFirst, s
    <2>8. Sockets'
      BY <1>2, <1>8 DEF ReportInv, Sockets
    <2>. QED
      BY <1>5, <1>6, <2>5, <2>6, <2>7, <2>8 DEF ReportInv, ToReport
  <1>. QED
    BY <1>7, <1>8

\* The host loses its side of the socket, with or without its process.
LEMMA HostGoneReports ==
    ASSUME ReportInv, MailboxInv', ~connected', ~welcomed', inFlight' = {}, toHost' = <<>>,
           UNCHANGED <<serverVars, toServer>>,
           db'.received \in Nat, db.received <= db'.received, Done(db') \subseteq Done(db),
           AcksInOrder(db'), CursorsAgree'
    PROVE  ReportInv'
  <1>1. UNCHANGED <<mailbox, ackedRows, recorded, session, sentSequence, callbacks>>
    BY DEF serverVars, serverDisk, delivery
  <1>2. FromServer' /\ SentPlaced' /\ Sockets'
    BY <1>1 DEF ReportInv, FromServer, WelcomeFirst, NoErrors, CommandsChained, SentPlaced, Sockets
  <1>3. CallbacksStored'
    <2>1. callbacks \in Seq(0..MaxSequence) /\ db.received \in Nat
      BY LinkTypes DEF ReportInv, MailboxInv, Types
    <2>2. \A c \in 1..Len(callbacks) : callbacks[c] \in Nat
      <3>1. \A c \in 1..Len(callbacks) : callbacks[c] \in 0..MaxSequence
        BY <2>1, SeqElement, Zenon
      <3>. QED
        BY <3>1, HostMailboxAssumption
    <2>. QED
      BY <1>1, <2>1, <2>2 DEF ReportInv, CallbacksStored
  <1>4. ToReport'
    <2>1. Recorded' /\ EventsOnTheWay' /\ Drained' /\ HelloFirst'
      BY <1>1 DEF ReportInv, ToReport, Recorded, EventsOnTheWay, Drained, HelloFirst
    <2>2. Reported'
      <3>1. Done(db') \subseteq 1..Len(recorded')
        BY <1>1 DEF ReportInv, ToReport, Reported
      <3>. QED
        BY <3>1 DEF Reported, Done
    <2>. QED
      BY <2>1, <2>2 DEF ToReport
  <1>5. AcksInOrder(db)'
    BY <1>1 DEF AcksInOrder, AckFor
  <1>. QED
    BY <1>2, <1>3, <1>4, <1>5 DEF ReportInv

\* The server loses its side.
LEMMA ServerGoneReports ==
    ASSUME ReportInv, MailboxInv', ServerLosesSocket
    PROVE  ReportInv'
  <1>1. /\ session' = "closed" /\ callbacks' = <<>> /\ toServer' = <<>>
        /\ UNCHANGED <<mailbox, ackedRows, recorded, sentSequence, toHost, db, up, connected,
                       welcomed, inFlight, stopped>>
    BY DEF ServerLosesSocket, serverDisk, hostMemory
  <1>2. FromServer' /\ SentPlaced' /\ CallbacksStored' /\ Sockets' /\ CursorsAgree'
    BY <1>1 DEF ReportInv, FromServer, WelcomeFirst, NoErrors, CommandsChained, SentPlaced,
                CallbacksStored, Sockets, CursorsAgree
  <1>3. ToReport'
    BY <1>1 DEF ReportInv, ToReport, Recorded, Reported, Done, EventsOnTheWay, Drained, HelloFirst
  <1>4. AcksInOrder(db)'
    BY <1>1, AcksStay DEF ReportInv
  <1>. QED
    BY <1>2, <1>3, <1>4 DEF ReportInv

\* The host works on its own: an execution ends, or the process starts.
LEMMA HostWorksReports ==
    ASSUME ReportInv, MailboxInv', Keeps(db, db'), Done(db') \subseteq Done(db),
           db'.acknowledged = db.acknowledged, ~up' => ~connected,
           UNCHANGED <<serverVars, toHost, toServer, connected, welcomed, inFlight, stopped>>
    PROVE  ReportInv'
  <1>1. UNCHANGED <<mailbox, ackedRows, recorded, session, sentSequence, callbacks>>
    BY DEF serverVars, serverDisk, delivery
  <1>2. db'.received = db.received
    BY DEF Keeps
  <1>3. FromServer' /\ SentPlaced' /\ CallbacksStored' /\ Sockets' /\ CursorsAgree'
    BY <1>1, <1>2 DEF ReportInv, FromServer, WelcomeFirst, NoErrors, CommandsChained, SentPlaced,
                      CallbacksStored, Sockets, CursorsAgree
  <1>4. ToReport'
    <2>1. Recorded' /\ EventsOnTheWay' /\ Drained' /\ HelloFirst'
      BY <1>1 DEF ReportInv, ToReport, Recorded, EventsOnTheWay, Drained, HelloFirst
    <2>2. Reported'
      <3>1. Done(db') \subseteq 1..Len(recorded')
        BY <1>1 DEF ReportInv, ToReport, Reported
      <3>. QED
        BY <3>1 DEF Reported, Done
    <2>. QED
      BY <2>1, <2>2 DEF ToReport
  <1>5. AcksInOrder(db)'
    <2>1. db \in Databases /\ db' \in Databases /\ AcksInOrder(db)
      BY DEF ReportInv, MailboxInv, Types
    <2>2. AcksInOrder(db')
      BY <2>1, AcksKept
    <2>. QED
      BY <1>1, <2>2 DEF AcksInOrder, AckFor
  <1>. QED
    BY <1>3, <1>4, <1>5 DEF ReportInv

\* The host reads a frame and stays connected.
LEMMA HostReadsReports ==
    ASSUME ReportInv, MailboxInv', connected, toHost # <<>>, toHost' = Tail(toHost),
           UNCHANGED <<serverVars, toServer, up, connected, stopped>>, inFlight' \subseteq inFlight,
           db'.received \in Nat, db.received <= db'.received,
           IsMessage(Head(toHost)) => Head(toHost).msg.seq <= db'.received,
           Done(db') \subseteq 1..Len(recorded), AcksInOrder(db')
    PROVE  ReportInv'
  <1>1. UNCHANGED <<mailbox, ackedRows, recorded, session, sentSequence, callbacks>>
    BY DEF serverVars, serverDisk, delivery
  <1>2. FromServer' /\ SentPlaced'
    BY <1>1, HostReads DEF ReportInv
  <1>3. session # "open"
    BY DEF ReportInv, Sockets
  <1>4. Recorded' /\ EventsOnTheWay' /\ Drained' /\ HelloFirst'
    BY <1>1, <1>3 DEF ReportInv, ToReport, Recorded, EventsOnTheWay, Drained, HelloFirst
  <1>5. Reported'
    BY <1>1 DEF Reported, Done
  <1>6. CallbacksStored'
    <2>1. callbacks \in Seq(0..MaxSequence) /\ db.received \in Nat
      BY LinkTypes DEF ReportInv, MailboxInv, Types
    <2>2. \A c \in 1..Len(callbacks) : callbacks[c] \in Nat
      <3>1. \A c \in 1..Len(callbacks) : callbacks[c] \in 0..MaxSequence
        BY <2>1, SeqElement, Zenon
      <3>. QED
        BY <3>1, HostMailboxAssumption
    <2>. QED
      BY <1>1, <2>1, <2>2 DEF ReportInv, CallbacksStored
  <1>7. Sockets' /\ CursorsAgree'
    BY <1>1, <1>3 DEF ReportInv, Sockets, CursorsAgree
  <1>8. AcksInOrder(db)'
    BY <1>1 DEF AcksInOrder, AckFor
  <1>. QED
    BY <1>2, <1>4, <1>5, <1>6, <1>7, <1>8 DEF ReportInv, ToReport

\* A message the host takes is stored, once, with its acknowledgement.
LEMMA MessageStored ==
    ASSUME ReportInv, toHost # <<>>, IsMessage(Head(toHost)),
           Verdict(db, Head(toHost).msg) \in {"known", "new"},
           NEW g, g = Receive(db, Head(toHost).msg), db' = g \/ db' = PumpHost(g)
    PROVE  /\ db'.received \in Nat /\ db.received <= db'.received
           /\ Head(toHost).msg.seq <= db'.received
           /\ Done(db') \subseteq Done(db)
           /\ AcksInOrder(db')
           /\ Len(db.outbox) <= Len(db'.outbox)
  <1>. DEFINE row == Head(toHost).msg
  <1>1. MailboxInv /\ AcksInOrder(db) /\ FromServer /\ CommandsChained
    BY DEF ReportInv, FromServer
  <1>2. /\ toHost \in Seq(ServerFrames) /\ Len(toHost) \in Nat
        /\ db \in Databases /\ db.received \in Nat /\ Len(db.outbox) \in Nat
        /\ \A p \in 1..Len(toHost) : IsMessage(toHost[p]) =>
              /\ toHost[p].msg \in MailboxRows
              /\ toHost[p].msg.seq \in Nat /\ toHost[p].msg.prev \in Nat
    BY <1>1, LinkTypes
  <1>3. Head(toHost) = toHost[1] /\ 1 \in 1..Len(toHost)
    BY <1>2, TailFacts
  <1>4. row \in MailboxRows /\ row.seq \in Nat
    BY <1>2, <1>3
  <1>5. row.prev <= db.received
    <2>1. \A q : q \notin 1..1 - 1
      OBVIOUS
    <2>. QED
      BY <1>1, <1>3, <2>1 DEF CommandsChained
  <1>6. PICK r \in 1..Len(mailbox) : row = mailbox[r]
    BY <1>4 DEF MailboxRows
  <1>7. row \in Rows
    BY <1>1, <1>4, RowTypes
  <1>8. Verdict(db, row) = "known" => row.seq <= db.received
    BY <1>1, <1>4, <1>5, CommandPlaced
  <1>9. Verdict(db, row) # "known" => ~(row.seq <= db.received)
    BY DEF Verdict
  <1>10. g = Receive(db, row)
    OBVIOUS
  <1>. HIDE DEF row
  <1>11. /\ g \in Databases
         /\ Verdict(db, row) = "known" => g.received = db.received
         /\ Verdict(db, row) # "known" => g.received = row.seq
         /\ Len(g.outbox) >= Len(db.outbox)
    <2>. DEFINE k == Receive(db, row)
    <2>1. /\ k \in Databases
          /\ Verdict(db, row) = "known" => k.received = db.received
          /\ Verdict(db, row) # "known" => k.received = row.seq
          /\ Len(k.outbox) >= Len(db.outbox)
      BY <1>2, <1>7, ReceiveStores
    <2>. HIDE DEF k
    <2>2. g = k
      BY <1>10 DEF k
    <2>. QED
      BY <2>1, <2>2
  <1>12. Done(g) \subseteq Done(db)
    BY <1>2, <1>7, <1>10, ReceiveQueues
  <1>13. AcksInOrder(g)
    BY <1>1, <1>6, <1>10, AcksReceived DEF row
  <1>14. g.received \in Nat /\ db.received <= g.received /\ row.seq <= g.received
    BY <1>2, <1>4, <1>8, <1>9, <1>11
  <1>15. Len(g.outbox) \in Nat
    BY <1>11 DEF Databases
  <1>16. /\ db'.received = g.received /\ Done(db') \subseteq Done(g) /\ AcksInOrder(db')
         /\ Len(db'.outbox) \in Nat /\ Len(g.outbox) <= Len(db'.outbox)
    <2>1. CASE db' = g
      BY <1>13, <1>15, <2>1
    <2>2. CASE db' = PumpHost(g)
      <3>1. db' \in Databases /\ Keeps(g, db') /\ Done(db') \subseteq Done(g)
        BY <1>11, <2>2, PumpHostKeeps, PumpHostDone
      <3>2. AcksInOrder(db')
        BY <1>11, <1>13, <3>1, AcksKept
      <3>3. Len(db'.outbox) \in Nat
        BY <3>1 DEF Databases
      <3>. QED
        BY <3>1, <3>2, <3>3, <1>15 DEF Keeps
    <2>. QED
      BY <2>1, <2>2
  <1>. QED
    BY <1>2, <1>11, <1>12, <1>14, <1>15, <1>16 DEF row

\* Every frame the host reads: no welcome, message or error stops the client
\* but a message that is refused as a conflict.
LEMMA HostReceiveReports ==
    ASSUME ReportInv, MailboxInv', HostReceive
    PROVE  ReportInv' /\ ReportStep
  <1>. DEFINE f == Head(toHost)
  <1>1. /\ connected /\ toHost # <<>> /\ UNCHANGED <<serverVars, toServer>>
        /\ recorded' = recorded
    BY DEF HostReceive, serverVars, serverDisk
  <1>2. /\ toHost \in Seq(ServerFrames) /\ db \in Databases /\ db.received \in Nat
        /\ Len(db.outbox) \in Nat /\ recorded \in Seq(Settled) /\ Len(recorded) \in Nat
    BY LinkTypes DEF ReportInv
  <1>3. f = toHost[1] /\ 1 \in 1..Len(toHost) /\ f \in ServerFrames
    BY <1>1, <1>2, TailFacts
  <1>4. Done(db) \subseteq 1..Len(recorded) /\ AcksInOrder(db) /\ MailboxInv
    BY DEF ReportInv, ToReport, Reported
  <1>5. CASE f.kind = "welcome" /\ HostWelcome(f)
    <2>1. f.acknowledged = db.acknowledged
      BY <1>3, <1>5 DEF ReportInv, FromServer, WelcomeFirst
    <2>2. /\ db' = PumpHost(db) /\ inFlight' = {} /\ toHost' = Tail(toHost)
          /\ UNCHANGED <<up, connected, stopped>>
      <3>1. ~Adoptable(db, f.acknowledged)
        BY <1>2, <2>1 DEF Adoptable, Databases
      <3>. QED
        BY <1>5, <2>1, <3>1 DEF HostWelcome, Welcome
    <2>3. db' \in Databases /\ Keeps(db, db') /\ Done(db') \subseteq Done(db)
      BY <1>2, <2>2, PumpHostKeeps, PumpHostDone
    <2>4. AcksInOrder(db')
      BY <1>2, <1>4, <2>3, AcksKept
    <2>5. db'.received = db.received /\ Len(db.outbox) <= Len(db'.outbox)
      <3>1. Len(db'.outbox) \in Nat
        BY <2>3 DEF Databases
      <3>. QED
        BY <1>2, <2>3, <3>1 DEF Keeps
    <2>6. ~IsMessage(f)
      BY <1>5 DEF IsMessage
    <2>7. ReportInv'
      BY <1>1, <1>2, <1>4, <2>2, <2>3, <2>4, <2>5, <2>6, HostReadsReports
    <2>. QED
      BY <1>1, <2>5, <2>7 DEF ReportStep
  <1>6. CASE f.kind = "message" /\ HostMessage(f)
    <2>1. IsMessage(f)
      BY <1>6 DEF IsMessage
    <2>2. CASE Verdict(db, f.msg) \in {"known", "new"}
      <3>1. /\ db' = PumpHost(Receive(db, f.msg)) /\ toHost' = Tail(toHost)
            /\ UNCHANGED <<up, connected, inFlight, stopped>>
        BY <1>6, <2>2 DEF HostMessage
      <3>2. /\ db'.received \in Nat /\ db.received <= db'.received /\ f.msg.seq <= db'.received
            /\ Done(db') \subseteq Done(db) /\ AcksInOrder(db') /\ Len(db.outbox) <= Len(db'.outbox)
        BY <1>1, <2>1, <2>2, <3>1, MessageStored
      <3>3. ReportInv'
        BY <1>1, <1>4, <3>1, <3>2, HostReadsReports
      <3>. QED
        BY <1>1, <3>2, <3>3 DEF ReportStep
    <2>3. CASE Verdict(db, f.msg) \notin {"known", "new"}
      <3>1. Stop(Verdict(db, f.msg))
        BY <1>6, <2>3 DEF HostMessage
      <3>2. f.msg \in MailboxRows
        BY <1>3, <1>4, <2>1, ServerFrameTypes
      <3>3. f.msg.prev <= db.received
        <4>1. \A q : q \notin 1..1 - 1
          OBVIOUS
        <4>. QED
          BY <1>3, <2>1, <4>1 DEF ReportInv, FromServer, CommandsChained
      <3>4. Verdict(db, f.msg) = "mailbox_message_conflict"
        BY <1>4, <2>3, <3>2, <3>3, CommandPlaced
      <3>5. /\ stopped' = "mailbox_message_conflict" /\ ~connected' /\ ~welcomed' /\ inFlight' = {}
            /\ toHost' = <<>> /\ UNCHANGED db
        BY <3>1, <3>4 DEF Stop
      <3>6. CursorsAgree'
        BY <3>5 DEF CursorsAgree
      <3>7. ReportInv'
        BY <1>1, <1>2, <1>4, <3>5, <3>6, HostGoneReports
      <3>. QED
        BY <1>1, <1>2, <3>5, <3>7 DEF ReportStep
    <2>. QED
      BY <2>2, <2>3
  <1>7. CASE f.kind = "event_ack" /\ HostEventAck(f)
    <2>1. f.id \in Receipts
      BY <1>3, <1>4, <1>7, ServerFrameTypes
    <2>2. f.id \in 1..Len(recorded) /\ f.id \in 1..Len(db.outbox)
      <3>1. PICK i \in 1..Len(recorded) : f.id = recorded[i]
        BY <2>1 DEF Receipts
      <3>2. recorded[i] = i /\ recorded[i] \in Settled
        BY <1>2 DEF ReportInv, ToReport, Recorded
      <3>. QED
        BY <3>1, <3>2 DEF Settled
    <2>3. /\ db' = Acknowledge(db, f.id) /\ inFlight' \subseteq inFlight /\ toHost' = Tail(toHost)
          /\ UNCHANGED <<up, connected, stopped>>
      BY <1>7 DEF HostEventAck
    <2>4. /\ db' \in Databases /\ Keeps(db, db')
          /\ Done(db') \subseteq Done(db) \cup {f.id}
      <3>. DEFINE id == f.id
      <3>1. id \in 1..Len(db.outbox) /\ db' = Acknowledge(db, id)
        BY <2>2, <2>3
      <3>. HIDE DEF id
      <3>2. db' \in Databases /\ Keeps(db, db') /\ Done(db') \subseteq Done(db) \cup {id}
        BY <1>2, <3>1, AcknowledgeKeeps, AcknowledgeDone
      <3>. QED
        BY <3>2 DEF id
    <2>5. Done(db') \subseteq 1..Len(recorded)
      BY <1>4, <2>2, <2>4
    <2>6. AcksInOrder(db')
      BY <1>2, <1>4, <2>4, AcksKept
    <2>7. db'.received = db.received /\ Len(db.outbox) <= Len(db'.outbox)
      <3>1. Len(db'.outbox) \in Nat
        BY <2>4 DEF Databases
      <3>. QED
        BY <1>2, <2>4, <3>1 DEF Keeps
    <2>8. ~IsMessage(f)
      BY <1>7 DEF IsMessage
    <2>9. ReportInv'
      BY <1>1, <1>2, <2>3, <2>5, <2>6, <2>7, <2>8, HostReadsReports
    <2>. QED
      BY <1>1, <2>7, <2>9 DEF ReportStep
  <1>8. CASE f.kind = "protocol_error"
    BY <1>3, <1>8 DEF ReportInv, FromServer, NoErrors
  <1>. QED
    BY <1>5, <1>6, <1>7, <1>8 DEF HostReceive

\* An execution ends.
LEMMA FinishReports ==
    ASSUME ReportInv, MailboxInv', NEW d \in Dispatches, Finish(d)
    PROVE  ReportInv' /\ ReportStep
  <1>. DEFINE ex == [db.execution EXCEPT ![d] = "terminal"]
              h == [db EXCEPT !.execution = ex]
  <1>1. db \in Databases /\ Len(db.outbox) \in Nat
    BY LinkTypes DEF ReportInv
  <1>2. ex \in [Dispatches -> ExecutionStates]
    BY <1>1 DEF Databases, ExecutionStates
  <1>3. db' = QueueFor(h, "terminal", {d})
    BY DEF Finish
  <1>. HIDE DEF ex
  <1>4. /\ h \in Databases /\ h.inbox = db.inbox /\ h.outbox = db.outbox
        /\ h.received = db.received /\ h.acknowledged = db.acknowledged
    BY <1>1, <1>2 DEF Databases
  <1>. HIDE DEF h
  <1>5. /\ db' \in Databases /\ Keeps(h, db') /\ db'.acknowledged = h.acknowledged
        /\ Done(db') \subseteq Done(h)
    BY <1>3, <1>4, QueueForKeeps, QueueForDone
  <1>6. Keeps(db, db') /\ Done(h) = Done(db)
    BY <1>4, <1>5 DEF Keeps, Done
  <1>7. UNCHANGED <<serverVars, toHost, toServer, up, connected, welcomed, inFlight, stopped>>
    BY DEF Finish, hostMemory
  <1>8. ReportInv'
    <2>1. ~up' => ~connected
      BY <1>7 DEF ReportInv, Sockets
    <2>. QED
      BY <1>4, <1>5, <1>6, <1>7, <2>1, HostWorksReports
  <1>9. Len(db'.outbox) \in Nat /\ Len(db.outbox) <= Len(db'.outbox)
    <2>1. Len(db'.outbox) \in Nat
      BY <1>5 DEF Databases
    <2>. QED
      BY <1>1, <1>6, <2>1 DEF Keeps
  <1>10. recorded' = recorded
    BY <1>7 DEF serverVars, serverDisk
  <1>. QED
    BY <1>8, <1>9, <1>10 DEF ReportStep

\* The host process starts.
LEMMA StartReports ==
    ASSUME ReportInv, MailboxInv', HostStart
    PROVE  ReportInv' /\ ReportStep
  <1>. DEFINE c == Compact(db)
              ambiguous == {d \in Dispatches : c.execution[d] \in {"accepted", "running"}}
              ex == [d \in Dispatches |-> IF d \in ambiguous THEN "interrupted" ELSE c.execution[d]]
              h == [c EXCEPT !.execution = ex]
  <1>1. db \in Databases /\ Len(db.outbox) \in Nat
    BY LinkTypes DEF ReportInv
  <1>2. /\ c \in Databases /\ Keeps(db, c) /\ c.acknowledged = db.acknowledged
        /\ Done(c) \subseteq Done(db)
    BY <1>1, CompactKeeps, CompactDone
  <1>3. db' = QueueFor(h, "interrupted", ambiguous)
    BY DEF HostStart
  <1>. HIDE DEF c
  <1>4. ex \in [Dispatches -> ExecutionStates] /\ ambiguous \in SUBSET Dispatches
    BY <1>2 DEF Databases, ExecutionStates
  <1>. HIDE DEF ex, ambiguous
  <1>5. /\ h \in Databases /\ h.inbox = c.inbox /\ h.outbox = c.outbox
        /\ h.received = c.received /\ h.acknowledged = c.acknowledged
    BY <1>2, <1>4 DEF Databases
  <1>. HIDE DEF h
  <1>6. /\ db' \in Databases /\ Keeps(h, db') /\ db'.acknowledged = h.acknowledged
        /\ Done(db') \subseteq Done(h)
    BY <1>3, <1>4, <1>5, QueueForKeeps, QueueForDone
  <1>7. Keeps(c, db') /\ Done(h) = Done(c)
    BY <1>5, <1>6 DEF Keeps, Done
  <1>8. Keeps(db, db') /\ Done(db') \subseteq Done(db)
    BY <1>1, <1>2, <1>6, <1>7, KeepsTransitive
  <1>9. /\ up' = TRUE
        /\ UNCHANGED <<serverVars, toHost, toServer, connected, welcomed, inFlight, stopped>>
    BY DEF HostStart
  <1>10. ReportInv'
    BY <1>2, <1>5, <1>6, <1>8, <1>9, HostWorksReports
  <1>11. Len(db.outbox) <= Len(db'.outbox) /\ recorded' = recorded
    <2>1. Len(db'.outbox) \in Nat
      BY <1>6 DEF Databases
    <2>. QED
      BY <1>1, <1>8, <1>9, <2>1 DEF Keeps, serverVars, serverDisk
  <1>. QED
    BY <1>10, <1>11 DEF ReportStep

\* The host loses the socket or stops, right after it stored a message too.
LEMMA HostFaultReports ==
    ASSUME ReportInv, MailboxInv', HostLosesSocket \/ HostCrash \/ HostCrashAfterReceive
    PROVE  ReportInv' /\ ReportStep
  <1>1. /\ ~connected' /\ ~welcomed' /\ inFlight' = {} /\ toHost' = <<>>
        /\ UNCHANGED <<serverVars, toServer>>
    BY DEF HostLosesSocket, HostCrash, HostCrashAfterReceive, Crashed
  <1>2. stopped' = stopped \/ stopped' = "no"
    BY DEF HostLosesSocket, HostCrash, HostCrashAfterReceive, Crashed
  <1>3. CursorsAgree'
    BY <1>2 DEF ReportInv, CursorsAgree
  <1>4. /\ db'.received \in Nat /\ db.received <= db'.received /\ Done(db') \subseteq Done(db)
        /\ AcksInOrder(db') /\ Len(db.outbox) <= Len(db'.outbox)
    <2>1. CASE UNCHANGED db
      <3>1. db.received \in Nat /\ Len(db.outbox) \in Nat
        BY LinkTypes DEF ReportInv
      <3>. QED
        BY <2>1, <3>1 DEF ReportInv
    <2>2. CASE HostCrashAfterReceive
      BY <2>2, MessageStored DEF HostCrashAfterReceive, IsMessage
    <2>. QED
      BY <2>1, <2>2 DEF HostLosesSocket, HostCrash
  <1>5. recorded' = recorded
    BY <1>1 DEF serverVars, serverDisk
  <1>6. ReportInv'
    BY <1>1, <1>3, <1>4, HostGoneReports
  <1>. QED
    BY <1>4, <1>5, <1>6 DEF ReportStep

-----------------------------------------------------------------------------
(* The theorems. *)

LEMMA ReportInvInit == Init => ReportInv
  <1>. SUFFICES ASSUME Init PROVE ReportInv
    OBVIOUS
  <1>1. db.inbox = <<>> /\ db.outbox = <<>>
    BY DEF Init
  <1>2. ToReport
    BY <1>1 DEF Init, ToReport, Recorded, Reported, Done, EventsOnTheWay, Drained, HelloFirst
  <1>3. FromServer /\ SentPlaced /\ CallbacksStored /\ Sockets /\ CursorsAgree
    BY DEF Init, FromServer, WelcomeFirst, NoErrors, CommandsChained, SentPlaced,
           CallbacksStored, Sockets, CursorsAgree
  <1>4. AcksInOrder(db)
    BY <1>1 DEF AcksInOrder
  <1>. QED
    BY <1>2, <1>3, <1>4, MailboxInvInit DEF ReportInv

\* Every step keeps the invariant and is a step of OrderedDelivery, or none, for the events.
LEMMA ReportInvNext == ReportInv /\ [Next]_mvars => ReportInv' /\ ReportStep
  <1>. SUFFICES ASSUME ReportInv, [Next]_mvars PROVE ReportInv' /\ ReportStep
    OBVIOUS
  <1>1. MailboxInv' /\ CommandStep
    BY MailboxInvNext DEF ReportInv
  <1>2. Len(db.outbox) \in Nat /\ Len(db.inbox) \in Nat /\ mailbox \in Seq(Rows)
        /\ Len(db.inbox) <= Len(mailbox)
    BY DEF ReportInv, MailboxInv, Types, Databases, Stored
  <1>3. CASE \E d \in Dispatches : EnqueueExecute(d) \/ EnqueueCancel(d)
    <2>1. /\ UNCHANGED <<ackedRows, recorded, session, sentSequence, callbacks, toHost, toServer,
                         db, hostMemory>>
          /\ \E row : mailbox' = Append(mailbox, row)
      BY <1>3 DEF EnqueueExecute, EnqueueCancel, Enqueue, delivery
    <2>2. PICK row : mailbox' = Append(mailbox, row)
      BY <2>1
    <2>3. Len(mailbox) \in Nat /\ \A k \in 1..Len(mailbox) : mailbox'[k] = mailbox[k]
      BY <1>2, <2>2, AppendFacts
    <2>4. \A k \in 1..Len(db.inbox) : mailbox'[k] = mailbox[k]
      BY <1>2, <2>3
    <2>. QED
      BY <1>1, <1>2, <2>1, <2>4, QuietReports DEF ReportStep
  <1>4. CASE EnqueueElsewhere \/ UNCHANGED mvars
    <2>1. UNCHANGED <<mailbox, ackedRows, recorded, session, sentSequence, callbacks, toHost,
                      toServer, db, hostMemory>>
      BY <1>4 DEF EnqueueElsewhere, delivery, mvars, serverVars, serverDisk
    <2>. QED
      BY <1>1, <1>2, <2>1, QuietReports DEF ReportStep
  <1>5. CASE Pump \/ Confirm \/ Connect \/ Drain \/ ServerLosesSocket
    <2>1. UNCHANGED <<recorded, db>>
      BY <1>5 DEF Pump, Confirm, Connect, Drain, ServerLosesSocket, serverVars, serverDisk
    <2>. QED
      BY <1>1, <1>2, <1>5, <2>1, PumpReports, ConfirmReports, ConnectReports, DrainReports,
         ServerGoneReports DEF ReportStep
  <1>6. CASE ServerReceive
    BY <1>1, <1>6, HelloReports, EventReports DEF ServerReceive
  <1>7. CASE HostReceive
    BY <1>1, <1>7, HostReceiveReports
  <1>8. CASE \E d \in Dispatches : Finish(d)
    BY <1>1, <1>8, FinishReports
  <1>9. CASE HostStart
    BY <1>1, <1>9, StartReports
  <1>10. CASE HostLosesSocket \/ HostCrash \/ HostCrashAfterReceive
    BY <1>1, <1>10, HostFaultReports
  <1>. QED
    BY <1>3, <1>4, <1>5, <1>6, <1>7, <1>8, <1>9, <1>10 DEF Next

\* No sequence of lost sockets and process stops, however long, makes the host
\* meet a message out of order or beyond its receipts, or the server a cursor or
\* an acknowledgement it cannot place.
THEOREM CursorsNeverStop == Spec => []CursorsAgree
  <1>1. ReportInv => CursorsAgree
    BY DEF ReportInv
  <1>. QED
    BY <1>1, ReportInvInit, ReportInvNext, PTL DEF Spec

\* The server applies the events of the host's outbox in order and once: this
\* direction of the link implements an OrderedDelivery too (drain and
\* HostEventInbox.process), whatever sockets and processes do.
THEOREM ReportsRefine == Spec => EventsInOrder
  <1>. DEFINE sent == [i \in 1..Len(db.outbox) |-> i]
  <1>1. Init => Reports!Init
    BY DEF Init, Reports!Init
  <1>2. ReportInv /\ ReportInv' /\ ReportStep => [Reports!Next]_<<sent, recorded>>
    <2>. SUFFICES ASSUME ReportInv, ReportInv', ReportStep
                  PROVE  [Reports!Next]_<<sent, recorded>>
      OBVIOUS
    <2>. DEFINE n == Len(db.outbox)
    <2>1. n \in Nat /\ Len(db'.outbox) \in Nat /\ Len(recorded) \in Nat
      <3>1. n \in Nat /\ Len(recorded) \in Nat
        BY LinkTypes DEF ReportInv
      <3>2. db' \in Databases
        BY DEF ReportInv, MailboxInv, Types
      <3>. QED
        BY <3>1, <3>2 DEF Databases
    <2>2. CASE recorded' = recorded /\ n <= Len(db'.outbox)
      <3>1. Len(sent') >= Len(sent) /\ SubSeq(sent', 1, Len(sent)) = sent
        BY <2>1, <2>2
      <3>. QED
        BY <2>2, <3>1 DEF Reports!Next, Reports!Send
    <2>3. CASE /\ Len(recorded) < n /\ recorded' = Append(recorded, Len(recorded) + 1)
               /\ UNCHANGED db
      <3>1. Len(sent) = n /\ sent[Len(recorded) + 1] = Len(recorded) + 1 /\ sent' = sent
        BY <2>1, <2>3
      <3>. QED
        BY <2>3, <3>1 DEF Reports!Next, Reports!Deliver
    <2>. QED
      BY <2>2, <2>3 DEF ReportStep
  <1>. QED
    BY <1>1, <1>2, ReportInvInit, ReportInvNext, PTL DEF Spec, EventsInOrder, Reports!Spec
==============================================================================
