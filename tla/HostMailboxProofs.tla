-------------------------- MODULE HostMailboxProofs --------------------------
(***************************************************************************)
(* The commands of the mailbox are an OrderedDelivery, for every number of *)
(* dispatches, rows and faults and every size of the windows.              *)
(***************************************************************************)
EXTENDS HostMailbox, FiniteSetTheorems, TLAPS

\* The host's database.
InboxRows == [msg : Rows, acked : BOOLEAN, processed : BOOLEAN, compacted : BOOLEAN]
OutboxRows == [event : Events, state : {"pending", "acked", "deleted"}]
Databases == [inbox : Seq(InboxRows), outbox : Seq(OutboxRows),
              execution : [Dispatches -> ExecutionStates],
              received : 0..MaxSequence, acknowledged : 0..MaxSequence]

-----------------------------------------------------------------------------
(* The operators on the database. *)

LEMMA FunctionIsSeq ==
    ASSUME NEW S, NEW n \in Nat, NEW f, f = [i \in 1..n |-> f[i]], \A i \in 1..n : f[i] \in S
    PROVE  f \in Seq(S) /\ Len(f) = n
<1>1. f \in [1..n -> S]
  BY Zenon
<1> QED
  BY <1>1

\* The sequence made of a finite set is as long as the set and over it.
LEMMA SetToSeqType ==
    ASSUME NEW S, IsFiniteSet(S)
    PROVE  /\ Cardinality(S) \in Nat
           /\ SetToSeq(S) \in [1..Cardinality(S) -> S]
<1>1. Cardinality(S) \in Nat /\ ExistsBijection(1..Cardinality(S), S)
  BY FS_CardinalityType
<1>2. PICK f \in [1..Cardinality(S) -> S] : \A a, b \in 1..Cardinality(S) : f[a] = f[b] => a = b
  BY <1>1 DEF ExistsBijection, Bijection, Injection, IsInjective
<1>3. IsInjective(f)
  BY <1>2 DEF IsInjective
<1> QED
  BY <1>1, <1>3 DEF SetToSeq

\* What the host has stored and queued stays as it was; what is queued new is
\* no acknowledgement.
Keeps(h, g) ==
    /\ Len(g.inbox) = Len(h.inbox)
    /\ \A i \in 1..Len(h.inbox) : g.inbox[i].msg = h.inbox[i].msg
    /\ g.received = h.received
    /\ Len(g.outbox) >= Len(h.outbox)
    /\ \A j \in 1..Len(h.outbox) : g.outbox[j].event = h.outbox[j].event
    /\ \A j \in Len(h.outbox) + 1..Len(g.outbox) : g.outbox[j].event.type # "ack"

\* Queueing an event for several dispatches keeps what the host has stored of the commands.
LEMMA QueueForKeeps ==
    ASSUME NEW h \in Databases, NEW ds \in SUBSET Dispatches,
           NEW type \in {"accepted", "interrupted", "terminal"}
    PROVE  /\ QueueFor(h, type, ds) \in Databases
           /\ Keeps(h, QueueFor(h, type, ds))
           /\ QueueFor(h, type, ds).acknowledged = h.acknowledged
<1> DEFINE n == Cardinality(ds)
           order == SetToSeq(ds)
           new == [i \in 1..n |-> [event |-> Event(type, 0, order[i]), state |-> "pending"]]
           g == QueueFor(h, type, ds)
<1>1. n \in Nat /\ order \in [1..n -> ds]
  <2>1. IsFiniteSet(ds)
    BY HostMailboxAssumption, FS_Subset
  <2> QED
    BY <2>1, SetToSeqType
<1>2. \A i \in 1..n : [event |-> Event(type, 0, order[i]), state |-> "pending"] \in OutboxRows
  BY <1>1, HostMailboxAssumption DEF OutboxRows, Events, Event
<1>3. new \in Seq(OutboxRows) /\ Len(new) = n
  BY <1>1, <1>2
<1>4. \A i \in 1..n : new[i].event.type = type
  BY <1>1 DEF Event
<1>5. g = [h EXCEPT !.outbox = @ \o new]
  BY DEF QueueFor
<1> HIDE DEF new, order, n, g
<1>6. h.outbox \in Seq(OutboxRows)
  BY DEF Databases
<1>7. /\ g \in Databases /\ g.outbox = h.outbox \o new /\ g.inbox = h.inbox
      /\ g.received = h.received /\ g.acknowledged = h.acknowledged
  <2>1. h.outbox \o new \in Seq(OutboxRows)
    BY <1>3, <1>6
  <2> DEFINE out == h.outbox \o new
  <2> HIDE DEF out
  <2>2. g = [h EXCEPT !.outbox = out] /\ out \in Seq(OutboxRows)
    BY <1>5, <2>1 DEF out
  <2>3. /\ g \in Databases /\ g.outbox = out /\ g.inbox = h.inbox
        /\ g.received = h.received /\ g.acknowledged = h.acknowledged
    BY <2>2 DEF Databases
  <2> QED
    BY <2>3 DEF out
<1>8. \A j \in Len(h.outbox) + 1..Len(g.outbox) : g.outbox[j] = new[j - Len(h.outbox)]
                                                  /\ j - Len(h.outbox) \in 1..n
  BY <1>3, <1>6, <1>7, <1>1
<1> QED
  <2>1. /\ Len(g.outbox) >= Len(h.outbox)
        /\ \A j \in 1..Len(h.outbox) : g.outbox[j] = h.outbox[j]
    BY <1>3, <1>6, <1>7, <1>1
  <2>2. \A j \in Len(h.outbox) + 1..Len(g.outbox) : g.outbox[j].event.type # "ack"
    BY <1>4, <1>8
  <2> QED
    BY <2>1, <2>2, <1>7 DEF Keeps, g

\* What two changes of the host database each keep, they keep together.
LEMMA KeepsTransitive ==
    ASSUME NEW h \in Databases, NEW g \in Databases, NEW k \in Databases, Keeps(h, g), Keeps(g, k)
    PROVE  Keeps(h, k)
<1>1. /\ Len(h.inbox) \in Nat /\ Len(g.inbox) \in Nat /\ Len(k.inbox) \in Nat
      /\ Len(h.outbox) \in Nat /\ Len(g.outbox) \in Nat /\ Len(k.outbox) \in Nat
  BY DEF Databases
<1>2. \A j \in Len(h.outbox) + 1..Len(k.outbox) : k.outbox[j].event.type # "ack"
  <2> TAKE j \in Len(h.outbox) + 1..Len(k.outbox)
  <2>1. CASE j <= Len(g.outbox)
    <3>1. j \in 1..Len(g.outbox) /\ j \in Len(h.outbox) + 1..Len(g.outbox)
      BY <1>1, <2>1
    <3> QED
      BY <3>1 DEF Keeps
  <2>2. CASE j > Len(g.outbox)
    <3>1. j \in Len(g.outbox) + 1..Len(k.outbox)
      BY <1>1, <2>2
    <3> QED
      BY <3>1 DEF Keeps
  <2> QED
    BY <1>1, <2>1, <2>2
<1>3. \A j \in 1..Len(h.outbox) : k.outbox[j].event = h.outbox[j].event
  BY <1>1 DEF Keeps
<1>4. Len(k.outbox) >= Len(h.outbox)
  BY <1>1 DEF Keeps
<1>5. /\ Len(k.inbox) = Len(h.inbox) /\ k.received = h.received
      /\ \A i \in 1..Len(h.inbox) : k.inbox[i].msg = h.inbox[i].msg
  BY DEF Keeps
<1> QED
  BY <1>2, <1>3, <1>4, <1>5 DEF Keeps

\* Compaction marks rows and keeps the messages and events they hold.
LEMMA CompactKeeps ==
    ASSUME NEW h \in Databases
    PROVE  /\ Compact(h) \in Databases
           /\ Keeps(h, Compact(h))
           /\ Compact(h).acknowledged = h.acknowledged
<1> DEFINE ds == Compactable(h)
           in == [i \in 1..Len(h.inbox) |->
                    IF h.inbox[i].msg.dispatch \in ds
                    THEN [h.inbox[i] EXCEPT !.compacted = TRUE] ELSE h.inbox[i]]
           out == [j \in 1..Len(h.outbox) |->
                    IF \E d \in ds : Related(h.outbox[j].event, d, h.inbox)
                    THEN [h.outbox[j] EXCEPT !.state = "deleted"] ELSE h.outbox[j]]
           ex == [d \in Dispatches |-> IF d \in ds THEN "none" ELSE h.execution[d]]
           g == Compact(h)
<1>1. h.inbox \in Seq(InboxRows) /\ h.outbox \in Seq(OutboxRows)
      /\ h.execution \in [Dispatches -> ExecutionStates]
  BY DEF Databases
<1>2. g = [h EXCEPT !.inbox = in, !.outbox = out, !.execution = ex]
  BY DEF Compact
<1>20. in = [i \in 1..Len(h.inbox) |-> in[i]]
  OBVIOUS
<1> HIDE DEF in
<1>3. \A i \in 1..Len(h.inbox) : in[i] \in InboxRows /\ in[i].msg = h.inbox[i].msg
  <2> TAKE i \in 1..Len(h.inbox)
  <2> DEFINE row == h.inbox[i]
  <2>1. row \in InboxRows
    BY <1>1
  <2>2. in[i] = row \/ in[i] = [row EXCEPT !.compacted = TRUE]
    BY DEF in
  <2> HIDE DEF row
  <2>3. in[i] \in InboxRows /\ in[i].msg = row.msg
    BY <2>1, <2>2 DEF InboxRows
  <2> QED
    BY <2>3 DEF row
<1>4. in \in Seq(InboxRows) /\ Len(in) = Len(h.inbox)
  <2>1. Len(h.inbox) \in Nat
    BY <1>1
  <2> QED
    BY <2>1, <1>3, <1>20, FunctionIsSeq
<1>21. out = [j \in 1..Len(h.outbox) |-> out[j]]
  OBVIOUS
<1> HIDE DEF out
<1>5. \A j \in 1..Len(h.outbox) : out[j] \in OutboxRows /\ out[j].event = h.outbox[j].event
  <2> TAKE j \in 1..Len(h.outbox)
  <2> DEFINE row == h.outbox[j]
  <2>1. row \in OutboxRows
    BY <1>1
  <2>2. out[j] = row \/ out[j] = [row EXCEPT !.state = "deleted"]
    BY DEF out
  <2> HIDE DEF row
  <2>3. out[j] \in OutboxRows /\ out[j].event = row.event
    BY <2>1, <2>2 DEF OutboxRows
  <2> QED
    BY <2>3 DEF row
<1>6. out \in Seq(OutboxRows) /\ Len(out) = Len(h.outbox)
  <2>1. Len(h.outbox) \in Nat
    BY <1>1
  <2> QED
    BY <2>1, <1>5, <1>21, FunctionIsSeq
<1>7. ex \in [Dispatches -> ExecutionStates]
  BY <1>1 DEF ExecutionStates
<1> HIDE DEF ex, g
<1>8. /\ g \in Databases /\ g.inbox = in /\ g.outbox = out
      /\ g.received = h.received /\ g.acknowledged = h.acknowledged
  BY <1>2, <1>4, <1>6, <1>7 DEF Databases
<1> QED
  <2>1. Len(h.outbox) \in Nat
    BY <1>1
  <2>2. \A j \in Len(h.outbox) + 1..Len(g.outbox) : FALSE
    BY <2>1, <1>6, <1>8
  <2> QED
    BY <2>1, <2>2, <1>3, <1>4, <1>5, <1>6, <1>8 DEF Keeps, g

\* The host's pump starts and cancels executions and queues their reports.
LEMMA PumpHostKeeps ==
    ASSUME NEW h \in Databases
    PROVE  /\ PumpHost(h) \in Databases
           /\ Keeps(h, PumpHost(h))
           /\ PumpHost(h).acknowledged = h.acknowledged
<1> DEFINE pending == {i \in 1..Len(h.inbox) : /\ h.inbox[i].msg.type = "cancel"
                                               /\ ~h.inbox[i].processed
                                               /\ ~h.inbox[i].compacted}
           cancelled == {d \in Dispatches : /\ \E i \in pending : h.inbox[i].msg.dispatch = d
                                            /\ h.execution[d] \in {"accepted", "interrupted"}}
           started == {d \in Dispatches : h.execution[d] = "accepted"} \ cancelled
           in == [i \in 1..Len(h.inbox) |->
                    IF i \in pending THEN [h.inbox[i] EXCEPT !.processed = TRUE] ELSE h.inbox[i]]
           ex == [d \in Dispatches |-> IF d \in cancelled THEN "terminal"
                                       ELSE IF d \in started THEN "running"
                                       ELSE h.execution[d]]
           after == [h EXCEPT !.inbox = in, !.execution = ex]
           mid == QueueFor(after, "terminal", cancelled)
           last == QueueFor(mid, "accepted", started)
<1>1. h.inbox \in Seq(InboxRows) /\ h.outbox \in Seq(OutboxRows)
      /\ h.execution \in [Dispatches -> ExecutionStates]
  BY DEF Databases
<1>2. PumpHost(h) = last
  BY DEF PumpHost
<1>20. in = [i \in 1..Len(h.inbox) |-> in[i]]
  OBVIOUS
<1> HIDE DEF in
<1>3. \A i \in 1..Len(h.inbox) : in[i] \in InboxRows /\ in[i].msg = h.inbox[i].msg
  <2> TAKE i \in 1..Len(h.inbox)
  <2> DEFINE row == h.inbox[i]
  <2>1. row \in InboxRows
    BY <1>1
  <2>2. in[i] = row \/ in[i] = [row EXCEPT !.processed = TRUE]
    BY DEF in
  <2> HIDE DEF row
  <2>3. in[i] \in InboxRows /\ in[i].msg = row.msg
    BY <2>1, <2>2 DEF InboxRows
  <2> QED
    BY <2>3 DEF row
<1>4. in \in Seq(InboxRows) /\ Len(in) = Len(h.inbox)
  <2>1. Len(h.inbox) \in Nat
    BY <1>1
  <2> QED
    BY <2>1, <1>3, <1>20, FunctionIsSeq
<1>5. ex \in [Dispatches -> ExecutionStates]
  BY <1>1 DEF ExecutionStates
<1>6. cancelled \in SUBSET Dispatches /\ started \in SUBSET Dispatches
  OBVIOUS
<1> HIDE DEF ex, cancelled, started
<1>7. /\ after \in Databases /\ after.inbox = in /\ after.outbox = h.outbox
      /\ after.received = h.received /\ after.acknowledged = h.acknowledged
  BY <1>4, <1>5 DEF Databases
<1>8. Keeps(h, after)
  <2>1. Len(h.outbox) \in Nat
    BY <1>1
  <2>2. \A j \in Len(h.outbox) + 1..Len(after.outbox) : FALSE
    BY <2>1, <1>7
  <2> QED
    BY <2>1, <2>2, <1>3, <1>4, <1>7 DEF Keeps
<1> HIDE DEF after
<1>9. mid \in Databases /\ Keeps(after, mid) /\ mid.acknowledged = after.acknowledged
  BY <1>6, <1>7, QueueForKeeps
<1> HIDE DEF mid
<1>10. last \in Databases /\ Keeps(mid, last) /\ last.acknowledged = mid.acknowledged
  BY <1>6, <1>9, QueueForKeeps
<1> HIDE DEF last
<1>11. Keeps(h, mid)
  BY <1>7, <1>8, <1>9, KeepsTransitive
<1> QED
  BY <1>2, <1>7, <1>9, <1>10, <1>11, KeepsTransitive

\* Queueing an event appends at most that event.
LEMMA QueueAppends ==
    ASSUME NEW h \in Databases, NEW e \in Events
    PROVE  LET g == Queue(h, e)
           IN  /\ g \in Databases
               /\ g.inbox = h.inbox
               /\ g.received = h.received
               /\ g.acknowledged = h.acknowledged
               /\ Len(g.outbox) >= Len(h.outbox)
               /\ \A j \in 1..Len(h.outbox) : g.outbox[j].event = h.outbox[j].event
               /\ \A j \in Len(h.outbox) + 1..Len(g.outbox) : g.outbox[j].event = e
<1> DEFINE g == Queue(h, e)
           row == [event |-> e, state |-> "pending"]
           out == Append(h.outbox, row)
<1>1. h.outbox \in Seq(OutboxRows) /\ Len(h.outbox) \in Nat
  BY DEF Databases
<1>2. CASE g = h
  <2>1. \A j \in Len(h.outbox) + 1..Len(h.outbox) : FALSE
    BY <1>1
  <2> QED
    BY <1>1, <1>2, <2>1
<1>3. CASE g = [h EXCEPT !.outbox = out]
  <2>1. row \in OutboxRows /\ row.event = e
    BY DEF OutboxRows
  <2> HIDE DEF row, g
  <2>2. /\ out \in Seq(OutboxRows) /\ Len(out) = Len(h.outbox) + 1
        /\ \A j \in 1..Len(h.outbox) : out[j] = h.outbox[j]
        /\ out[Len(h.outbox) + 1] = row
    BY <1>1, <2>1
  <2> HIDE DEF out
  <2>3. /\ g \in Databases /\ g.inbox = h.inbox /\ g.outbox = out
        /\ g.received = h.received /\ g.acknowledged = h.acknowledged
    BY <1>3, <2>2 DEF Databases
  <2>4. \A j \in Len(h.outbox) + 1..Len(out) : j = Len(h.outbox) + 1
    BY <1>1, <2>2
  <2> QED
    BY <1>1, <2>1, <2>2, <2>3, <2>4 DEF g
<1> QED
  BY <1>2, <1>3 DEF Queue

\* Receiving a message that is known or new stores it at most once and queues
\* at most its acknowledgement.
LEMMA ReceiveStores ==
    ASSUME NEW h \in Databases, NEW row \in Rows
    PROVE  LET g == Receive(h, row)
               e == Event("ack", row.seq, NoDispatch)
           IN  /\ g \in Databases
               /\ g.acknowledged = h.acknowledged
               /\ IF Verdict(h, row) = "known"
                  THEN g.inbox = h.inbox /\ g.received = h.received
                  ELSE /\ Len(g.inbox) = Len(h.inbox) + 1
                       /\ \A i \in 1..Len(h.inbox) : g.inbox[i] = h.inbox[i]
                       /\ g.inbox[Len(h.inbox) + 1].msg = row
                       /\ g.received = row.seq
               /\ Len(g.outbox) >= Len(h.outbox)
               /\ \A j \in 1..Len(h.outbox) : g.outbox[j].event = h.outbox[j].event
               /\ \A j \in Len(h.outbox) + 1..Len(g.outbox) : g.outbox[j].event = e
<1> DEFINE e == Event("ack", row.seq, NoDispatch)
           new == [msg |-> row, acked |-> FALSE, processed |-> FALSE, compacted |-> FALSE]
           in == Append(h.inbox, new)
           ex == IF row.type = "execute" THEN [h.execution EXCEPT ![row.dispatch] = "accepted"]
                 ELSE h.execution
           stored == [h EXCEPT !.inbox = in, !.received = row.seq, !.execution = ex]
           mid == IF Verdict(h, row) = "known" THEN h ELSE stored
           g == Receive(h, row)
<1>1. e \in Events
  BY DEF Events, Event, Rows
<1>2. g = Queue(mid, e)
  BY DEF Receive
<1>3. h.inbox \in Seq(InboxRows) /\ Len(h.inbox) \in Nat
      /\ h.execution \in [Dispatches -> ExecutionStates]
  BY DEF Databases
<1>4. new \in InboxRows /\ new.msg = row
  BY DEF InboxRows
<1> HIDE DEF new, e, g
<1>5. /\ in \in Seq(InboxRows) /\ Len(in) = Len(h.inbox) + 1
      /\ \A i \in 1..Len(h.inbox) : in[i] = h.inbox[i]
      /\ in[Len(h.inbox) + 1] = new
  BY <1>3, <1>4
<1>6. ex \in [Dispatches -> ExecutionStates]
  BY <1>3 DEF ExecutionStates
<1>7. row.seq \in 0..MaxSequence
  BY HostMailboxAssumption DEF Rows
<1> HIDE DEF in, ex
<1>8. /\ stored \in Databases /\ stored.inbox = in /\ stored.received = row.seq
      /\ stored.outbox = h.outbox /\ stored.acknowledged = h.acknowledged
  BY <1>5, <1>6, <1>7 DEF Databases
<1> HIDE DEF stored
<1>9. /\ mid \in Databases /\ mid.outbox = h.outbox /\ mid.acknowledged = h.acknowledged
  BY <1>8
<1>10. IF Verdict(h, row) = "known" THEN mid = h ELSE mid = stored
  OBVIOUS
<1> HIDE DEF mid
<1>11. /\ g \in Databases /\ g.inbox = mid.inbox /\ g.received = mid.received
       /\ g.acknowledged = mid.acknowledged
       /\ Len(g.outbox) >= Len(mid.outbox)
       /\ \A j \in 1..Len(mid.outbox) : g.outbox[j].event = mid.outbox[j].event
       /\ \A j \in Len(mid.outbox) + 1..Len(g.outbox) : g.outbox[j].event = e
  BY <1>1, <1>2, <1>9, QueueAppends
<1>12. IF Verdict(h, row) = "known" THEN g.inbox = h.inbox /\ g.received = h.received
       ELSE /\ Len(g.inbox) = Len(h.inbox) + 1
            /\ \A i \in 1..Len(h.inbox) : g.inbox[i] = h.inbox[i]
            /\ g.inbox[Len(h.inbox) + 1].msg = row
            /\ g.received = row.seq
  BY <1>4, <1>5, <1>8, <1>10, <1>11
<1> QED
  BY <1>9, <1>11, <1>12 DEF g, e

\* An acknowledged event marks rows, and moves the cursor to the sequence of
\* an acknowledgement at most.
LEMMA AcknowledgeKeeps ==
    ASSUME NEW h \in Databases, NEW id \in 1..Len(h.outbox)
    PROVE  LET g == Acknowledge(h, id)
               e == h.outbox[id].event
           IN  /\ g \in Databases
               /\ Keeps(h, g)
               /\ g.acknowledged = h.acknowledged \/ (e.type = "ack" /\ g.acknowledged = e.seq)
<1> DEFINE e == h.outbox[id].event
           old == h.outbox[id]
           out == [h.outbox EXCEPT ![id] = [old EXCEPT !.state = "acked"]]
           in == [i \in 1..Len(h.inbox) |->
                    IF e.type = "ack" /\ h.inbox[i].msg.seq = e.seq
                    THEN [h.inbox[i] EXCEPT !.acked = TRUE] ELSE h.inbox[i]]
           cursor == IF e.type = "ack" /\ e.seq > h.acknowledged THEN e.seq ELSE h.acknowledged
           marked == [h EXCEPT !.outbox = out, !.inbox = in, !.acknowledged = cursor]
           g == Acknowledge(h, id)
<1>1. /\ h.inbox \in Seq(InboxRows) /\ Len(h.inbox) \in Nat
      /\ h.outbox \in Seq(OutboxRows) /\ Len(h.outbox) \in Nat
      /\ h.acknowledged \in 0..MaxSequence
  BY DEF Databases
<1>2. old \in OutboxRows
  BY <1>1
<1>3. e \in Events
  BY <1>2 DEF OutboxRows
<1>4. g = h \/ g = Compact(marked)
  BY DEF Acknowledge
<1>20. in = [i \in 1..Len(h.inbox) |-> in[i]]
  OBVIOUS
<1> HIDE DEF in
<1>5. \A i \in 1..Len(h.inbox) : in[i] \in InboxRows /\ in[i].msg = h.inbox[i].msg
  <2> TAKE i \in 1..Len(h.inbox)
  <2> DEFINE row == h.inbox[i]
  <2>1. row \in InboxRows
    BY <1>1
  <2>2. in[i] = row \/ in[i] = [row EXCEPT !.acked = TRUE]
    BY DEF in
  <2> HIDE DEF row
  <2>3. in[i] \in InboxRows /\ in[i].msg = row.msg
    BY <2>1, <2>2 DEF InboxRows
  <2> QED
    BY <2>3 DEF row
<1>6. in \in Seq(InboxRows) /\ Len(in) = Len(h.inbox)
  BY <1>1, <1>5, <1>20, FunctionIsSeq
<1>7. cursor \in 0..MaxSequence /\ (cursor = h.acknowledged \/ (e.type = "ack" /\ cursor = e.seq))
  <2>1. e.seq \in 0..MaxSequence
    BY <1>3 DEF Events
  <2> QED
    BY <1>1, <2>1
<1>8. /\ out \in Seq(OutboxRows) /\ Len(out) = Len(h.outbox)
      /\ \A j \in 1..Len(h.outbox) : out[j].event = h.outbox[j].event
  <2> DEFINE row == [old EXCEPT !.state = "acked"]
  <2>1. row \in OutboxRows /\ row.event = e
    BY <1>2 DEF OutboxRows
  <2> HIDE DEF row
  <2>2. out = [h.outbox EXCEPT ![id] = row]
    BY DEF row
  <2>3. /\ out \in Seq(OutboxRows) /\ Len(out) = Len(h.outbox)
        /\ \A j \in 1..Len(h.outbox) : out[j] = IF j = id THEN row ELSE h.outbox[j]
    BY <1>1, <2>1, <2>2, SMTT(20)
  <2> QED
    BY <2>1, <2>3
<1> HIDE DEF out, cursor, g
<1>9. /\ marked \in Databases /\ marked.inbox = in /\ marked.outbox = out
      /\ marked.received = h.received /\ marked.acknowledged = cursor
  BY <1>6, <1>7, <1>8 DEF Databases
<1> HIDE DEF marked
<1>10. Keeps(h, marked)
  <2>1. \A j \in Len(h.outbox) + 1..Len(marked.outbox) : FALSE
    BY <1>1, <1>8, <1>9
  <2> QED
    BY <1>1, <2>1, <1>5, <1>6, <1>8, <1>9 DEF Keeps
<1>11. CASE g = h
  <2>1. \A j \in Len(h.outbox) + 1..Len(h.outbox) : FALSE
    BY <1>1
  <2>2. Keeps(h, h)
    BY <1>1, <2>1 DEF Keeps
  <2> QED
    BY <1>11, <2>2 DEF g
<1>12. CASE g = Compact(marked)
  <2>1. g \in Databases /\ Keeps(marked, g) /\ g.acknowledged = marked.acknowledged
    BY <1>9, <1>12, CompactKeeps
  <2>2. Keeps(h, g)
    BY <2>1, <1>9, <1>10, KeepsTransitive
  <2> QED
    BY <2>1, <2>2, <1>7, <1>9 DEF g
<1> QED
  BY <1>4, <1>11, <1>12

\* An adopted cursor marks rows as well, and becomes the host's own.
LEMMA AdoptKeeps ==
    ASSUME NEW h \in Databases, NEW cursor \in 0..MaxSequence
    PROVE  LET g == Adopt(h, cursor)
           IN  g \in Databases /\ Keeps(h, g) /\ g.acknowledged = cursor
<1> DEFINE in == [i \in 1..Len(h.inbox) |->
                    IF h.inbox[i].msg.seq <= cursor THEN [h.inbox[i] EXCEPT !.acked = TRUE]
                    ELSE h.inbox[i]]
           out == [j \in 1..Len(h.outbox) |->
                    IF /\ h.outbox[j].state = "pending"
                       /\ h.outbox[j].event.type = "ack"
                       /\ h.outbox[j].event.seq <= cursor
                    THEN [h.outbox[j] EXCEPT !.state = "acked"] ELSE h.outbox[j]]
           marked == [h EXCEPT !.inbox = in, !.outbox = out, !.acknowledged = cursor]
           g == Adopt(h, cursor)
<1>1. /\ h.inbox \in Seq(InboxRows) /\ Len(h.inbox) \in Nat
      /\ h.outbox \in Seq(OutboxRows) /\ Len(h.outbox) \in Nat
  BY DEF Databases
<1>2. g = Compact(marked)
  BY DEF Adopt
<1>20. in = [i \in 1..Len(h.inbox) |-> in[i]]
  OBVIOUS
<1> HIDE DEF in
<1>3. \A i \in 1..Len(h.inbox) : in[i] \in InboxRows /\ in[i].msg = h.inbox[i].msg
  <2> TAKE i \in 1..Len(h.inbox)
  <2> DEFINE row == h.inbox[i]
  <2>1. row \in InboxRows
    BY <1>1
  <2>2. in[i] = row \/ in[i] = [row EXCEPT !.acked = TRUE]
    BY DEF in
  <2> HIDE DEF row
  <2>3. in[i] \in InboxRows /\ in[i].msg = row.msg
    BY <2>1, <2>2 DEF InboxRows
  <2> QED
    BY <2>3 DEF row
<1>4. in \in Seq(InboxRows) /\ Len(in) = Len(h.inbox)
  BY <1>1, <1>3, <1>20, FunctionIsSeq
<1>21. out = [j \in 1..Len(h.outbox) |-> out[j]]
  OBVIOUS
<1> HIDE DEF out
<1>5. \A j \in 1..Len(h.outbox) : out[j] \in OutboxRows /\ out[j].event = h.outbox[j].event
  <2> TAKE j \in 1..Len(h.outbox)
  <2> DEFINE row == h.outbox[j]
  <2>1. row \in OutboxRows
    BY <1>1
  <2>2. out[j] = row \/ out[j] = [row EXCEPT !.state = "acked"]
    BY DEF out
  <2> HIDE DEF row
  <2>3. out[j] \in OutboxRows /\ out[j].event = row.event
    BY <2>1, <2>2 DEF OutboxRows
  <2> QED
    BY <2>3 DEF row
<1>6. out \in Seq(OutboxRows) /\ Len(out) = Len(h.outbox)
  BY <1>1, <1>5, <1>21, FunctionIsSeq
<1> HIDE DEF g
<1>7. /\ marked \in Databases /\ marked.inbox = in /\ marked.outbox = out
      /\ marked.received = h.received /\ marked.acknowledged = cursor
  BY <1>4, <1>6 DEF Databases
<1> HIDE DEF marked
<1>8. Keeps(h, marked)
  <2>1. \A j \in Len(h.outbox) + 1..Len(marked.outbox) : FALSE
    BY <1>1, <1>6, <1>7
  <2> QED
    BY <1>1, <2>1, <1>3, <1>4, <1>5, <1>6, <1>7 DEF Keeps
<1>9. g \in Databases /\ Keeps(marked, g) /\ g.acknowledged = marked.acknowledged
  BY <1>2, <1>7, CompactKeeps
<1>10. Keeps(h, g)
  BY <1>7, <1>8, <1>9, KeepsTransitive
<1> QED
  BY <1>7, <1>9, <1>10 DEF g

-----------------------------------------------------------------------------
(* The inductive invariant. *)

\* The rows of the mailbox are a chain of growing sequences.
Chain ==
    /\ \A i \in 1..Len(mailbox) :
          /\ mailbox[i].seq <= rowid
          /\ mailbox[i].prev = IF i = 1 THEN 0 ELSE mailbox[i - 1].seq
    /\ \A i, j \in 1..Len(mailbox) : i < j => mailbox[i].seq < mailbox[j].seq

\* A database holds the first rows of the mailbox, and acknowledges no others.
Stored(h) ==
    /\ Len(h.inbox) <= Len(mailbox)
    /\ \A i \in 1..Len(h.inbox) : h.inbox[i].msg = mailbox[i]
    /\ h.received = IF Len(h.inbox) = 0 THEN 0 ELSE mailbox[Len(h.inbox)].seq
    /\ \A j \in 1..Len(h.outbox) : h.outbox[j].event.type = "ack" =>
          \E i \in 1..Len(h.inbox) : mailbox[i].seq = h.outbox[j].event.seq

\* What the server has acknowledged is a first part of what the host has.
Acked ==
    /\ \E s \in ackedRows \cup {0} : \A other \in ackedRows : other <= s
    /\ \A s \in ackedRows : \E i \in 1..Len(db.inbox) : mailbox[i].seq = s
    /\ \A s \in ackedRows : \A i \in 1..Len(mailbox) :
          mailbox[i].seq <= s => mailbox[i].seq \in ackedRows
    /\ db.acknowledged \in ackedRows \cup {0}

\* What may be in the channels and among the receipts.
MailboxRows == {mailbox[i] : i \in 1..Len(mailbox)}
Receipts == {recorded[r] : r \in 1..Len(recorded)}
ServerFrames == [kind : {"message"}, msg : MailboxRows]
                \cup [kind : {"welcome"}, acknowledged : ackedRows \cup {0}]
                \cup [kind : {"event_ack"}, id : Receipts]
                \cup [kind : {"protocol_error"}]
HostFrames == [kind : {"hello"}, acknowledged : 0..MaxSequence]
              \cup {[kind |-> "event", id |-> j, event |-> db.outbox[j].event] :
                      j \in 1..Len(db.outbox)}
Settled == {j \in 1..Len(db.outbox) :
              db.outbox[j].event.type = "ack" => db.outbox[j].event.seq \in ackedRows}

Channels ==
    /\ toHost \in Seq(ServerFrames)
    /\ toServer \in Seq(HostFrames)
    /\ recorded \in Seq(Settled)
    /\ inFlight \subseteq 1..Len(db.outbox)

\* The types the channels do not give.
Types ==
    /\ mailbox \in Seq(Rows)
    /\ rowid \in 0..MaxSequence
    /\ ackedRows \subseteq 1..MaxSequence
    /\ dispatch \in [Dispatches -> {"none", "leased", "cancelling", "interrupted", "settled"}]
    /\ session \in {"closed", "open", "ready"}
    /\ sentSequence \in 0..MaxSequence /\ confirmedSequence \in 0..MaxSequence
    /\ inflight \subseteq 1..MaxSequence
    /\ callbacks \in Seq(0..MaxSequence)
    /\ db \in Databases
    /\ up \in BOOLEAN /\ connected \in BOOLEAN /\ welcomed \in BOOLEAN
    /\ faults \in 0..MaxFaults

MailboxInv == Types /\ Chain /\ Stored(db) /\ Acked /\ Channels

-----------------------------------------------------------------------------
(* What the parts give, and what keeps them. *)

LEMMA LastAcknowledgedIsMax ==
    ASSUME Types, Acked
    PROVE  /\ LastAcknowledged \in ackedRows \cup {0}
           /\ LastAcknowledged \in 0..MaxSequence
           /\ \A other \in ackedRows : other <= LastAcknowledged
<1>1. /\ LastAcknowledged \in ackedRows \cup {0}
      /\ \A other \in ackedRows : other <= LastAcknowledged
  BY DEF Acked, LastAcknowledged
<1> QED
  BY <1>1, HostMailboxAssumption DEF Types

\* A database that keeps what another one has stored has stored the same.
LEMMA KeepsStored ==
    ASSUME NEW h \in Databases, NEW g \in Databases, Keeps(h, g), Stored(h)
    PROVE  Stored(g)
<1>1. Len(h.outbox) \in Nat /\ Len(g.outbox) \in Nat
  BY DEF Databases
<1>2. \A j \in 1..Len(g.outbox) : g.outbox[j].event.type = "ack" =>
          \E i \in 1..Len(g.inbox) : mailbox[i].seq = g.outbox[j].event.seq
  <2> SUFFICES ASSUME NEW j \in 1..Len(g.outbox), g.outbox[j].event.type = "ack"
               PROVE  \E i \in 1..Len(g.inbox) : mailbox[i].seq = g.outbox[j].event.seq
    OBVIOUS
  <2>1. j \in 1..Len(h.outbox) \/ j \in Len(h.outbox) + 1..Len(g.outbox)
    BY <1>1
  <2>2. j \in 1..Len(h.outbox)
    BY <2>1 DEF Keeps
  <2>3. g.outbox[j].event = h.outbox[j].event
    BY <2>2 DEF Keeps
  <2> QED
    BY <2>2, <2>3 DEF Stored, Keeps
<1> QED
  BY <1>2 DEF Stored, Keeps

\* The next row of the mailbox is the only one a host takes for new.
LEMMA ReceiveStored ==
    ASSUME Types, Chain, NEW h \in Databases, Stored(h), NEW r \in 1..Len(mailbox),
           Verdict(h, mailbox[r]) \in {"known", "new"}
    PROVE  /\ Stored(Receive(h, mailbox[r]))
           /\ Verdict(h, mailbox[r]) # "known" => r = Len(h.inbox) + 1
<1> DEFINE row == mailbox[r]
           g == Receive(h, row)
           e == Event("ack", row.seq, NoDispatch)
           m == Len(h.inbox)
<1>1. mailbox \in Seq(Rows) /\ Len(mailbox) \in Nat /\ row \in Rows
  BY DEF Types
<1>2. m \in Nat /\ Len(h.outbox) \in Nat
  BY DEF Databases
<1>3. /\ g \in Databases
      /\ IF Verdict(h, row) = "known" THEN g.inbox = h.inbox /\ g.received = h.received
         ELSE /\ Len(g.inbox) = m + 1
              /\ \A i \in 1..m : g.inbox[i] = h.inbox[i]
              /\ g.inbox[m + 1].msg = row
              /\ g.received = row.seq
      /\ Len(g.outbox) >= Len(h.outbox)
      /\ \A j \in 1..Len(h.outbox) : g.outbox[j].event = h.outbox[j].event
      /\ \A j \in Len(h.outbox) + 1..Len(g.outbox) : g.outbox[j].event = e
  BY <1>1, ReceiveStores
<1>4. e.type = "ack" /\ e.seq = row.seq
  BY DEF Event
<1>5. \A i \in 1..Len(mailbox) : mailbox[i].seq \in 1..MaxSequence
  <2> TAKE i \in 1..Len(mailbox)
  <2>1. mailbox[i] \in Rows
    BY <1>1
  <2> QED
    BY <2>1 DEF Rows
<1>6. Len(g.outbox) \in Nat
  BY <1>3 DEF Databases
<1> HIDE DEF g, e
\* The acknowledgements, once the row is stored.
<1>7. ASSUME m <= Len(g.inbox), \E i \in 1..Len(g.inbox) : mailbox[i].seq = row.seq,
             Len(g.inbox) \in Nat
      PROVE  \A j \in 1..Len(g.outbox) : g.outbox[j].event.type = "ack" =>
               \E i \in 1..Len(g.inbox) : mailbox[i].seq = g.outbox[j].event.seq
  <2> SUFFICES ASSUME NEW j \in 1..Len(g.outbox), g.outbox[j].event.type = "ack"
               PROVE  \E i \in 1..Len(g.inbox) : mailbox[i].seq = g.outbox[j].event.seq
    OBVIOUS
  <2>1. CASE j \in 1..Len(h.outbox)
    <3>1. \E i \in 1..m : mailbox[i].seq = g.outbox[j].event.seq
      BY <1>3, <2>1 DEF Stored
    <3> QED
      BY <3>1, <1>7, <1>2
  <2>2. CASE j \in Len(h.outbox) + 1..Len(g.outbox)
    BY <2>2, <1>3, <1>4, <1>7
  <2> QED
    BY <2>1, <2>2, <1>2, <1>6
<1>8. CASE Verdict(h, row) = "known"
  <2>1. PICK i \in 1..m : h.inbox[i].msg.seq = row.seq
    BY <1>8 DEF Verdict
  <2>2. mailbox[i].seq = row.seq
    BY <2>1 DEF Stored
  <2>3. g.inbox = h.inbox /\ g.received = h.received
    BY <1>3, <1>8
  <2>4. \A j \in 1..Len(g.outbox) : g.outbox[j].event.type = "ack" =>
               \E k \in 1..Len(g.inbox) : mailbox[k].seq = g.outbox[j].event.seq
    BY <2>1, <2>2, <2>3, <1>2, <1>7
  <2>5. Stored(g)
    BY <2>3, <2>4 DEF Stored
  <2> QED
    BY <2>5, <1>8 DEF g
<1>9. CASE Verdict(h, row) = "new"
  <2>1. /\ \A i \in 1..m : h.inbox[i].msg.seq # row.seq
        /\ row.prev = h.received
    BY <1>9 DEF Verdict
  <2>2. r > m
    BY <2>1, <1>1, <1>2 DEF Stored
  <2>3. r <= m + 1
    <3> SUFFICES ASSUME r > m + 1 PROVE FALSE
      BY <1>1, <1>2
    <3>1. r # 1 /\ r - 1 \in 1..Len(mailbox) /\ row.prev = mailbox[r - 1].seq
      BY <1>1, <1>2 DEF Chain
    <3>2. CASE m = 0
      <4>1. h.received = 0
        BY <3>2 DEF Stored
      <4>2. mailbox[r - 1].seq \in 1..MaxSequence
        BY <3>1, <1>5
      <4> QED
        BY <4>1, <4>2, <3>1, <2>1, HostMailboxAssumption
    <3>3. CASE m # 0
      <4>1. m \in 1..Len(mailbox) /\ m < r - 1
        BY <3>3, <1>1, <1>2
      <4>2. mailbox[m].seq < mailbox[r - 1].seq
        BY <3>1, <4>1 DEF Chain
      <4>3. h.received = mailbox[m].seq
        BY <3>3 DEF Stored
      <4> QED
        BY <4>1, <4>2, <4>3, <3>1, <2>1, <1>5
    <3> QED
      BY <3>2, <3>3
  <2>4. r = m + 1
    BY <2>2, <2>3, <1>1, <1>2
  <2>5. /\ Len(g.inbox) = m + 1
        /\ \A i \in 1..m : g.inbox[i] = h.inbox[i]
        /\ g.inbox[m + 1].msg = row
        /\ g.received = row.seq
    BY <1>3, <1>9
  <2>6. \A i \in 1..Len(g.inbox) : g.inbox[i].msg = mailbox[i]
    <3> TAKE i \in 1..Len(g.inbox)
    <3>1. i \in 1..m \/ i = m + 1
      BY <2>5, <1>2
    <3> QED
      BY <3>1, <2>4, <2>5 DEF Stored
  <2>7. \A j \in 1..Len(g.outbox) : g.outbox[j].event.type = "ack" =>
               \E k \in 1..Len(g.inbox) : mailbox[k].seq = g.outbox[j].event.seq
    <3>1. r \in 1..Len(g.inbox) /\ m <= Len(g.inbox) /\ Len(g.inbox) \in Nat
      BY <2>4, <2>5, <1>2
    <3> QED
      BY <3>1, <1>7
  <2>8. Len(g.inbox) <= Len(mailbox)
    BY <2>4, <2>5, <1>1, <1>2
  <2>9. g.received = IF Len(g.inbox) = 0 THEN 0 ELSE mailbox[Len(g.inbox)].seq
    BY <2>4, <2>5, <1>2
  <2>10. Stored(g)
    BY <2>6, <2>7, <2>8, <2>9 DEF Stored
  <2> QED
    BY <2>4, <2>10 DEF g
<1> QED
  BY <1>8, <1>9

\* A sequence over a set is a sequence over every larger set.
LEMMA SeqSubset ==
    ASSUME NEW S, NEW T, S \subseteq T, NEW s \in Seq(S)
    PROVE  s \in Seq(T)
OBVIOUS

\* Head and tail of a nonempty sequence are of its element set.
LEMMA SeqHeadTail ==
    ASSUME NEW S, NEW s \in Seq(S), s # <<>>
    PROVE  Head(s) \in S /\ Tail(s) \in Seq(S)
OBVIOUS

\* A reply of the server adds one frame of the kinds the socket carries.
LEMMA ReplyFrames ==
    ASSUME NEW S, toHost \in Seq(S), NEW f \in S, Reply(<<f>>)
    PROVE  toHost' \in Seq(S)
BY DEF Reply

\* What a step does to the commands: it leaves them alone, stores one more, or
\* applies the next one.
CommandStep ==
    \/ /\ UNCHANGED mailbox
       /\ Len(db'.inbox) = Len(db.inbox)
       /\ \A i \in 1..Len(db.inbox) : db'.inbox[i].msg = db.inbox[i].msg
    \/ /\ \E row \in Rows : mailbox' = Append(mailbox, row)
       /\ UNCHANGED db
    \/ /\ UNCHANGED mailbox
       /\ Len(db.inbox) < Len(mailbox)
       /\ Len(db'.inbox) = Len(db.inbox) + 1
       /\ \A i \in 1..Len(db.inbox) : db'.inbox[i].msg = db.inbox[i].msg
       /\ db'.inbox[Len(db.inbox) + 1].msg = mailbox[Len(db.inbox) + 1]

\* The sets of frames and receipts grow with the tables.
LEMMA FramesGrow ==
    ASSUME Types, db' \in Databases, Len(db.outbox) <= Len(db'.outbox),
           \A j \in 1..Len(db.outbox) : db'.outbox[j].event = db.outbox[j].event,
           ackedRows \subseteq ackedRows'
    PROVE  /\ HostFrames \subseteq HostFrames'
           /\ Settled \subseteq Settled'
           /\ 1..Len(db.outbox) \subseteq 1..Len(db'.outbox)
<1>1. Len(db.outbox) \in Nat /\ Len(db'.outbox) \in Nat
  BY DEF Types, Databases
<1>2. 1..Len(db.outbox) \subseteq 1..Len(db'.outbox)
  BY <1>1
<1>3. HostFrames \subseteq HostFrames'
  <2> DEFINE old(j) == [kind |-> "event", id |-> j, event |-> db.outbox[j].event]
             now(j) == [kind |-> "event", id |-> j, event |-> db'.outbox[j].event]
  <2>1. \A j \in 1..Len(db.outbox) : old(j) = now(j) /\ j \in 1..Len(db'.outbox)
    BY <1>2
  <2> HIDE DEF old, now
  <2>2. {old(j) : j \in 1..Len(db.outbox)} \subseteq {now(j) : j \in 1..Len(db'.outbox)}
    BY <2>1
  <2> QED
    BY <2>2 DEF HostFrames, old, now
<1>4. Settled \subseteq Settled'
  BY <1>2 DEF Settled
<1> QED
  BY <1>2, <1>3, <1>4

\* A step of the host, or one that leaves both databases alone.
LEMMA DatabaseStep ==
    ASSUME MailboxInv, Types', UNCHANGED <<mailbox, ackedRows, recorded>>, rowid <= rowid',
           Stored(db)',
           Len(db.inbox) <= Len(db'.inbox),
           Len(db.outbox) <= Len(db'.outbox),
           \A j \in 1..Len(db.outbox) : db'.outbox[j].event = db.outbox[j].event,
           db'.acknowledged \in ackedRows \cup {0},
           toHost' \in Seq(ServerFrames),
           toServer' \in Seq(HostFrames),
           inFlight' \subseteq 1..Len(db'.outbox)
    PROVE  MailboxInv'
<1>1. Chain'
  <2>1. rowid \in Nat /\ rowid' \in Nat
    BY DEF MailboxInv, Types
  <2>2. \A i \in 1..Len(mailbox) : mailbox[i].seq \in Nat
    <3> TAKE i \in 1..Len(mailbox)
    <3>1. mailbox[i] \in Rows
      BY SMTT(20) DEF MailboxInv, Types
    <3> QED
      BY <3>1 DEF Rows
  <2> QED
    BY <2>1, <2>2 DEF MailboxInv, Chain
<1>2. Acked'
  <2>0. db \in Databases /\ db' \in Databases
    BY DEF MailboxInv, Types
  <2>1. Len(db.inbox) \in Nat /\ Len(db'.inbox) \in Nat
    BY <2>0 DEF Databases
  <2>2. 1..Len(db.inbox) \subseteq 1..Len(db'.inbox)
    BY <2>1
  <2> QED
    BY <2>2 DEF MailboxInv, Acked
<1>3. HostFrames \subseteq HostFrames' /\ Settled \subseteq Settled'
  BY FramesGrow DEF MailboxInv, Types
<1>4. ServerFrames' = ServerFrames
  BY DEF ServerFrames, MailboxRows, Receipts
<1>5. toServer' \in Seq(HostFrames')
  BY <1>3, SeqSubset
<1>6. recorded' \in Seq(Settled')
  <2>1. recorded' = recorded /\ recorded \in Seq(Settled)
    BY DEF MailboxInv, Channels
  <2> QED
    BY <2>1, <1>3, SeqSubset
<1>7. Channels'
  BY <1>4, <1>5, <1>6 DEF Channels
<1> QED
  BY <1>1, <1>2, <1>7 DEF MailboxInv

\* A step that changes neither database.
LEMMA LinkStep ==
    ASSUME MailboxInv, Types', UNCHANGED <<mailbox, ackedRows, recorded, db>>, rowid <= rowid',
           toHost' \in Seq(ServerFrames),
           toServer' \in Seq(HostFrames),
           inFlight' \subseteq 1..Len(db.outbox)
    PROVE  MailboxInv' /\ CommandStep
<1>1. /\ Len(db.inbox) \in Nat /\ Len(db.outbox) \in Nat
      /\ Stored(db)' /\ db.acknowledged \in ackedRows \cup {0}
  BY SMTT(20) DEF MailboxInv, Types, Databases, Stored, Acked
<1>2. MailboxInv'
  BY <1>1, DatabaseStep
<1> QED
  BY <1>2 DEF CommandStep

\* A step of the host that keeps what it has stored.
LEMMA KeepsStep ==
    ASSUME MailboxInv, Types', UNCHANGED <<mailbox, ackedRows, recorded, rowid>>,
           Keeps(db, db'),
           db'.acknowledged \in ackedRows \cup {0},
           toHost' \in Seq(ServerFrames),
           UNCHANGED toServer,
           inFlight' \subseteq inFlight
    PROVE  MailboxInv' /\ CommandStep
<1>1. /\ db \in Databases /\ db' \in Databases /\ Stored(db) /\ rowid \in Nat
      /\ toServer \in Seq(HostFrames) /\ inFlight \subseteq 1..Len(db.outbox)
  BY DEF MailboxInv, Types, Channels
<1>2. Stored(db')
  BY <1>1, KeepsStored
<1>3. Stored(db)'
  BY <1>2 DEF Stored
<1>4. /\ Len(db.inbox) \in Nat /\ Len(db.outbox) \in Nat /\ Len(db'.outbox) \in Nat
  BY <1>1 DEF Databases
<1>5. /\ Len(db.inbox) <= Len(db'.inbox) /\ Len(db.outbox) <= Len(db'.outbox)
      /\ \A j \in 1..Len(db.outbox) : db'.outbox[j].event = db.outbox[j].event
  BY <1>4 DEF Keeps
<1>6. inFlight' \subseteq 1..Len(db'.outbox)
  BY <1>1, <1>4, <1>5
<1>7. MailboxInv'
  BY <1>1, <1>3, <1>5, <1>6, DatabaseStep
<1> QED
  BY <1>7 DEF CommandStep, Keeps

-----------------------------------------------------------------------------
(* The steps of the server. *)

LEMMA EnqueueStep ==
    ASSUME MailboxInv, NEW d \in Dispatches, EnqueueExecute(d) \/ EnqueueCancel(d)
    PROVE  MailboxInv' /\ CommandStep
<1>1. PICK type \in {"execute", "cancel"} :
        /\ rowid < MaxSequence
        /\ rowid' = rowid + 1
        /\ mailbox' = Append(mailbox, [seq |-> rowid + 1, prev |-> LastSequence,
                                       type |-> type, dispatch |-> d])
  BY DEF EnqueueExecute, EnqueueCancel, Enqueue
<1>2. /\ UNCHANGED <<ackedRows, recorded, session, delivery, callbacks, toHost, toServer, db,
                     hostMemory, faults>>
      /\ dispatch' \in [Dispatches -> {"none", "leased", "cancelling", "interrupted", "settled"}]
  BY DEF EnqueueExecute, EnqueueCancel, MailboxInv, Types
<1> DEFINE n == Len(mailbox)
           row == [seq |-> rowid + 1, prev |-> LastSequence, type |-> type, dispatch |-> d]
<1>3. /\ mailbox \in Seq(Rows) /\ n \in Nat /\ rowid \in 0..MaxSequence /\ MaxSequence \in Nat
  BY HostMailboxAssumption DEF MailboxInv, Types
<1>4. \A i \in 1..n : mailbox[i].seq \in 1..MaxSequence
  <2> TAKE i \in 1..n
  <2>1. mailbox[i] \in Rows
    BY <1>3
  <2> QED
    BY <2>1 DEF Rows
<1>5. /\ LastSequence \in 0..MaxSequence
      /\ LastSequence = IF n = 0 THEN 0 ELSE mailbox[n].seq
  <2>1. LastSequence = IF n = 0 THEN 0 ELSE mailbox[n].seq
    BY <1>3 DEF LastSequence
  <2> QED
    BY <2>1, <1>3, <1>4
<1>6. row \in Rows /\ row.seq = rowid + 1 /\ row.prev = LastSequence
  BY <1>1, <1>3, <1>5 DEF Rows
<1> HIDE DEF row
<1>7. /\ mailbox' \in Seq(Rows) /\ Len(mailbox') = n + 1
      /\ \A i \in 1..n : mailbox'[i] = mailbox[i]
      /\ mailbox'[n + 1] = row
  BY <1>1, <1>3, <1>6 DEF row
<1>8. Types'
  BY <1>1, <1>2, <1>3, <1>7 DEF MailboxInv, Types, delivery, hostMemory
<1>9. \A i \in 1..n + 1 : i \in 1..n \/ i = n + 1
  BY <1>3
<1>10. Chain'
  <2>1. \A i \in 1..n : mailbox[i].seq <= rowid
                        /\ mailbox[i].prev = IF i = 1 THEN 0 ELSE mailbox[i - 1].seq
    BY DEF MailboxInv, Chain
  <2>2. ASSUME NEW i \in 1..n + 1
        PROVE  /\ mailbox'[i].seq <= rowid'
               /\ mailbox'[i].prev = IF i = 1 THEN 0 ELSE mailbox'[i - 1].seq
    <3>1. CASE i \in 1..n
      <4>1. mailbox'[i] = mailbox[i] /\ (i # 1 => mailbox'[i - 1] = mailbox[i - 1])
        BY <3>1, <1>3, <1>7
      <4>2. mailbox[i].seq <= rowid + 1
        BY <2>1, <3>1, <1>3, <1>4
      <4> QED
        BY <4>1, <4>2, <2>1, <3>1, <1>1
    <3>2. CASE i = n + 1
      <4>1. mailbox'[i] = row
        BY <3>2, <1>7
      <4>2. CASE n = 0
        BY <4>1, <4>2, <3>2, <1>1, <1>3, <1>5, <1>6
      <4>3. CASE n # 0
        <5>1. i # 1 /\ mailbox'[i - 1] = mailbox[n]
          BY <4>3, <3>2, <1>3, <1>7
        <5> QED
          BY <5>1, <4>1, <4>3, <1>1, <1>3, <1>5, <1>6
      <4> QED
        BY <4>2, <4>3
    <3> QED
      BY <3>1, <3>2, <1>9
  <2>3. ASSUME NEW i \in 1..n + 1, NEW j \in 1..n + 1, i < j
        PROVE  mailbox'[i].seq < mailbox'[j].seq
    <3>1. i \in 1..n /\ mailbox'[i] = mailbox[i]
      BY <2>3, <1>3, <1>7
    <3>2. CASE j \in 1..n
      BY <2>3, <3>1, <3>2, <1>7 DEF MailboxInv, Chain
    <3>3. CASE j = n + 1
      BY <2>1, <3>1, <3>3, <1>3, <1>4, <1>6, <1>7
    <3> QED
      BY <3>2, <3>3, <1>9
  <2> QED
    BY <2>2, <2>3, <1>7 DEF Chain
<1>11. Len(db.inbox) \in Nat /\ Len(db.inbox) <= n /\ db' = db
  BY <1>2 DEF MailboxInv, Types, Databases, Stored
<1>12. \A i \in 1..Len(db.inbox) : i \in 1..n /\ mailbox'[i] = mailbox[i]
  BY <1>3, <1>7, <1>11
<1>13. Stored(db)'
  <2>1. Len(db.inbox) <= Len(mailbox')
    BY <1>3, <1>7, <1>11
  <2>2. Len(db.inbox) # 0 => Len(db.inbox) \in 1..Len(db.inbox)
    BY <1>11
  <2> QED
    <3>1. \A i \in 1..Len(db.inbox) : db.inbox[i].msg = mailbox'[i]
      BY <1>12 DEF MailboxInv, Stored
    <3>2. db.received = IF Len(db.inbox) = 0 THEN 0 ELSE mailbox'[Len(db.inbox)].seq
      BY <2>2, <1>12 DEF MailboxInv, Stored
    <3>3. \A j \in 1..Len(db.outbox) : db.outbox[j].event.type = "ack" =>
             \E i \in 1..Len(db.inbox) : mailbox'[i].seq = db.outbox[j].event.seq
      BY <1>12 DEF MailboxInv, Stored
    <3> QED
      BY <2>1, <3>1, <3>2, <3>3, <1>11 DEF Stored
<1>14. Acked'
  <2>1. \A s \in ackedRows : \E i \in 1..Len(db.inbox) : mailbox'[i].seq = s
    BY <1>12 DEF MailboxInv, Acked
  <2>2. ASSUME NEW s \in ackedRows, NEW i \in 1..n + 1, mailbox'[i].seq <= s
        PROVE  mailbox'[i].seq \in ackedRows
    <3>1. PICK k \in 1..Len(db.inbox) : mailbox[k].seq = s
      BY DEF MailboxInv, Acked
    <3>2. s <= rowid /\ s \in Nat
      BY <3>1, <1>4, <1>12 DEF MailboxInv, Chain
    <3>3. i # n + 1
      BY <2>2, <3>2, <1>3, <1>6, <1>7
    <3>4. i \in 1..n
      BY <3>3, <1>9
    <3> QED
      BY <2>2, <3>4, <1>7 DEF MailboxInv, Acked
  <2> QED
    BY <2>1, <2>2, <1>2, <1>7 DEF MailboxInv, Acked
<1>15. Channels'
  <2>1. MailboxRows \subseteq MailboxRows'
    <3>1. 1..n \subseteq 1..Len(mailbox')
      BY <1>3, <1>7
    <3> QED
      BY <3>1, <1>7 DEF MailboxRows
  <2>2. ServerFrames \subseteq ServerFrames'
    BY <2>1, <1>2 DEF ServerFrames, Receipts
  <2>3. HostFrames' = HostFrames /\ Settled' = Settled
    BY <1>2 DEF HostFrames, Settled
  <2>4. toHost' \in Seq(ServerFrames')
    BY <2>2, <1>2, SeqSubset DEF MailboxInv, Channels
  <2> QED
    BY <2>3, <2>4, <1>2 DEF MailboxInv, Channels, hostMemory
<1> QED
  BY <1>1, <1>6, <1>8, <1>10, <1>11, <1>13, <1>14, <1>15 DEF MailboxInv, CommandStep, row

\* A row for another host takes a row number and changes nothing else.
LEMMA EnqueueElsewhereStep ==
    ASSUME MailboxInv, EnqueueElsewhere
    PROVE  MailboxInv' /\ CommandStep
<1>1. Types' /\ rowid <= rowid'
  BY HostMailboxAssumption DEF EnqueueElsewhere, MailboxInv, Types, delivery, hostMemory
<1> QED
  BY <1>1, LinkStep DEF EnqueueElsewhere, MailboxInv, Channels, hostMemory

\* The pump sends the rows of its window once and in order.
LEMMA PumpStep ==
    ASSUME MailboxInv, Pump
    PROVE  MailboxInv' /\ CommandStep
<1>1. PICK i \in 1..Len(mailbox) :
        /\ Reply(<<[kind |-> "message", msg |-> mailbox[i]]>>)
        /\ sentSequence' = mailbox[i].seq
        /\ inflight' = inflight \cup {mailbox[i].seq}
  BY DEF Pump
<1>2. mailbox[i] \in Rows /\ mailbox[i] \in MailboxRows
  <2>1. mailbox \in Seq(Rows)
    BY DEF MailboxInv, Types
  <2> QED
    BY <2>1 DEF MailboxRows
<1>3. mailbox[i].seq \in 1..MaxSequence /\ mailbox[i].seq \in 0..MaxSequence
  BY <1>2, HostMailboxAssumption DEF Rows
<1>4. UNCHANGED <<serverDisk, session, confirmedSequence, callbacks, toServer, db, hostMemory,
                  faults>>
  BY DEF Pump
<1>5. Types' /\ rowid <= rowid'
  <2>1. sentSequence' \in 0..MaxSequence /\ inflight' \subseteq 1..MaxSequence
    BY <1>1, <1>3 DEF MailboxInv, Types
  <2> QED
    BY <2>1, <1>4 DEF MailboxInv, Types, serverDisk, hostMemory
<1>6. [kind |-> "message", msg |-> mailbox[i]] \in ServerFrames
  BY <1>2 DEF ServerFrames
<1>7. toHost' \in Seq(ServerFrames)
  BY <1>1, <1>6, ReplyFrames DEF MailboxInv, Channels
<1> QED
  BY <1>4, <1>5, <1>7, LinkStep DEF MailboxInv, Channels, hostMemory, serverDisk

\* Confirming an acknowledged row moves the cursor by no more than the host has stored.
LEMMA ConfirmStep ==
    ASSUME MailboxInv, Confirm
    PROVE  MailboxInv' /\ CommandStep
<1>1. Head(callbacks) \in 0..MaxSequence /\ Tail(callbacks) \in Seq(0..MaxSequence)
  BY SeqHeadTail DEF MailboxInv, Types, Confirm
<1>2. /\ sentSequence' \in 0..MaxSequence /\ confirmedSequence' \in 0..MaxSequence
      /\ inflight' \subseteq 1..MaxSequence
  BY <1>1 DEF MailboxInv, Types, Confirm, delivery
<1>3. Types' /\ rowid <= rowid'
  BY <1>1, <1>2 DEF MailboxInv, Types, Confirm, serverDisk, hostMemory
<1> QED
  BY <1>3, LinkStep DEF Confirm, MailboxInv, Channels, serverDisk, hostMemory

\* The session's first frame.
LEMMA HelloStep ==
    ASSUME MailboxInv, toServer # <<>>, Head(toServer).kind = "hello", ServerHello(Head(toServer)),
           toServer' = Tail(toServer), UNCHANGED <<db, hostMemory, faults>>
    PROVE  MailboxInv' /\ CommandStep
<1> DEFINE frame == Head(toServer)
           cursor == frame.acknowledged
           welcome == [kind |-> "welcome", acknowledged |-> cursor]
           error == [kind |-> "protocol_error"]
<1>1. frame \in HostFrames /\ toServer' \in Seq(HostFrames)
  BY SeqHeadTail DEF MailboxInv, Channels
<1>2. cursor \in 0..MaxSequence
  BY <1>1 DEF HostFrames
<1> HIDE DEF cursor
<1>3. /\ error \in ServerFrames
      /\ cursor \in ackedRows \cup {0} => welcome \in ServerFrames
  BY DEF ServerFrames
<1>4. /\ \/ Reply(<<error>>)
         \/ Reply(<<welcome>>) /\ cursor \in ackedRows \cup {0}
      /\ UNCHANGED serverDisk
  BY <1>2 DEF ServerHello, cursor
<1>5. toHost' \in Seq(ServerFrames)
  BY <1>3, <1>4, ReplyFrames DEF MailboxInv, Channels
<1>6. Types' /\ rowid <= rowid'
  <2>1. /\ session' \in {"closed", "open", "ready"} /\ sentSequence' \in 0..MaxSequence
        /\ confirmedSequence' \in 0..MaxSequence /\ inflight' \subseteq 1..MaxSequence
        /\ UNCHANGED callbacks
    BY <1>2 DEF ServerHello, MailboxInv, Types, delivery, cursor
  <2> QED
    BY <2>1, <1>4 DEF MailboxInv, Types, serverDisk, hostMemory
<1> QED
  BY <1>1, <1>4, <1>5, <1>6, LinkStep DEF MailboxInv, Channels, serverDisk, hostMemory

\* Events have the receipts of acknowledgements only if these are stored.
LEMMA AckAction ==
    ASSUME MailboxInv, NEW j \in 1..Len(db.outbox), db.outbox[j].event.type = "ack",
           ~AckOutOfOrder(db.outbox[j].event.seq), EventAction(db.outbox[j].event),
           UNCHANGED <<mailbox, db>>
    PROVE  /\ ackedRows \subseteq ackedRows'
           /\ ackedRows' \subseteq 1..MaxSequence
           /\ db.outbox[j].event.seq \in ackedRows'
           /\ Acked'
           /\ UNCHANGED dispatch
<1> DEFINE e == db.outbox[j].event
           s == db.outbox[j].event.seq
           last == LastAcknowledged
<1>1. PICK k \in 1..Len(db.inbox) : mailbox[k].seq = s
  BY DEF MailboxInv, Stored
<1>2. /\ mailbox \in Seq(Rows) /\ Len(mailbox) \in Nat
      /\ Len(db.inbox) \in Nat /\ Len(db.inbox) <= Len(mailbox)
  BY DEF MailboxInv, Types, Databases, Stored
<1>3. k \in 1..Len(mailbox)
  BY <1>2
<1>4. \A i \in 1..Len(mailbox) : mailbox[i].seq \in 1..MaxSequence
  <2> TAKE i \in 1..Len(mailbox)
  <2>1. mailbox[i] \in Rows
    BY <1>2
  <2> QED
    BY <2>1 DEF Rows
<1>5. s \in 1..MaxSequence
  BY <1>1, <1>3, <1>4
<1>6. /\ last \in ackedRows \cup {0} /\ last \in 0..MaxSequence
      /\ \A other \in ackedRows : other <= last
  BY LastAcknowledgedIsMax DEF MailboxInv
<1>7. /\ ackedRows' = IF s > last THEN ackedRows \cup {s} ELSE ackedRows
      /\ UNCHANGED dispatch
  BY DEF EventAction
<1>8. ~(s > last /\ \A i \in 1..Len(mailbox) : mailbox[i].seq = s => mailbox[i].prev # last)
  BY DEF AckOutOfOrder
<1>9. ackedRows \subseteq 1..MaxSequence
  BY DEF MailboxInv, Types
<1> HIDE DEF e, s, last
<1>10. CASE s > last
  <2>1. PICK i \in 1..Len(mailbox) : mailbox[i].seq = s /\ mailbox[i].prev = last
    BY <1>8, <1>10
  <2>2. ackedRows' = ackedRows \cup {s}
    BY <1>7, <1>10
  <2>3. ASSUME NEW other \in ackedRows'
        PROVE  other <= s
    <3>1. CASE other \in ackedRows
      <4>1. other <= last /\ other \in 1..MaxSequence
        BY <3>1, <1>6, <1>9
      <4> QED
        BY <4>1, <1>5, <1>6, <1>10
    <3>2. CASE other = s
      BY <3>2, <1>5
    <3> QED
      BY <3>1, <3>2, <2>2
  <2>4. \A t \in ackedRows' : \E q \in 1..Len(db.inbox) : mailbox[q].seq = t
    BY <2>2, <1>1 DEF MailboxInv, Acked
  \* The rows before the one acknowledged now.
  <2>5. ASSUME NEW q \in 1..Len(mailbox), mailbox[q].seq <= s
        PROVE  mailbox[q].seq \in ackedRows'
    <3>1. CASE q >= i
      <4>1. q = i
        BY <3>1, <2>1, <2>5, <1>2, <1>4, <1>5 DEF MailboxInv, Chain
      <4> QED
        BY <4>1, <2>1, <2>2
    <3>2. CASE q < i
      <4>1. i # 1 /\ i - 1 \in 1..Len(mailbox) /\ mailbox[i - 1].seq = last
        BY <3>2, <2>1, <1>2 DEF MailboxInv, Chain
      <4>2. mailbox[q].seq <= last
        <5>1. mailbox[q].seq \in Nat /\ mailbox[i - 1].seq \in Nat
          BY <4>1, <1>4
        <5>2. q = i - 1 \/ q < i - 1
          BY <3>2, <1>2
        <5>3. q < i - 1 => mailbox[q].seq < mailbox[i - 1].seq
          BY <4>1 DEF MailboxInv, Chain
        <5> QED
          BY <5>1, <5>2, <5>3, <4>1
      <4>3. last \in ackedRows
        BY <4>1, <1>4, <1>6, SMTT(20)
      <4> QED
        BY <4>2, <4>3, <2>2 DEF MailboxInv, Acked
    <3> QED
      BY <3>1, <3>2, <1>2
  <2>6. ASSUME NEW t \in ackedRows', NEW q \in 1..Len(mailbox), mailbox[q].seq <= t
        PROVE  mailbox[q].seq \in ackedRows'
    <3>1. mailbox[q].seq <= s
      BY <2>2, <2>3, <2>6, <1>4, <1>5, <1>9
    <3> QED
      BY <3>1, <2>5
  <2>7. \E t \in ackedRows' \cup {0} : \A other \in ackedRows' : other <= t
    BY <2>2, <2>3
  <2>8. Acked'
    BY <2>2, <2>4, <2>6, <2>7 DEF MailboxInv, Acked
  <2> QED
    BY <2>2, <2>8, <1>5, <1>7, <1>9 DEF s
<1>11. CASE ~(s > last)
  <2>1. ackedRows' = ackedRows
    BY <1>7, <1>11
  <2>2. last \in ackedRows /\ s <= last
    BY <1>5, <1>6, <1>11
  <2>3. s \in ackedRows
    BY <2>2, <1>1, <1>3 DEF MailboxInv, Acked
  <2>4. Acked'
    BY <2>1 DEF MailboxInv, Acked
  <2> QED
    BY <2>1, <2>3, <2>4, <1>7, <1>9 DEF s
<1> QED
  BY <1>10, <1>11

\* An event of the host leaves the commands as they are.
LEMMA EventStep ==
    ASSUME MailboxInv, toServer # <<>>, Head(toServer).kind = "event", ServerEvent(Head(toServer)),
           toServer' = Tail(toServer), UNCHANGED <<db, hostMemory, faults>>
    PROVE  MailboxInv' /\ CommandStep
<1> DEFINE frame == Head(toServer)
           id == frame.id
           e == frame.event
           answer == [kind |-> "event_ack", id |-> id]
           error == [kind |-> "protocol_error"]
<1>1. frame \in HostFrames /\ toServer' \in Seq(HostFrames)
  BY SeqHeadTail DEF MailboxInv, Channels
<1>2. id \in 1..Len(db.outbox) /\ e = db.outbox[id].event
  BY <1>1 DEF HostFrames
<1>3. /\ db.outbox \in Seq(OutboxRows) /\ mailbox \in Seq(Rows) /\ rowid \in Nat
      /\ toHost \in Seq(ServerFrames) /\ recorded \in Seq(Settled)
      /\ inFlight \subseteq 1..Len(db.outbox)
  BY DEF MailboxInv, Types, Databases, Channels
<1>4. e \in Events /\ e.seq \in 0..MaxSequence
  <2>1. db.outbox[id] \in OutboxRows
    BY <1>2, <1>3
  <2>2. db.outbox[id].event \in Events
    BY <2>1 DEF OutboxRows
  <2> HIDE DEF e
  <2>3. e \in Events
    BY <2>2, <1>2
  <2> QED
    BY <2>3 DEF Events
<1>5. UNCHANGED <<mailbox, rowid, session, delivery, db, hostMemory, faults>>
  BY DEF ServerEvent, serverDisk
<1>6. callbacks' \in Seq(0..MaxSequence)
  <2>1. callbacks \in Seq(0..MaxSequence)
    BY DEF MailboxInv, Types
  <2>2. callbacks' = callbacks \/ callbacks' = Append(callbacks, e.seq)
    BY DEF ServerEvent
  <2> DEFINE q == e.seq
  <2>3. q \in 0..MaxSequence
    BY <1>4
  <2> HIDE DEF q
  <2>4. Append(callbacks, q) \in Seq(0..MaxSequence)
    BY <2>1, <2>3
  <2> QED
    BY <2>1, <2>2, <2>4 DEF q
<1> HIDE DEF id, e
\* The event is refused.
<1>7. CASE Reply(<<error>>) /\ UNCHANGED <<serverDisk, callbacks>>
  <2>1. error \in ServerFrames
    BY DEF ServerFrames
  <2>2. toHost' \in Seq(ServerFrames)
    BY <2>1, <1>3, <1>7, ReplyFrames
  <2>3. Types' /\ rowid <= rowid'
    BY <1>3, <1>5, <1>7 DEF MailboxInv, Types, serverDisk, delivery, hostMemory
  <2> QED
    BY <2>2, <2>3, <1>1, <1>3, <1>5, <1>7, LinkStep DEF serverDisk, hostMemory
\* It has a receipt.
<1>8. CASE HasReceipt(id) /\ UNCHANGED serverDisk /\ Reply(<<answer>>)
  <2>1. id \in Receipts
    BY <1>8 DEF HasReceipt, Receipts
  <2>2. answer \in ServerFrames
    BY <2>1 DEF ServerFrames
  <2>3. toHost' \in Seq(ServerFrames)
    BY <2>2, <1>3, <1>8, ReplyFrames
  <2>4. Types' /\ rowid <= rowid'
    BY <1>3, <1>5, <1>6, <1>8 DEF MailboxInv, Types, serverDisk, delivery, hostMemory
  <2> QED
    BY <2>3, <2>4, <1>1, <1>3, <1>5, <1>8, LinkStep DEF serverDisk, hostMemory
\* It is applied, and gets one.
<1>9. CASE /\ ~(e.type = "ack" /\ AckOutOfOrder(e.seq))
           /\ EventAction(e) /\ recorded' = Append(recorded, id) /\ Reply(<<answer>>)
  <2>1. /\ ackedRows \subseteq ackedRows'
        /\ ackedRows' \subseteq 1..MaxSequence
        /\ e.type = "ack" => e.seq \in ackedRows'
        /\ Acked'
        /\ dispatch' \in [Dispatches -> {"none", "leased", "cancelling", "interrupted", "settled"}]
    <3>1. CASE e.type = "ack"
      BY <3>1, <1>2, <1>5, <1>9, AckAction DEF MailboxInv, Types, e, id
    <3>2. CASE e.type \in {"accepted", "interrupted", "terminal"}
      <4>1. /\ ackedRows' = ackedRows
            /\ dispatch' \in [Dispatches -> {"none", "leased", "cancelling", "interrupted", "settled"}]
        BY <3>2, <1>9 DEF EventAction, MailboxInv, Types
      <4>2. Acked'
        BY <4>1, <1>5 DEF MailboxInv, Acked
      <4> QED
        BY <4>1, <4>2, <3>2 DEF MailboxInv, Types
    <3> QED
      BY <3>1, <3>2, <1>4 DEF Events
  <2>2. Types'
    BY <2>1, <1>5, <1>6 DEF MailboxInv, Types, delivery, hostMemory
  <2>3. /\ HostFrames \subseteq HostFrames' /\ Settled \subseteq Settled'
    <3>1. Len(db.outbox) \in Nat
      BY <1>3
    <3> QED
      BY <2>1, <2>2, <3>1, <1>5, FramesGrow DEF MailboxInv, Types
  <2>4. id \in Settled'
    BY <2>1, <1>2, <1>5 DEF Settled, e, id
  <2>5. recorded' \in Seq(Settled')
    <3>1. recorded \in Seq(Settled')
      BY <2>3, <1>3, SeqSubset
    <3> QED
      BY <3>1, <2>4, <1>9
  <2>6. Receipts \subseteq Receipts' /\ id \in Receipts'
    <3>1. /\ Len(recorded) \in Nat /\ Len(recorded') = Len(recorded) + 1
          /\ \A r \in 1..Len(recorded) : recorded'[r] = recorded[r]
          /\ recorded'[Len(recorded) + 1] = id
      BY <1>3, <1>9
    <3>2. \A r \in 1..Len(recorded) : r \in 1..Len(recorded')
      BY <3>1
    <3>3. Len(recorded) + 1 \in 1..Len(recorded')
      BY <3>1
    <3> QED
      BY <3>1, <3>2, <3>3 DEF Receipts
  <2>7. ServerFrames \subseteq ServerFrames' /\ answer \in ServerFrames'
    <3>1. ackedRows \cup {0} \subseteq ackedRows' \cup {0} /\ MailboxRows' = MailboxRows
      BY <2>1, <1>5 DEF MailboxRows
    <3>2. ServerFrames \subseteq ServerFrames'
      BY <2>6, <3>1 DEF ServerFrames
    <3> QED
      BY <2>6, <3>2 DEF ServerFrames
  <2>8. toHost' \in Seq(ServerFrames')
    <3>1. toHost \in Seq(ServerFrames')
      BY <2>7, <1>3, SeqSubset
    <3> QED
      BY <3>1, <2>7, <1>9, ReplyFrames
  <2>9. Channels'
    <3>1. toServer' \in Seq(HostFrames')
      BY <2>3, <1>1, SeqSubset
    <3> QED
      BY <3>1, <2>5, <2>8, <1>3, <1>5 DEF Channels, hostMemory
  <2>10. Chain' /\ Stored(db)'
    BY <1>5 DEF MailboxInv, Chain, Stored
  <2> QED
    BY <2>1, <2>2, <2>9, <2>10, <1>5 DEF MailboxInv, CommandStep
<1> QED
  BY <1>7, <1>8, <1>9 DEF ServerEvent, id, e

\* Whatever frame the server takes from the socket, the command side is kept.
LEMMA ServerReceiveStep ==
    ASSUME MailboxInv, ServerReceive
    PROVE  MailboxInv' /\ CommandStep
BY HelloStep, EventStep DEF ServerReceive

-----------------------------------------------------------------------------
(* The steps of the host and the faults. *)

LEMMA ConnectStep ==
    ASSUME MailboxInv, Connect
    PROVE  MailboxInv' /\ CommandStep
<1> DEFINE hello == [kind |-> "hello", acknowledged |-> db.acknowledged]
<1>1. db.acknowledged \in 0..MaxSequence
  BY DEF MailboxInv, Types, Databases
<1>2. hello \in HostFrames
  BY <1>1 DEF HostFrames
<1>3. toServer' \in Seq(HostFrames) /\ toHost' \in Seq(ServerFrames)
  BY <1>2 DEF Connect
<1>4. Types' /\ rowid <= rowid'
  BY DEF Connect, MailboxInv, Types, serverDisk
<1> QED
  BY <1>3, <1>4, LinkStep DEF Connect, MailboxInv, Channels, serverDisk

\* Draining the outbox of the host sends what is stored, in order.
LEMMA DrainStep ==
    ASSUME MailboxInv, Drain
    PROVE  MailboxInv' /\ CommandStep
<1>1. PICK id \in 1..Len(db.outbox) :
        /\ inFlight' = inFlight \cup {id}
        /\ toServer' = IF session = "closed" THEN toServer
                       ELSE Append(toServer, [kind |-> "event", id |-> id,
                                              event |-> db.outbox[id].event])
  BY DEF Drain
<1> DEFINE frame == [kind |-> "event", id |-> id, event |-> db.outbox[id].event]
<1>2. frame \in HostFrames
  BY DEF HostFrames
<1> HIDE DEF frame
<1>3. toServer' \in Seq(HostFrames)
  <2>1. toServer \in Seq(HostFrames) /\ (toServer' = toServer \/ toServer' = Append(toServer, frame))
    BY <1>1 DEF MailboxInv, Channels, frame
  <2> QED
    BY <2>1, <1>2
<1>4. Types' /\ rowid <= rowid'
  BY DEF Drain, MailboxInv, Types, serverVars, serverDisk, delivery
<1>5. inFlight' \subseteq 1..Len(db.outbox)
  BY <1>1 DEF MailboxInv, Channels
<1> QED
  BY <1>3, <1>4, <1>5, LinkStep DEF Drain, MailboxInv, Channels, serverVars, serverDisk

\* The end of an execution adds an event and no command.
LEMMA FinishStep ==
    ASSUME MailboxInv, NEW d \in Dispatches, Finish(d)
    PROVE  MailboxInv' /\ CommandStep
<1> DEFINE ex == [db.execution EXCEPT ![d] = "terminal"]
           h == [db EXCEPT !.execution = ex]
<1>1. db \in Databases
  BY DEF MailboxInv, Types
<1>2. ex \in [Dispatches -> ExecutionStates]
  BY <1>1 DEF Databases, ExecutionStates
<1>3. db' = QueueFor(h, "terminal", {d})
  BY DEF Finish
<1> HIDE DEF ex
<1>4. /\ h \in Databases /\ h.inbox = db.inbox /\ h.outbox = db.outbox
      /\ h.received = db.received /\ h.acknowledged = db.acknowledged
  BY <1>1, <1>2 DEF Databases
<1> HIDE DEF h
<1>5. db' \in Databases /\ Keeps(h, db') /\ db'.acknowledged = h.acknowledged
  BY <1>3, <1>4, QueueForKeeps
<1>6. Keeps(db, db')
  BY <1>4, <1>5 DEF Keeps
<1>7. Types'
  BY <1>5 DEF Finish, MailboxInv, Types, serverVars, serverDisk, delivery, hostMemory
<1>8. db'.acknowledged \in ackedRows \cup {0}
  BY <1>4, <1>5 DEF MailboxInv, Acked
<1> QED
  BY <1>6, <1>7, <1>8, KeepsStep
  DEF Finish, MailboxInv, Channels, serverVars, serverDisk, hostMemory

\* A host that starts compacts its database and interrupts what it cannot account for; the cursor stays.
LEMMA StartStep ==
    ASSUME MailboxInv, HostStart
    PROVE  MailboxInv' /\ CommandStep
<1> DEFINE c == Compact(db)
           ambiguous == {d \in Dispatches : c.execution[d] \in {"accepted", "running"}}
           ex == [d \in Dispatches |-> IF d \in ambiguous THEN "interrupted" ELSE c.execution[d]]
           h == [c EXCEPT !.execution = ex]
<1>1. db \in Databases
  BY DEF MailboxInv, Types
<1>2. c \in Databases /\ Keeps(db, c) /\ c.acknowledged = db.acknowledged
  BY <1>1, CompactKeeps
<1>3. db' = QueueFor(h, "interrupted", ambiguous)
  BY DEF HostStart
<1> HIDE DEF c
<1>4. ex \in [Dispatches -> ExecutionStates] /\ ambiguous \in SUBSET Dispatches
  BY <1>2 DEF Databases, ExecutionStates
<1> HIDE DEF ex, ambiguous
<1>5. /\ h \in Databases /\ h.inbox = c.inbox /\ h.outbox = c.outbox
      /\ h.received = c.received /\ h.acknowledged = c.acknowledged
  BY <1>2, <1>4 DEF Databases
<1> HIDE DEF h
<1>6. db' \in Databases /\ Keeps(h, db') /\ db'.acknowledged = h.acknowledged
  BY <1>3, <1>4, <1>5, QueueForKeeps
<1>7. Keeps(c, db')
  BY <1>5, <1>6 DEF Keeps
<1>8. Keeps(db, db')
  BY <1>1, <1>2, <1>6, <1>7, KeepsTransitive
<1>9. Types'
  BY <1>6 DEF HostStart, MailboxInv, Types, serverVars, serverDisk, delivery
<1>10. db'.acknowledged \in ackedRows \cup {0}
  BY <1>2, <1>5, <1>6 DEF MailboxInv, Acked
<1> QED
  BY <1>8, <1>9, <1>10, KeepsStep
  DEF HostStart, MailboxInv, Channels, serverVars, serverDisk

\* A welcome makes the host pump its outbox again, with nothing in flight; if the
\* host adopts the cursor it names, the server has it on disk.
LEMMA WelcomeStep ==
    ASSUME MailboxInv, NEW h \in Databases, Keeps(db, h), h.acknowledged \in ackedRows \cup {0},
           toHost # <<>>, Welcome(h), UNCHANGED <<serverVars, toServer, faults>>
    PROVE  MailboxInv' /\ CommandStep
<1>1. db \in Databases
  BY DEF MailboxInv, Types
<1>2. /\ db' = PumpHost(h) /\ inFlight' = {} /\ welcomed' = TRUE /\ toHost' = Tail(toHost)
      /\ UNCHANGED <<up, connected, stopped>>
  BY DEF Welcome
<1>3. db' \in Databases /\ Keeps(h, db') /\ db'.acknowledged = h.acknowledged
  BY <1>2, PumpHostKeeps
<1>4. Keeps(db, db')
  BY <1>1, <1>3, KeepsTransitive
<1>5. Types'
  BY <1>2, <1>3 DEF MailboxInv, Types, serverVars, serverDisk, delivery
<1>6. toHost' \in Seq(ServerFrames)
  BY <1>2, SeqHeadTail DEF MailboxInv, Channels
<1> QED
  BY <1>2, <1>3, <1>4, <1>5, <1>6, KeepsStep DEF serverVars, serverDisk

\* A frame of the server's that answers an event names one with a receipt.
LEMMA EventAckStep ==
    ASSUME MailboxInv, toHost # <<>>, Head(toHost).kind = "event_ack", HostEventAck(Head(toHost)),
           UNCHANGED <<serverVars, toServer, faults>>
    PROVE  MailboxInv' /\ CommandStep
<1> DEFINE id == Head(toHost).id
           e == db.outbox[id].event
<1>1. Head(toHost) \in ServerFrames /\ Tail(toHost) \in Seq(ServerFrames)
  BY SeqHeadTail DEF MailboxInv, Channels
<1>2. id \in Receipts
  BY <1>1 DEF ServerFrames
<1>3. id \in Settled
  BY <1>2 DEF MailboxInv, Channels, Receipts
<1>4. id \in 1..Len(db.outbox) /\ (e.type = "ack" => e.seq \in ackedRows)
  BY <1>3 DEF Settled
<1>5. db \in Databases
  BY DEF MailboxInv, Types
<1>6. db' = Acknowledge(db, id) /\ toHost' = Tail(toHost) /\ inFlight' \subseteq inFlight
      /\ UNCHANGED <<up, connected, welcomed, stopped>>
  BY DEF HostEventAck
<1> HIDE DEF id
<1>7. /\ db' \in Databases /\ Keeps(db, db')
      /\ db'.acknowledged = db.acknowledged \/ (e.type = "ack" /\ db'.acknowledged = e.seq)
  BY <1>4, <1>5, <1>6, AcknowledgeKeeps
<1>8. db'.acknowledged \in ackedRows \cup {0}
  BY <1>4, <1>7 DEF MailboxInv, Acked
<1>9. Types'
  BY <1>6, <1>7 DEF MailboxInv, Types, serverVars, serverDisk, delivery
<1> QED
  BY <1>1, <1>6, <1>7, <1>8, <1>9, KeepsStep DEF serverVars, serverDisk

\* A message is stored in one transaction; the pump may follow it.
LEMMA MessageStep ==
    ASSUME MailboxInv, toHost # <<>>, Head(toHost).kind = "message",
           Verdict(db, Head(toHost).msg) \in {"known", "new"},
           NEW g, g = Receive(db, Head(toHost).msg), db' = g \/ db' = PumpHost(g),
           Types' \/ db' \notin Databases,
           toHost' \in Seq(ServerFrames), inFlight' \subseteq inFlight,
           UNCHANGED <<serverVars, toServer>>
    PROVE  MailboxInv' /\ CommandStep
<1> DEFINE row == Head(toHost).msg
<1>1. Head(toHost) \in ServerFrames
  BY SeqHeadTail DEF MailboxInv, Channels
<1>2. row \in MailboxRows
  BY <1>1 DEF ServerFrames
<1>3. PICK r \in 1..Len(mailbox) : row = mailbox[r]
  BY <1>2 DEF MailboxRows
<1>4. /\ db \in Databases /\ Types /\ Chain /\ Stored(db) /\ mailbox \in Seq(Rows) /\ rowid \in Nat
      /\ toServer \in Seq(HostFrames) /\ inFlight \subseteq 1..Len(db.outbox)
      /\ db.acknowledged \in ackedRows \cup {0}
  BY SMTT(20) DEF MailboxInv, Types, Channels, Acked
<1>5. row \in Rows
  BY <1>3, <1>4
<1> HIDE DEF row
<1>6. g = Receive(db, row) /\ Verdict(db, row) \in {"known", "new"}
  BY DEF row
<1>7. Stored(g) /\ (Verdict(db, row) # "known" => r = Len(db.inbox) + 1)
  BY <1>3, <1>4, <1>6, ReceiveStored
<1>8. /\ g \in Databases
      /\ g.acknowledged = db.acknowledged
      /\ IF Verdict(db, row) = "known" THEN g.inbox = db.inbox
         ELSE /\ Len(g.inbox) = Len(db.inbox) + 1
              /\ \A i \in 1..Len(db.inbox) : g.inbox[i] = db.inbox[i]
              /\ g.inbox[Len(db.inbox) + 1].msg = row
      /\ Len(g.outbox) >= Len(db.outbox)
      /\ \A j \in 1..Len(db.outbox) : g.outbox[j].event = db.outbox[j].event
  <2> DEFINE k == Receive(db, row)
  <2>1. /\ k \in Databases
        /\ k.acknowledged = db.acknowledged
        /\ IF Verdict(db, row) = "known" THEN k.inbox = db.inbox
           ELSE /\ Len(k.inbox) = Len(db.inbox) + 1
                /\ \A i \in 1..Len(db.inbox) : k.inbox[i] = db.inbox[i]
                /\ k.inbox[Len(db.inbox) + 1].msg = row
        /\ Len(k.outbox) >= Len(db.outbox)
        /\ \A j \in 1..Len(db.outbox) : k.outbox[j].event = db.outbox[j].event
    BY <1>4, <1>5, ReceiveStores
  <2> HIDE DEF k
  <2>2. g = k
    BY <1>6 DEF k
  <2> QED
    BY <2>1, <2>2
<1>9. /\ Len(db.inbox) \in Nat /\ Len(db.outbox) \in Nat
      /\ Len(g.inbox) \in Nat /\ Len(g.outbox) \in Nat
  BY <1>4, <1>8 DEF Databases
<1>10. db' \in Databases /\ Keeps(g, db') /\ db'.acknowledged = g.acknowledged
  <2>1. CASE db' = g
    <3>1. \A j \in Len(g.outbox) + 1..Len(g.outbox) : FALSE
      BY <1>9
    <3> QED
      BY <2>1, <3>1, <1>8, <1>9 DEF Keeps
  <2>2. CASE db' = PumpHost(g)
    BY <2>2, <1>8, PumpHostKeeps
  <2> QED
    BY <2>1, <2>2
<1>11. Stored(db')
  BY <1>7, <1>8, <1>10, KeepsStored
<1>12. Stored(db)'
  BY <1>11 DEF Stored, serverVars, serverDisk
<1>13. Len(db'.outbox) \in Nat /\ Len(g.outbox) <= Len(db'.outbox)
       /\ Len(db'.inbox) = Len(g.inbox)
  BY <1>10 DEF Databases, Keeps
<1>14. /\ Len(db.inbox) <= Len(db'.inbox) /\ Len(db.outbox) <= Len(db'.outbox)
  <2>1. Len(db.inbox) <= Len(g.inbox)
    BY <1>8, <1>9
  <2> QED
    BY <2>1, <1>8, <1>9, <1>13
<1>15. \A j \in 1..Len(db.outbox) : db'.outbox[j].event = db.outbox[j].event
  <2> TAKE j \in 1..Len(db.outbox)
  <2>1. j \in 1..Len(g.outbox)
    BY <1>8, <1>9
  <2> QED
    BY <2>1, <1>8, <1>10 DEF Keeps
<1>16. inFlight' \subseteq 1..Len(db'.outbox)
  BY <1>4, <1>9, <1>13, <1>14
<1>17. MailboxInv'
  <2>1. Types'
    BY <1>10
  <2>2. db'.acknowledged \in ackedRows \cup {0}
    BY <1>4, <1>8, <1>10
  <2>3. UNCHANGED <<mailbox, ackedRows, recorded, rowid, toServer>>
    BY DEF serverVars, serverDisk
  <2> QED
    BY <2>1, <2>2, <2>3, <1>4, <1>12, <1>14, <1>15, <1>16, DatabaseStep
<1>18. CommandStep
  <2>1. \A i \in 1..Len(g.inbox) : db'.inbox[i].msg = g.inbox[i].msg
    BY <1>10 DEF Keeps
  <2>2. UNCHANGED mailbox
    BY DEF serverVars, serverDisk
  <2>3. CASE Verdict(db, row) = "known"
    BY <2>1, <2>2, <2>3, <1>8, <1>13 DEF CommandStep
  <2>4. CASE Verdict(db, row) # "known"
    <3>1. /\ Len(g.inbox) = Len(db.inbox) + 1
          /\ \A i \in 1..Len(db.inbox) : g.inbox[i] = db.inbox[i] /\ i \in 1..Len(g.inbox)
          /\ g.inbox[Len(db.inbox) + 1].msg = row
          /\ Len(db.inbox) + 1 \in 1..Len(g.inbox)
      BY <2>4, <1>8, <1>9
    <3>2. r = Len(db.inbox) + 1 /\ Len(db.inbox) < Len(mailbox)
      BY <2>4, <1>4, <1>7, <1>9
    <3>3. db'.inbox[Len(db.inbox) + 1].msg = mailbox[Len(db.inbox) + 1]
      BY <2>1, <3>1, <3>2, <1>3
    <3>4. \A i \in 1..Len(db.inbox) : db'.inbox[i].msg = db.inbox[i].msg
      BY <2>1, <3>1
    <3> QED
      BY <2>2, <3>1, <3>2, <3>3, <3>4, <1>13 DEF CommandStep
  <2> QED
    BY <2>3, <2>4
<1> QED
  BY <1>17, <1>18

\* A host that stops loses its socket and no stored command.
LEMMA StopStep ==
    ASSUME MailboxInv, NEW reason, Stop(reason), UNCHANGED <<serverVars, toServer, faults>>
    PROVE  MailboxInv' /\ CommandStep
<1>1. Types' /\ rowid <= rowid'
  <2>1. up' \in BOOLEAN /\ connected' \in BOOLEAN /\ welcomed' \in BOOLEAN
    BY DEF Stop, MailboxInv, Types
  <2>2. UNCHANGED <<serverVars, db, faults>>
    BY DEF Stop
  <2> QED
    BY <2>1, <2>2 DEF MailboxInv, Types, serverVars, serverDisk, delivery
<1> QED
  BY <1>1, LinkStep DEF Stop, MailboxInv, Channels, serverVars, serverDisk

\* Whatever frame the host takes from the socket, commands are stored in order and once.
LEMMA HostReceiveStep ==
    ASSUME MailboxInv, HostReceive
    PROVE  MailboxInv' /\ CommandStep
<1> DEFINE frame == Head(toHost)
<1>1. toHost # <<>> /\ UNCHANGED <<serverVars, toServer, faults>>
  BY DEF HostReceive
<1>2. CASE frame.kind = "welcome" /\ HostWelcome(frame)
  <2> DEFINE cursor == frame.acknowledged
  <2>1. db \in Databases /\ db.acknowledged \in ackedRows \cup {0} /\ Len(db.outbox) \in Nat
    BY DEF MailboxInv, Types, Acked, Databases
  <2>2. cursor \in ackedRows \cup {0} /\ cursor \in 0..MaxSequence
    <3>1. frame \in ServerFrames
      BY <1>1, SeqHeadTail DEF MailboxInv, Channels
    <3>2. cursor \in ackedRows \cup {0}
      BY <1>2, <3>1 DEF ServerFrames
    <3>3. ackedRows \cup {0} \subseteq 0..MaxSequence
      BY HostMailboxAssumption DEF MailboxInv, Types
    <3> QED
      BY <3>2, <3>3
  <2>3. CASE cursor = db.acknowledged /\ Welcome(db)
    <3>1. \A j \in Len(db.outbox) + 1..Len(db.outbox) : FALSE
      BY <2>1
    <3>2. Keeps(db, db)
      BY <3>1 DEF Keeps
    <3> QED
      BY <1>1, <2>1, <2>3, <3>2, WelcomeStep
  <2>4. CASE Welcome(Adopt(db, cursor))
    <3>1. LET h == Adopt(db, cursor)
          IN  h \in Databases /\ Keeps(db, h) /\ h.acknowledged = cursor
      BY <2>1, <2>2, AdoptKeeps
    <3> QED
      BY <1>1, <2>2, <2>4, <3>1, WelcomeStep
  <2>5. CASE Stop("mailbox_cursor_reconciliation_required")
    BY <1>1, <2>5, StopStep
  <2> QED
    BY <1>2, <2>3, <2>4, <2>5 DEF HostWelcome
<1>3. CASE frame.kind = "message" /\ HostMessage(frame)
  <2>1. CASE Verdict(db, frame.msg) \notin {"known", "new"}
    BY <1>1, <1>3, <2>1, StopStep DEF HostMessage
  <2>2. CASE Verdict(db, frame.msg) \in {"known", "new"}
    <3>1. /\ db' = PumpHost(Receive(db, frame.msg)) /\ toHost' = Tail(toHost)
          /\ UNCHANGED <<up, connected, welcomed, inFlight, stopped>>
      BY <1>3, <2>2 DEF HostMessage
    <3>2. toHost' \in Seq(ServerFrames)
      BY <1>1, <3>1, SeqHeadTail DEF MailboxInv, Channels
    <3>3. Types' \/ db' \notin Databases
      BY <1>1, <3>1 DEF MailboxInv, Types, serverVars, serverDisk, delivery
    <3> QED
      BY <1>1, <1>3, <2>2, <3>1, <3>2, <3>3, MessageStep
  <2> QED
    BY <2>1, <2>2
<1>4. CASE frame.kind = "event_ack" /\ HostEventAck(frame)
  BY <1>1, <1>4, EventAckStep
<1>5. CASE Stop("protocol_error")
  BY <1>1, <1>5, StopStep
<1> QED
  BY <1>2, <1>3, <1>4, <1>5 DEF HostReceive

\* A lost socket or a stopped host loses frames and nothing stored.
LEMMA FaultStep ==
    ASSUME MailboxInv, HostLosesSocket \/ ServerLosesSocket \/ HostCrash
    PROVE  MailboxInv' /\ CommandStep
<1>1. faults' \in 0..MaxFaults
  BY HostMailboxAssumption
  DEF HostLosesSocket, ServerLosesSocket, HostCrash, Fault, MailboxInv, Types
<1>2. Types' /\ rowid <= rowid'
  <2>1. up' \in BOOLEAN /\ connected' \in BOOLEAN /\ welcomed' \in BOOLEAN
    BY DEF HostLosesSocket, ServerLosesSocket, HostCrash, Crashed, MailboxInv, Types, hostMemory
  <2>2. UNCHANGED <<serverDisk, sentSequence, confirmedSequence, db>>
    BY DEF HostLosesSocket, ServerLosesSocket, HostCrash, serverVars, delivery
  <2>3. /\ session' \in {"closed", "open", "ready"} /\ inflight' \subseteq 1..MaxSequence
        /\ callbacks' \in Seq(0..MaxSequence)
    <3>1. /\ session' = session \/ session' = "closed"
          /\ inflight' = inflight \/ inflight' = {}
          /\ callbacks' = callbacks \/ callbacks' = <<>>
      BY DEF HostLosesSocket, ServerLosesSocket, HostCrash, serverVars, delivery
    <3>2. <<>> \in Seq(0..MaxSequence)
      OBVIOUS
    <3> QED
      BY <3>1, <3>2 DEF MailboxInv, Types
  <2> QED
    BY <1>1, <2>1, <2>2, <2>3 DEF MailboxInv, Types, serverDisk
<1>3. /\ toHost' \in Seq(ServerFrames) /\ toServer' \in Seq(HostFrames)
      /\ inFlight' \subseteq 1..Len(db.outbox)
  <2>1. /\ toHost' = toHost \/ toHost' = <<>>
        /\ toServer' = toServer \/ toServer' = <<>>
        /\ inFlight' = inFlight \/ inFlight' = {}
    BY DEF HostLosesSocket, ServerLosesSocket, HostCrash, Crashed, hostMemory
  <2>2. <<>> \in Seq(ServerFrames) /\ <<>> \in Seq(HostFrames)
    OBVIOUS
  <2> QED
    BY <2>1, <2>2 DEF MailboxInv, Channels
<1>4. UNCHANGED <<mailbox, ackedRows, recorded, db>>
  BY DEF HostLosesSocket, ServerLosesSocket, HostCrash, serverVars, serverDisk
<1> QED
  BY <1>2, <1>3, <1>4, LinkStep

\* A stop after the command is stored, and before it is acted upon, is the storing step.
LEMMA CrashAfterReceiveStep ==
    ASSUME MailboxInv, HostCrashAfterReceive
    PROVE  MailboxInv' /\ CommandStep
<1>1. faults' \in 0..MaxFaults
  BY HostMailboxAssumption DEF HostCrashAfterReceive, Fault, MailboxInv, Types
<1>2. Types' \/ db' \notin Databases
  BY <1>1 DEF HostCrashAfterReceive, Crashed, MailboxInv, Types, serverVars, serverDisk, delivery
<1>3. toHost' \in Seq(ServerFrames) /\ inFlight' \subseteq inFlight
  BY DEF HostCrashAfterReceive, Crashed
<1> QED
  BY <1>2, <1>3, MessageStep DEF HostCrashAfterReceive

-----------------------------------------------------------------------------
(* The theorems. *)

LEMMA MailboxInvInit == Init => MailboxInv
<1> SUFFICES ASSUME Init PROVE MailboxInv
  OBVIOUS
<1>1. db \in Databases /\ db.inbox = <<>> /\ db.outbox = <<>> /\ db.received = 0
      /\ db.acknowledged = 0
  BY HostMailboxAssumption DEF Init, Databases, ExecutionStates
<1>2. Types
  <2>1. rowid \in 0..MaxSequence /\ sentSequence \in 0..MaxSequence
        /\ confirmedSequence \in 0..MaxSequence /\ faults \in 0..MaxFaults
    BY HostMailboxAssumption DEF Init
  <2>2. mailbox \in Seq(Rows) /\ callbacks \in Seq(0..MaxSequence)
    BY DEF Init
  <2>3. dispatch \in [Dispatches -> {"none", "leased", "cancelling", "interrupted", "settled"}]
    BY DEF Init
  <2> QED
    BY <1>1, <2>1, <2>2, <2>3 DEF Init, Types
<1>3. Chain /\ Stored(db) /\ Acked
  BY <1>1 DEF Init, Chain, Stored, Acked
<1>4. Channels
  BY DEF Init, Channels
<1> QED
  BY <1>2, <1>3, <1>4 DEF MailboxInv

\* Every step keeps the invariant and is a step of OrderedDelivery or none.
LEMMA MailboxInvNext == MailboxInv /\ [Next]_mvars => MailboxInv' /\ CommandStep
<1> SUFFICES ASSUME MailboxInv, [Next]_mvars PROVE MailboxInv' /\ CommandStep
  OBVIOUS
<1>1. CASE \E d \in Dispatches : EnqueueExecute(d) \/ EnqueueCancel(d)
  BY <1>1, EnqueueStep
<1>2. CASE \E d \in Dispatches : Finish(d)
  BY <1>2, FinishStep
<1>3. CASE EnqueueElsewhere
  BY <1>3, EnqueueElsewhereStep
<1>4. CASE Pump
  BY <1>4, PumpStep
<1>5. CASE Confirm
  BY <1>5, ConfirmStep
<1>6. CASE ServerReceive
  BY <1>6, ServerReceiveStep
<1>7. CASE Connect
  BY <1>7, ConnectStep
<1>8. CASE HostReceive
  BY <1>8, HostReceiveStep
<1>9. CASE Drain
  BY <1>9, DrainStep
<1>10. CASE HostLosesSocket \/ ServerLosesSocket \/ HostCrash
  BY <1>10, FaultStep
<1>11. CASE HostCrashAfterReceive
  BY <1>11, CrashAfterReceiveStep
<1>12. CASE HostStart
  BY <1>12, StartStep
<1>13. CASE UNCHANGED mvars
  <2>1. Types' /\ rowid <= rowid'
    BY <1>13 DEF mvars, MailboxInv, Types, serverVars, serverDisk, delivery, hostMemory
  <2> QED
    BY <2>1, <1>13, LinkStep
    DEF mvars, MailboxInv, Channels, serverVars, serverDisk, delivery, hostMemory
<1> QED
  BY <1>1, <1>2, <1>3, <1>4, <1>5, <1>6, <1>7, <1>8, <1>9, <1>10, <1>11, <1>12, <1>13 DEF Next

\* The two databases, the sessions and the channels hold what their tables and
\* types allow, in every state of every run.
THEOREM MailboxTypes == Spec => []MailboxTypeOK
<1>1. MailboxInv => MailboxTypeOK
  <2> SUFFICES ASSUME MailboxInv PROVE MailboxTypeOK
    OBVIOUS
  <2>1. /\ db.inbox \in Seq(InboxRows) /\ db.outbox \in Seq(OutboxRows)
        /\ db.execution \in [Dispatches -> ExecutionStates]
        /\ db.received \in 0..MaxSequence /\ db.acknowledged \in 0..MaxSequence
    BY DEF MailboxInv, Types, Databases
  <2>2. recorded \in Seq(Nat)
    <3>1. Settled \subseteq Nat
      BY <2>1 DEF Settled
    <3> QED
      BY <3>1, SeqSubset DEF MailboxInv, Channels
  <2> QED
    BY <2>1, <2>2 DEF MailboxInv, Types, Channels, MailboxTypeOK, InboxRows, OutboxRows
<1> QED
  BY <1>1, MailboxInvInit, MailboxInvNext, PTL DEF Spec

\* The host applies the commands of the mailbox in order and once: the link
\* implements an OrderedDelivery, whatever sockets and processes do.
THEOREM CommandsRefine == Spec => CommandsInOrder
<1> DEFINE delivered == [i \in 1..Len(db.inbox) |-> db.inbox[i].msg]
<1>1. Init => Commands!Init
  BY DEF Init, Commands!Init
<1>2. MailboxInv /\ MailboxInv' /\ CommandStep => [Commands!Next]_<<mailbox, delivered>>
  <2> SUFFICES ASSUME MailboxInv, MailboxInv', CommandStep
               PROVE  [Commands!Next]_<<mailbox, delivered>>
    OBVIOUS
  <2> DEFINE m == Len(db.inbox)
  <2>1. m \in Nat /\ mailbox \in Seq(Rows)
    BY DEF MailboxInv, Types, Databases
  <2>2. CASE /\ UNCHANGED mailbox
             /\ Len(db'.inbox) = m
             /\ \A i \in 1..m : db'.inbox[i].msg = db.inbox[i].msg
    BY <2>2
  <2>3. CASE /\ \E row \in Rows : mailbox' = Append(mailbox, row)
             /\ UNCHANGED db
    <3>1. Len(mailbox') >= Len(mailbox) /\ SubSeq(mailbox', 1, Len(mailbox)) = mailbox
      BY <2>1, <2>3
    <3> QED
      BY <3>1, <2>3 DEF Commands!Next, Commands!Send
  <2>4. CASE /\ UNCHANGED mailbox
             /\ m < Len(mailbox)
             /\ Len(db'.inbox) = m + 1
             /\ \A i \in 1..m : db'.inbox[i].msg = db.inbox[i].msg
             /\ db'.inbox[m + 1].msg = mailbox[m + 1]
    <3>1. delivered \in Seq(Rows) /\ Len(delivered) = m
      <4>1. db.inbox \in Seq(InboxRows)
        BY DEF MailboxInv, Types, Databases
      <4>2. \A i \in 1..m : db.inbox[i].msg \in Rows
        <5> TAKE i \in 1..m
        <5>1. db.inbox[i] \in InboxRows
          BY <4>1
        <5> QED
          BY <5>1 DEF InboxRows
      <4> QED
        BY <4>2, <2>1
    <3>2. delivered' = Append(delivered, mailbox[m + 1])
      BY <2>1, <2>4
    <3> QED
      BY <3>1, <3>2, <2>4 DEF Commands!Next, Commands!Deliver
  <2> QED
    BY <2>2, <2>3, <2>4 DEF CommandStep
<1> QED
  BY <1>1, <1>2, MailboxInvInit, MailboxInvNext, PTL DEF Spec, CommandsInOrder, Commands!Spec

\* The server takes for acknowledged what the host has stored, and the host
\* what the server has, for every number of faults.
THEOREM AcknowledgedStored == Spec => []AcknowledgedIsStored
<1>1. MailboxInv => AcknowledgedIsStored
  <2> SUFFICES ASSUME MailboxInv PROVE AcknowledgedIsStored
    OBVIOUS
  <2> DEFINE m == Len(db.inbox)
  <2>1. /\ LastAcknowledged \in ackedRows \cup {0} /\ LastAcknowledged \in 0..MaxSequence
        /\ \A other \in ackedRows : other <= LastAcknowledged
    BY LastAcknowledgedIsMax DEF MailboxInv
  <2>2. db.acknowledged \in ackedRows \cup {0}
    BY DEF MailboxInv, Acked
  <2> HIDE DEF m
  <2>3. db.acknowledged <= LastAcknowledged
    <3> DEFINE last == LastAcknowledged
               cursor == db.acknowledged
    <3>1. last \in Nat /\ (\A other \in ackedRows : other <= last) /\ cursor \in ackedRows \cup {0}
      BY <2>1, <2>2
    <3> HIDE DEF last, cursor
    <3>2. cursor <= last
      BY <3>1
    <3> QED
      BY <3>2 DEF last, cursor
  <2>4. /\ m \in Nat /\ m <= Len(mailbox) /\ mailbox \in Seq(Rows)
        /\ db.received \in 0..MaxSequence
    BY DEF MailboxInv, Types, Databases, Stored, m
  <2>5. LastAcknowledged <= db.received
    <3>1. CASE LastAcknowledged = 0
      BY <2>4, <3>1
    <3>2. CASE LastAcknowledged \in ackedRows
      <4>1. PICK i \in 1..m : mailbox[i].seq = LastAcknowledged
        BY <3>2 DEF MailboxInv, Acked, m
      <4>2. m # 0 /\ db.received = mailbox[m].seq
        BY <2>4 DEF MailboxInv, Stored, m
      <4>3. i = m \/ mailbox[i].seq < mailbox[m].seq
        BY <2>4 DEF MailboxInv, Chain
      <4>4. db.received = LastAcknowledged \/ LastAcknowledged < db.received
        BY <4>1, <4>2, <4>3
      <4> HIDE DEF LastAcknowledged
      <4> QED
        BY <4>4, <2>1, <2>4
    <3> QED
      BY <3>1, <3>2, <2>1
  <2> QED
    BY <2>2, <2>3, <2>5 DEF AcknowledgedIsStored
<1> QED
  BY <1>1, MailboxInvInit, MailboxInvNext, PTL DEF Spec
==============================================================================
